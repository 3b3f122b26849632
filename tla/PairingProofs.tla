----------------------------- MODULE PairingProofs -----------------------------
(* How far the two programs of assignment_final can be apart on a control    *)
(* connection: which point of a client's handler goes with which point of    *)
(* the process that serves it, and what is then under way between them.  All *)
(* of it is for users who type no line longer than the server's buffer.      *)
EXTENDS EchoFtpProofs

(* A line that is longer comes in two parts, and the second is one text too *)
(* many (EchoFtpServer.c:168): from then on nothing here holds.             *)
Brief == "long echo" \notin Typed

(* What is under way in one direction: a text, or two of them.              *)
Is(u, t) == Len(u) = 1 /\ u[1].t = t
Both(u, t1, t2) == Len(u) = 2 /\ u[1].t = t1 /\ u[2].t = t2
Silent(u, w) == u = <<>> /\ w = <<>>

(* In what follows cpc is the point of the client, spc that of its server   *)
(* process, u what waits for the server and w what waits for the client.    *)

(* A connection that was made and not greeted yet.                          *)
Arriving(cpc, u, w) ==
    /\ w = <<>>
    /\ \/ cpc = "hello" /\ u = <<>>
       \/ cpc = "hi" /\ u = <<Word("hello")>>

(* The handshake; the client does not wait for the fork.                    *)
Meeting(cpc, spc, u, w) ==
    \/ spc = "hello" /\ Arriving(cpc, u, w)
    \/ spc = "hi" /\ cpc = "hi" /\ Silent(u, w)
    \/ /\ spc \in {"fork", "session"}
       /\ \/ cpc = "hi" /\ u = <<>> /\ Is(w, "hi")
          \/ cpc = "User" /\ Silent(u, w)
          \/ cpc = "userR" /\ Is(u, "User") /\ w = <<>>

(* The commands that are a question and an answer, and those that begin so: *)
(* where the client waits for the answer, what it has asked.                *)
Asks(cpc, t) ==
    \/ cpc = "userR" /\ t = "User"
    \/ cpc = "sysyR" /\ t = "SYSY"
    \/ cpc = "addr" /\ t = "PASV"
    \/ cpc = "cwdR" /\ t = "CWD"
    \/ cpc = "ok" /\ t = "ECHO"
    \/ cpc = "quitR" /\ t = "QUIT"
Concludes(cpc, t) ==
    \/ cpc = "userR" /\ t = "Get"
    \/ cpc = "sysyR" /\ t = "OS"
    \/ cpc = "cwdR" /\ t = "Change"
    \/ cpc = "textR" /\ t = "text"
    \/ cpc = "stordone" /\ t = "complete"
Asking(cpc, spc, u, w) ==
    \/ /\ spc = "session"
       /\ \/ /\ cpc \in {"prompt", "SYSY", "PASV", "CWD", "ECHO", "QUIT"}
             /\ Silent(u, w)
          \/ (\E t \in Commands : Asks(cpc, t) /\ Is(u, t)) /\ w = <<>>
          \/ u = <<>> /\ \E t \in Texts : Concludes(cpc, t) /\ Is(w, t)
    \/ spc \in Commands /\ Asks(cpc, spc) /\ Silent(u, w)

Echoing(cpc, spc, u, w) ==
    \/ /\ spc = "echotext"
       /\ \/ cpc = "ok" /\ u = <<>> /\ Is(w, "ok")
          \/ cpc = "text" /\ Silent(u, w)
          \/ cpc = "textR" /\ Is(u, "text") /\ w = <<>>
    \/ spc = "echoback" /\ cpc = "textR" /\ Silent(u, w)

(* Between PASV and the command that uses the data connection, which may    *)
(* come while the server is still at it.                                    *)
Orders(cpc, t) ==
    \/ cpc = "list150" /\ t = "LIST"
    \/ cpc = "retrsize" /\ t = "RETR"
    \/ cpc = "storok" /\ t = "STOR"
Joining(cpc, spc, u, w) ==
    /\ spc \in {"dtpaccept", "dtphello", "dtphi", "session"}
    /\ \/ cpc = "addr" /\ u = <<>> /\ Is(w, "addr")
       \/ /\ cpc \in {"connect", "dtphello", "dtphi", "LIST", "RETR", "STOR"}
          /\ Silent(u, w)
       \/ (\E t \in Commands : Orders(cpc, t) /\ Is(u, t)) /\ w = <<>>

Listing(cpc, spc, u, w) ==
    /\ u = <<>>
    /\ \/ spc = "LIST" /\ cpc = "list150" /\ w = <<>>
       \/ /\ spc \in {"listdata", "listdone"}
          /\ \/ cpc = "list150" /\ Is(w, "150")
             \/ cpc \in {"listdata", "listdone"} /\ w = <<>>
       \/ /\ spc = "session"
          /\ \/ cpc = "list150" /\ Both(w, "150", "226")
             \/ cpc \in {"listdata", "listdone"} /\ (w = <<>> \/ Is(w, "226"))

Fetching(cpc, spc, u, w) ==
    /\ u = <<>>
    /\ \/ spc \in {"RETR", "retrsize"} /\ cpc = "retrsize" /\ w = <<>>
       \/ /\ spc = "retrdone"
          /\ \/ cpc = "retrsize" /\ Is(w, "size")
             \/ cpc \in {"download", "retrdone"} /\ w = <<>>
       \/ /\ spc = "session"
          /\ \/ cpc = "retrsize" /\ Both(w, "size", "complete")
             \/ cpc \in {"download", "retrdone"} /\ (w = <<>> \/ Is(w, "complete"))

Storing(cpc, spc, u, w) ==
    \/ spc = "STOR" /\ cpc = "storok" /\ Silent(u, w)
    \/ /\ spc = "storsize"
       /\ \/ cpc = "storok" /\ u = <<>> /\ Is(w, "226")
          \/ cpc \in {"upload", "SIZE"} /\ Silent(u, w)
          \/ cpc = "stordone" /\ Is(u, "SIZE") /\ w = <<>>
    \/ spc \in {"download", "stordone"} /\ cpc = "stordone" /\ Silent(u, w)

Paired(cpc, spc, u, w) ==
    \/ Meeting(cpc, spc, u, w) \/ Asking(cpc, spc, u, w)
    \/ Echoing(cpc, spc, u, w) \/ Joining(cpc, spc, u, w)
    \/ Listing(cpc, spc, u, w) \/ Fetching(cpc, spc, u, w)
    \/ Storing(cpc, spc, u, w)

(* What a client may find on its control connection, its server alive or    *)
(* not: nothing, the answer it waits for, or two answers glued together.    *)
Due(cpc, w) ==
    \/ w = <<>>
    \/ \E t \in Texts : Concludes(cpc, t) /\ Is(w, t)
    \/ cpc = "hi" /\ Is(w, "hi")
    \/ cpc = "addr" /\ Is(w, "addr")
    \/ cpc = "ok" /\ Is(w, "ok")
    \/ cpc = "quitR" /\ Is(w, "221")
    \/ cpc = "list150" /\ (Is(w, "150") \/ Both(w, "150", "226"))
    \/ cpc \in {"listdata", "listdone"} /\ Is(w, "226")
    \/ cpc = "retrsize" /\ (Is(w, "size") \/ Both(w, "size", "complete"))
    \/ cpc \in {"download", "retrdone"} /\ Is(w, "complete")
    \/ cpc = "storok" /\ Is(w, "226")

-----------------------------------------------------------------------------
(* The moves of the two programs on a control connection.  A send adds one  *)
(* text, a receive takes the first or the first two.                        *)
Grown(u, t, u2) ==
    /\ u = <<>> => Is(u2, t)
    /\ \A a \in Texts : Is(u, a) => Both(u2, a, t)
Shrunk(u, u2) ==
    /\ u # <<>>
    /\ \A a \in Texts : Is(u, a) => u2 = <<>>
    /\ \A a, b \in Texts : Both(u, a, b) => u2 = <<>> \/ Is(u2, b)

(* What it is to be one text.                                               *)
LEMMA IsOne ==
    ASSUME NEW u, NEW t, Is(u, t)
    PROVE  u # <<>> /\ u[1].t = t
<1>1. u = <<>> => Len(u) = 0
  OBVIOUS
<1> QED
  BY <1>1 DEF Is

(* A word by itself is one text.                                            *)
LEMMA WordIs ==
    ASSUME NEW t
    PROVE  Is(<<Word(t)>>, t)
BY DEF Is, Word

(* A unit added to a stream is one more text at its end.                    *)
LEMMA GrownBy ==
    ASSUME NEW u \in Seq(Msg), NEW m \in Msg
    PROVE  Grown(u, m.t, u \o <<m>>) /\ (u = <<>> => u \o <<m>> = <<m>>)
<1>1. /\ Len(u \o <<m>>) = Len(u) + 1 /\ (u \o <<m>>)[Len(u) + 1] = m
      /\ \A i \in 1..Len(u) : (u \o <<m>>)[i] = u[i]
  OBVIOUS
<1>2. u = <<>> => u \o <<m>> = <<m>> /\ Len(u) = 0
  OBVIOUS
<1>3. Len(u) = 1 => 1 \in 1..Len(u)
  OBVIOUS
<1> QED
  BY <1>1, <1>2, <1>3 DEF Grown, Is, Both

(* The rest of a stream after its first j units.                            *)
LEMMA ShrunkBy ==
    ASSUME NEW u \in Seq(Msg), NEW j \in 1..Len(u)
    PROVE  Shrunk(u, SubSeq(u, j + 1, Len(u)))
<1> DEFINE rest == SubSeq(u, j + 1, Len(u))
<1>1. /\ rest \in Seq(Msg) /\ Len(rest) = Len(u) - j
      /\ \A i \in 1..Len(rest) : rest[i] = u[i + j]
  OBVIOUS
<1>2. Len(rest) = 0 => rest = <<>>
  BY <1>1
<1>3. Len(u) \in Nat /\ j \in 1..Len(u) /\ u # <<>>
  OBVIOUS
<1> HIDE DEF rest
<1>4. Len(u) = 1 => rest = <<>>
  BY <1>1, <1>2, <1>3
<1>5. Len(u) = 2 /\ rest # <<>> => Len(rest) = 1 /\ rest[1] = u[2]
  <2> SUFFICES ASSUME Len(u) = 2, rest # <<>>
               PROVE  Len(rest) = 1 /\ rest[1] = u[2]
    OBVIOUS
  <2>1. j = 1 \/ j = 2
    BY <1>3
  <2>2. Len(rest) = 1
    BY <1>1, <1>2, <2>1
  <2>3. 1 \in 1..Len(rest) /\ j = 1
    BY <1>1, <2>1, <2>2
  <2> QED
    BY <1>1, <2>2, <2>3
<1>6. Shrunk(u, rest)
  BY <1>3, <1>4, <1>5 DEF Shrunk, Is, Both
<1> QED
  BY <1>6 DEF rest

(* The server's: sends, receives, and steps that leave the connection       *)
(* alone.  live tells whether the client's end is open: what is sent to a   *)
(* closed end is lost, and end-of-file is read from it.                     *)
Replies(spc, t, spc2) ==
    \/ spc = "hi" /\ t = "hi" /\ spc2 = "fork"
    \/ spc = "User" /\ t = "Get" /\ spc2 = "session"
    \/ spc = "SYSY" /\ t = "OS" /\ spc2 = "session"
    \/ spc = "PASV" /\ t = "addr" /\ spc2 = "dtpaccept"
    \/ spc = "ECHO" /\ t = "ok" /\ spc2 = "echotext"
    \/ spc = "echoback" /\ t = "text" /\ spc2 = "session"
    \/ spc = "STOR" /\ t = "226" /\ spc2 = "storsize"
    \/ spc = "stordone" /\ t = "complete" /\ spc2 = "session"
    \/ spc = "retrsize" /\ t = "size" /\ spc2 = "retrdone"
    \/ spc = "retrdone" /\ t = "complete" /\ spc2 = "session"
    \/ spc = "LIST" /\ t = "150" /\ spc2 = "listdata"
    \/ spc = "listdone" /\ t = "226" /\ spc2 = "session"
    \/ spc = "CWD" /\ t = "Change" /\ spc2 = "session"
    \/ spc = "QUIT" /\ t = "221" /\ spc2 = "accept"
Hears(spc, u, spc2) ==
    \/ spc = "hello" /\ u = <<Word("hello")>> /\ spc2 = "hi"
    \/ spc = "session" /\ spc2 = IF u[1].t \in Commands THEN u[1].t ELSE spc
    \/ spc = "echotext" /\ spc2 = "echoback"
    \/ spc = "storsize" /\ spc2 = "download"
Works(spc, spc2) ==
    \/ spc = "dtphello" /\ spc2 = "dtphi"
    \/ spc = "dtphi" /\ spc2 = "session"
    \/ spc = "download" /\ spc2 \in {"download", "stordone"}
    \/ spc = "RETR" /\ spc2 \in {"RETR", "retrsize"}
    \/ spc = "listdata" /\ spc2 \in {"listdata", "listdone"}
ServerTalk(live, spc, u, w, spc2, u2, w2) ==
    \/ /\ u2 = u
       /\ \E t \in Texts : /\ Replies(spc, t, spc2)
                           /\ IF live THEN Grown(w, t, w2) ELSE w2 = w
    \/ Hears(spc, u, spc2) /\ Shrunk(u, u2) /\ w2 = w
    \/ Works(spc, spc2) /\ u2 = u /\ w2 = w
    \/ /\ ~ live /\ u = <<>> /\ u2 = u /\ w2 = w
       /\ \/ spc = "echotext" /\ spc2 = "session"
          \/ spc = "storsize" /\ spc2 = "download"

(* The client's.                                                            *)
Requests(cpc, t, cpc2) ==
    \/ cpc = "hello" /\ t = "hello" /\ cpc2 = "hi"
    \/ cpc = "User" /\ t = "User" /\ cpc2 = "userR"
    \/ cpc = "SYSY" /\ t = "SYSY" /\ cpc2 = "sysyR"
    \/ cpc = "PASV" /\ t = "PASV" /\ cpc2 = "addr"
    \/ cpc = "LIST" /\ t = "LIST" /\ cpc2 = "list150"
    \/ cpc = "RETR" /\ t = "RETR" /\ cpc2 = "retrsize"
    \/ cpc = "STOR" /\ t = "STOR" /\ cpc2 = "storok"
    \/ cpc = "SIZE" /\ t = "SIZE" /\ cpc2 = "stordone"
    \/ cpc = "CWD" /\ t = "CWD" /\ cpc2 = "cwdR"
    \/ cpc = "ECHO" /\ t = "ECHO" /\ cpc2 = "ok"
    \/ cpc = "text" /\ t = "text" /\ cpc2 = "textR"
    \/ cpc = "QUIT" /\ t = "QUIT" /\ cpc2 = "quitR"
Reads(cpc, cpc2) ==
    \/ cpc = "hi" /\ cpc2 = "User"
    \/ cpc = "userR" /\ cpc2 = "SYSY"
    \/ cpc = "addr" /\ cpc2 = "connect"
    \/ cpc = "list150" /\ cpc2 = "listdata"
    \/ cpc = "retrsize" /\ cpc2 = "download"
    \/ cpc = "storok" /\ cpc2 = "upload"
    \/ cpc = "ok" /\ cpc2 = "text"
    \/ /\ cpc \in {"sysyR", "listdone", "retrdone", "stordone", "cwdR", "textR"}
       /\ cpc2 = "prompt"
Turns(cpc, cpc2) ==
    \/ cpc = "prompt" /\ cpc2 \in {"prompt", "PASV", "CWD", "ECHO", "QUIT"}
    \/ cpc = "connect" /\ cpc2 = "dtphello"
    \/ cpc = "dtphello" /\ cpc2 = "dtphi"
    \/ cpc = "dtphi" /\ cpc2 \in {"LIST", "RETR", "STOR"}
    \/ cpc = "listdata" /\ cpc2 \in {"listdata", "listdone"}
    \/ cpc = "download" /\ cpc2 \in {"download", "retrdone"}
    \/ cpc = "upload" /\ cpc2 \in {"upload", "SIZE"}
ClientTalk(live, cpc, u, w, cpc2, u2, w2) ==
    \/ /\ w2 = w
       /\ \E t \in Texts :
            /\ Requests(cpc, t, cpc2)
            /\ IF live THEN Grown(u, t, u2) /\ (cpc = "hello" /\ u = <<>> => u2 = <<Word("hello")>>)
                       ELSE u2 = u
    \/ Reads(cpc, cpc2) /\ Shrunk(w, w2) /\ u2 = u
    \/ Turns(cpc, cpc2) /\ u2 = u /\ w2 = w
    \/ ~ live /\ Reads(cpc, cpc2) /\ w = <<>> /\ w2 = w /\ u2 = u

-----------------------------------------------------------------------------
(* A move of the server keeps the pair, or ends it with the answer to QUIT. *)
LEMMA ServerTalks ==
    ASSUME NEW cpc, NEW spc, NEW u, NEW w, NEW spc2, NEW u2, NEW w2,
           Paired(cpc, spc, u, w), ServerTalk(TRUE, spc, u, w, spc2, u2, w2)
    PROVE  \/ Paired(cpc, spc2, u2, w2)
           \/ spc2 = "accept" /\ cpc = "quitR" /\ u2 = <<>> /\ Is(w2, "221")
<1> USE DEF Silent, Grown, Shrunk, Replies, Hears, Works, ServerTalk
<1>e. \A t \in Texts : Is(u, t) => u # <<>> /\ u[1].t = t
  BY IsOne
<1>h. Is(<<Word("hello")>>, "hello")
  BY WordIs
<1>c. Commands \subseteq Texts /\ "hello" \in Texts
  BY DEF Texts
<1>1. CASE Meeting(cpc, spc, u, w)
  BY <1>1, <1>e, <1>h, <1>c DEF Meeting, Arriving, Paired, Asking, Asks, Commands
<1>2. CASE Asking(cpc, spc, u, w)
  <2>1. CASE spc = "session"
    BY <1>2, <1>e, <1>c, <2>1 DEF Asking, Paired, Asks, Commands
  <2>2. CASE spc # "session"
    <3>1. spc \in Commands /\ Asks(cpc, spc) /\ Silent(u, w)
      BY <1>2, <2>2 DEF Asking
    <3> QED
      BY <3>1, <1>c DEF Asks, Paired, Asking, Concludes, Joining, Echoing, Commands, Texts
  <2> QED
    BY <2>1, <2>2
<1>3. CASE Echoing(cpc, spc, u, w)
  BY <1>3, <1>e DEF Asking, Paired, Concludes, Commands, Echoing, Texts
<1>4. CASE Joining(cpc, spc, u, w)
  <2>1. CASE spc = "session"
    BY <1>4, <1>e, <1>c, <2>1 DEF Joining, Paired, Orders, Commands, Listing, Fetching, Storing
  <2>2. CASE spc # "session"
    BY <1>4, <2>2 DEF Joining, Paired
  <2> QED
    BY <2>1, <2>2
<1>5. CASE Listing(cpc, spc, u, w)
  BY <1>5, <1>e DEF Listing, Paired, Texts
<1>6. CASE Fetching(cpc, spc, u, w)
  BY <1>6, <1>e DEF Fetching, Paired, Texts
<1>7. CASE Storing(cpc, spc, u, w)
  BY <1>7, <1>e DEF Storing, Paired, Asking, Concludes, Texts, Commands
<1> QED
  BY <1>1, <1>2, <1>3, <1>4, <1>5, <1>6, <1>7 DEF Paired

(* A move of the client keeps it,                                           *)
LEMMA ClientTalks ==
    ASSUME NEW cpc, NEW spc, NEW u, NEW w, NEW cpc2, NEW u2, NEW w2,
           Paired(cpc, spc, u, w), ClientTalk(TRUE, cpc, u, w, cpc2, u2, w2)
    PROVE  Paired(cpc2, spc, u2, w2)
<1> USE DEF Silent, Grown, Shrunk, Requests, Reads, Turns, ClientTalk
<1>e. \A t \in Texts : Is(w, t) => w # <<>>
  BY IsOne
<1>t. \A t \in {"hi", "addr", "ok", "150", "226", "size", "complete"} : t \in Texts
  BY DEF Texts
<1>1. CASE Meeting(cpc, spc, u, w)
  BY <1>1, <1>e, <1>t DEF Meeting, Arriving, Paired, Asking, Asks, Commands
<1>2. CASE Asking(cpc, spc, u, w)
  <2>1. CASE \E t \in Texts : Concludes(cpc, t) /\ Is(w, t) /\ u = <<>> /\ spc = "session"
    BY <2>1, <1>e DEF Asking, Paired, Concludes
  <2>2. CASE /\ spc = "session" /\ Silent(u, w)
             /\ cpc \in {"prompt", "SYSY", "PASV", "CWD", "ECHO", "QUIT"}
    BY <2>2 DEF Asking, Paired, Asks, Commands
  <2>3. CASE w = <<>> /\ \E t \in Commands : Asks(cpc, t)
    BY <2>3 DEF Asks
  <2> QED
    BY <1>2, <2>1, <2>2, <2>3 DEF Asking
<1>3. CASE Echoing(cpc, spc, u, w)
  BY <1>3, <1>e, <1>t DEF Asking, Paired, Echoing
<1>4. CASE Joining(cpc, spc, u, w)
  BY <1>4, <1>e, <1>t DEF Joining, Paired, Orders, Commands
<1>5. CASE Listing(cpc, spc, u, w)
  BY <1>5, <1>e, <1>t DEF Listing, Paired, Asking
<1>6. CASE Fetching(cpc, spc, u, w)
  BY <1>6, <1>e, <1>t DEF Fetching, Paired, Asking
<1>7. CASE Storing(cpc, spc, u, w)
  BY <1>7, <1>e, <1>t DEF Storing, Paired
<1> QED
  BY <1>1, <1>2, <1>3, <1>4, <1>5, <1>6, <1>7 DEF Paired

(* on the way to it, before it is accepted,                                 *)
LEMMA ClientArrives ==
    ASSUME NEW cpc, NEW u, NEW w, NEW cpc2, NEW u2, NEW w2,
           Arriving(cpc, u, w), ClientTalk(TRUE, cpc, u, w, cpc2, u2, w2)
    PROVE  Arriving(cpc2, u2, w2)
BY DEF Arriving, ClientTalk, Requests, Reads, Turns, Shrunk

(* and with or without a server finds nothing that is not due.              *)
LEMMA ClientDue ==
    ASSUME NEW live, NEW cpc, NEW u, NEW w, NEW cpc2, NEW u2, NEW w2,
           Due(cpc, w), ClientTalk(live, cpc, u, w, cpc2, u2, w2)
    PROVE  Due(cpc2, w2)
<1>e. \A t \in Texts : Is(w, t) => w # <<>>
  BY IsOne
<1>f. \A s, t \in Texts : Both(w, s, t) => w # <<>>
  <2>1. Len(<<>>) = 0
    OBVIOUS
  <2> QED
    BY <2>1 DEF Both
<1>t. \A t \in {"hi", "addr", "ok", "150", "226", "size", "complete"} : t \in Texts
  BY DEF Texts
<1>1. CASE w = <<>>
  BY <1>1 DEF ClientTalk, Shrunk, Due
<1>2. ASSUME NEW t \in Texts, Requests(cpc, t, cpc2), w2 = w
      PROVE  Due(cpc2, w2)
  BY <1>2 DEF Requests, Due, Concludes
<1>3. CASE Reads(cpc, cpc2) /\ Shrunk(w, w2)
  BY <1>3, <1>e, <1>t DEF Reads, Shrunk, Due, Concludes
<1>4. CASE Turns(cpc, cpc2) /\ w2 = w
  BY <1>4, <1>e DEF Turns, Due, Concludes
<1> QED
  BY <1>1, <1>2, <1>3, <1>4 DEF ClientTalk

(* What is under way in a pair is due, and at most one text for the server. *)
LEMMA PairedDue ==
    ASSUME NEW cpc, NEW spc, NEW u, NEW w, Paired(cpc, spc, u, w)
    PROVE  Due(cpc, w) /\ (u = <<>> \/ \E t \in Texts : Is(u, t))
<1>h. Is(<<Word("hello")>>, "hello")
  BY WordIs
<1>c. Commands \subseteq Texts /\ \A t \in {"hello", "text", "SIZE", "User"} : t \in Texts
  BY DEF Texts, Commands
<1> USE DEF Silent, Due
<1>1. CASE Meeting(cpc, spc, u, w)
  BY <1>1, <1>h, <1>c DEF Meeting, Arriving
<1>2. CASE Asking(cpc, spc, u, w)
  BY <1>2, <1>c DEF Asking
<1>3. CASE Echoing(cpc, spc, u, w)
  BY <1>3, <1>c DEF Echoing
<1>4. CASE Joining(cpc, spc, u, w)
  BY <1>4, <1>c DEF Joining
<1>5. CASE Listing(cpc, spc, u, w)
  BY <1>5 DEF Listing
<1>6. CASE Fetching(cpc, spc, u, w)
  BY <1>6 DEF Fetching
<1>7. CASE Storing(cpc, spc, u, w)
  BY <1>7, <1>c DEF Storing
<1> QED
  BY <1>1, <1>2, <1>3, <1>4, <1>5, <1>6, <1>7 DEF Paired

-----------------------------------------------------------------------------
(* What the calls do to a connection, read as moves.  None makes or closes  *)
(* one here; Says adds one text for the other side, Gets takes some of what *)
(* waits for side s.                                                        *)
Stays(ch2, ch) ==
    /\ ch2.port = ch.port
    /\ ch2.end["s"] = "open" <=> ch.end["s"] = "open"
    /\ ch2.end["c"] = "open" <=> ch.end["c"] = "open"
OnlyAt(k) ==
    /\ \A l \in Conns \ {k} : chan'[l] = chan[l]
    /\ Stays(chan'[k], chan[k])
Says(k, s, t) ==
    /\ OnlyAt(k)
    /\ chan'[k].in[s] = chan[k].in[s]
    /\ LET u == chan[k].in[Peer(s)]
           u2 == chan'[k].in[Peer(s)]
       IN IF chan[k].end[Peer(s)] = "open"
          THEN Grown(u, t, u2) /\ (t = "hello" /\ u = <<>> => u2 = <<Word("hello")>>)
          ELSE u2 = u
Gets(k, s) ==
    /\ OnlyAt(k)
    /\ chan'[k].in[Peer(s)] = chan[k].in[Peer(s)]
    /\ Shrunk(chan[k].in[s], chan'[k].in[s])

(* The other side is a side.                                                *)
LEMMA PeerSide ==
    ASSUME NEW s \in Sides
    PROVE  Peer(s) \in Sides /\ Peer(s) # s /\ "s" \in Sides /\ "c" \in Sides
BY DEF Peer, Sides

(* A unit that is sent grows what waits for the other side, or is lost.     *)
LEMMA SentSays ==
    ASSUME NEW ch \in Channel, NEW s \in Sides, NEW m \in Msg,
           m.t = "hello" => m = Word("hello")
    PROVE  LET ch2 == Sent(ch, s, <<m>>)
               u == ch.in[Peer(s)]
               u2 == ch2.in[Peer(s)]
           IN  /\ Stays(ch2, ch) /\ ch2 \in Channel
               /\ ch2.in[s] = ch.in[s]
               /\ IF ch.end[Peer(s)] = "open"
                  THEN Grown(u, m.t, u2) /\ (m.t = "hello" /\ u = <<>> => u2 = <<Word("hello")>>)
                  ELSE u2 = u
<1> DEFINE ch2 == Sent(ch, s, <<m>>)
           u == ch.in[Peer(s)]
<1>1. Peer(s) \in Sides /\ Peer(s) # s /\ u \in Seq(Msg) /\ <<m>> \in Seq(Msg)
  BY PeerSide DEF Channel
<1>2. CASE ch.end[Peer(s)] = "open"
  <2>1. ch2 = [ch EXCEPT !.in[Peer(s)] = u \o <<m>>]
    BY <1>2 DEF Sent
  <2>2. u \o <<m>> \in Seq(Msg)
    BY <1>1
  <2>3. /\ ch2 \in Channel /\ ch2.port = ch.port /\ ch2.end = ch.end
        /\ ch2.in[Peer(s)] = u \o <<m>> /\ ch2.in[s] = ch.in[s]
    BY <1>1, <2>1, <2>2 DEF Channel
  <2>4. Grown(u, m.t, u \o <<m>>) /\ (u = <<>> => u \o <<m>> = <<m>>)
    BY <1>1, GrownBy
  <2> QED
    BY <1>2, <2>3, <2>4 DEF Stays
<1>3. CASE ch.end[Peer(s)] = "fin"
  <2>1. ch2 = [ch EXCEPT !.end[Peer(s)] = "gone"]
    BY <1>3 DEF Sent
  <2>2. "gone" \in Ends
    BY DEF Ends
  <2> DEFINE r == Peer(s)
  <2>0. r \in Sides /\ s \in Sides \ {r} /\ ch2 = [ch EXCEPT !.end[r] = "gone"]
    BY <1>1, <2>1
  <2> HIDE DEF r, ch2
  <2>a. /\ ch2 \in Channel /\ ch2.port = ch.port
        /\ ch2.end[r] = "gone" /\ ch2.end[s] = ch.end[s]
    BY <2>0, <2>2, EndType
  <2>3. /\ ch2 \in Channel /\ ch2.port = ch.port
        /\ ch2.end[Peer(s)] = "gone" /\ ch2.end[s] = ch.end[s]
    BY <2>a DEF r
  <2>4. ch2.in = ch.in
    BY <2>1 DEF ch2, Channel
  <2> QED
    BY <1>1, <1>3, <2>3, <2>4 DEF Stays, Sides, ch2
<1>4. CASE ch.end[Peer(s)] \notin {"open", "fin"}
  <2>1. ch2 = ch
    BY <1>4 DEF Sent
  <2> QED
    BY <1>4, <2>1 DEF Stays
<1> QED
  BY <1>2, <1>3, <1>4

(* The call send adds one text,                                             *)
LEMMA SendSays ==
    ASSUME chan \in [Conns -> Channel], NEW k \in Conns, NEW s \in Sides,
           NEW m \in Msg, m.t = "hello" => m = Word("hello"), SendOn(k, s, <<m>>)
    PROVE  Says(k, s, m.t)
<1>1. chan[k] \in Channel /\ chan'[k] = Sent(chan[k], s, <<m>>)
      /\ \A l \in Conns \ {k} : chan'[l] = chan[l]
  BY DEF SendOn
<1> QED
  BY <1>1, SentSays DEF Says, OnlyAt

(* and what is taken shrinks what waits,                                    *)
LEMMA TakenGets ==
    ASSUME NEW ch \in Channel, NEW s \in Sides, NEW j \in 1..Len(ch.in[s])
    PROVE  LET ch2 == Taken(ch, s, j)
           IN  /\ Stays(ch2, ch) /\ ch2 \in Channel
               /\ ch2.in[Peer(s)] = ch.in[Peer(s)]
               /\ Shrunk(ch.in[s], ch2.in[s])
<1> DEFINE u == ch.in[s]
           v == SubSeq(u, j + 1, Len(u))
           ch2 == Taken(ch, s, j)
<1>1. Peer(s) \in Sides /\ Peer(s) # s /\ u \in Seq(Msg) /\ j \in Nat
  BY PeerSide DEF Channel
<1>2. Shrunk(u, v)
  BY <1>1, ShrunkBy
<1>3. v \in Seq(Msg)
  BY <1>1
<1>4. ch2 = [ch EXCEPT !.in[s] = v]
  BY DEF Taken
<1> HIDE DEF v
<1>5. ch2 \in Channel /\ ch2.port = ch.port /\ ch2.end = ch.end
      /\ ch2.in[s] = v /\ ch2.in[Peer(s)] = ch.in[Peer(s)]
  BY <1>1, <1>3, <1>4 DEF Channel
<1> QED
  BY <1>2, <1>5 DEF Stays

(* by the call recv.                                                        *)
LEMMA RecvGets ==
    ASSUME chan \in [Conns -> Channel], NEW k \in Conns, NEW s \in Sides,
           NEW j, RecvOn(k, s, j)
    PROVE  Gets(k, s)
<1>1. chan[k] \in Channel /\ chan'[k] = Taken(chan[k], s, j)
      /\ j \in 1..Len(chan[k].in[s])
      /\ \A l \in Conns \ {k} : chan'[l] = chan[l]
  BY DEF RecvOn
<1> QED
  BY <1>1, TakenGets DEF Gets, OnlyAt

(* A close ends one side of a connection and drops what waits for it;       *)
LEMMA ClosedEnd ==
    ASSUME NEW ch \in Channel, NEW s \in Sides, NEW how \in Hows
    PROVE  LET ch2 == Closed(ch, s, how)
           IN  /\ ch2.port = ch.port /\ ch2 \in Channel
               /\ ch2.end[Peer(s)] = ch.end[Peer(s)] /\ ch2.end[s] # "open"
               /\ ch2.in[Peer(s)] = ch.in[Peer(s)] /\ ch2.in[s] = <<>>
<1>1. PICK e \in Ends \ {"open"} :
        Closed(ch, s, how) = [ch EXCEPT !.end[s] = e, !.in[s] = <<>>]
  BY DEF Hows, Ends, Closed
<1>2. Peer(s) \in Sides /\ Peer(s) # s
  BY PeerSide
<1>3. Closed(ch, s, how) \in Channel
  BY ClosedType
<1> QED
  BY <1>1, <1>2, <1>3 DEF Channel

(* so does the end of a listening socket, for the server's side.            *)
LEMMA RefusedEnd ==
    ASSUME NEW ch \in Channel
    PROVE  /\ Refused(ch).port = ch.port
           /\ Refused(ch).end["c"] = ch.end["c"] /\ Refused(ch).end["s"] # "open"
           /\ Refused(ch).in["c"] = ch.in["c"] /\ Refused(ch).in["s"] = <<>>
BY DEF Refused, Channel, Sides

-----------------------------------------------------------------------------
(* What a step of the server is for the connections, when it is not one of  *)
(* the five that make, hand on or end a process or a connection's owner: p  *)
(* works for its own client, on its control connection k or, in a transfer, *)
(* on its data connection d, and lets go of d at most at the end of one.    *)
Handles(p) ==
    LET k == proc[p].clntSock
        d == proc[p].clntDtpSock
        live == chan[k].end["c"] = "open"
    IN  /\ Serving(p)
        /\ \A q \in Procs \ {p} : proc'[q] = proc[q] /\ fds'[q] = fds[q]
        /\ proc'[p].clntSock = k /\ proc'[p].clntDtpSock = d
        /\ \/ fds'[p] = fds[p]
           \/ fds'[p] = fds[p] \ {d} /\ proc[p].pc \in {"stordone", "listdata"}
                                     /\ proc'[p].pc \in {"session", "listdone"}
        /\ UNCHANGED <<backlog, cl>>
        /\ \A l \in Conns \ {k} : (Transferring(p) => l # d) => chan'[l] = chan[l]
        /\ \A l \in Conns : chan'[l].port = chan[l].port
                            /\ (chan'[l].end["c"] = "open" <=> chan[l].end["c"] = "open")
        /\ chan'[k].end["s"] = "open" <=> chan[k].end["s"] = "open"
        /\ ServerTalk(live, proc[p].pc, chan[k].in["s"], chan[k].in["c"],
                      proc'[p].pc, chan'[k].in["s"], chan'[k].in["c"])
        /\ At(p, "dtphello") =>
             chan[d].in["s"] # <<>> /\ (d \in Conns => chan'[d].in["c"] = chan[d].in["c"])

(* The control and the data connection of a process are two, and the first  *)
(* is open.                                                                 *)
LEMMA SocksApart ==
    ASSUME IInv, NEW p \in Procs, Serving(p)
    PROVE  /\ proc[p].clntSock \in Conns /\ proc[p].clntSock \in fds[p]
           /\ proc[p].clntSock # proc[p].clntDtpSock
           /\ chan[proc[p].clntSock].end["s"] = "open"
           /\ chan[proc[p].clntSock].port = "pi"
           /\ chan \in [Conns -> Channel]
           /\ proc[p].clntDtpSock \in Conns \cup {NoConn}
<1>1. proc[p].clntSock \in Conns /\ proc[p].clntSock \in fds[p]
  BY DEF IInv, Apart, ControlApart, TypeOK, ServerType
<1>2. chan[proc[p].clntSock].port = "pi"
  BY DEF IInv, Apart
<1>3. proc[p].clntDtpSock \in Conns => chan[proc[p].clntDtpSock].port = "dtp"
  BY DEF IInv, Apart
<1>4. chan[proc[p].clntSock].end["s"] = "open"
  BY <1>1 DEF IInv, Held
<1>5. chan \in [Conns -> Channel] /\ proc[p].clntDtpSock \in Conns \cup {NoConn}
  BY DEF IInv, TypeOK, SocketsType, ServerType, Process
<1> QED
  BY <1>1, <1>2, <1>3, <1>4, <1>5

(* A quiet step of the server is a move of p on its control connection, or  *)
(* on its data connection when the two programs exchange nothing.           *)
LEMMA QuietHandles ==
    ASSUME IInv, NEW p \in Procs, Quiet(p), UNCHANGED cl,
           LET k == proc[p].clntSock
               d == proc[p].clntDtpSock
               spc == proc[p].pc
               spc2 == proc'[p].pc
           IN \/ \E t \in Texts : Says(k, "s", t) /\ Replies(spc, t, spc2)
              \/ Gets(k, "s") /\ Hears(spc, chan[k].in["s"], spc2)
              \/ UNCHANGED chan /\ Works(spc, spc2) /\ spc # "dtphello"
              \/ /\ UNCHANGED chan /\ AtEnd(chan[k], "s")
                 /\ \/ spc = "echotext" /\ spc2 = "session"
                    \/ spc = "storsize" /\ spc2 = "download"
              \/ /\ d \in Conns => Gets(d, "s") \/ \E t \in Texts : Says(d, "s", t) /\ spc # "dtphello"
                 /\ d \notin Conns => UNCHANGED chan
                 /\ Works(spc, spc2) /\ Transferring(p)
                 /\ spc = "dtphello" => chan[d].in["s"] # <<>>
    PROVE  Handles(p)
<1> DEFINE k == proc[p].clntSock
           d == proc[p].clntDtpSock
           spc == proc[p].pc
           spc2 == proc'[p].pc
           talk == ServerTalk(chan[k].end["c"] = "open", spc, chan[k].in["s"],
                       chan[k].in["c"], spc2, chan'[k].in["s"], chan'[k].in["c"])
<1>1. /\ k \in Conns /\ k # d /\ d \in Conns \cup {NoConn} /\ NoConn \notin Conns
  BY SocksApart, SocketsAssumption DEF Quiet, Moves
<1>p. Peer("s") = "c"
  BY DEF Peer
<1>2. \A l \in Conns : Stays(chan'[l], chan[l])
  BY <1>1 DEF Says, Gets, OnlyAt, Stays
<1>3. /\ Serving(p) /\ proc'[p].clntSock = k /\ proc'[p].clntDtpSock = d
      /\ \A q \in Procs \ {p} : proc'[q] = proc[q] /\ fds'[q] = fds[q]
      /\ fds'[p] = fds[p] /\ UNCHANGED <<backlog, cl>>
  BY DEF Quiet, Moves
<1>4. \A l \in Conns \ {k} : (Transferring(p) => l # d) => chan'[l] = chan[l]
  BY <1>1 DEF Says, Gets, OnlyAt
<1>5. talk
  <2>1. ASSUME NEW t \in Texts, Says(k, "s", t), Replies(spc, t, spc2)
        PROVE  talk
    BY <2>1, <1>p DEF Says, ServerTalk
  <2>2. CASE Gets(k, "s") /\ Hears(spc, chan[k].in["s"], spc2)
    BY <2>2, <1>p DEF Gets, ServerTalk
  <2>3. CASE UNCHANGED chan /\ Works(spc, spc2)
    BY <2>3 DEF ServerTalk
  <2>4. CASE /\ UNCHANGED chan /\ AtEnd(chan[k], "s")
             /\ \/ spc = "echotext" /\ spc2 = "session"
                \/ spc = "storsize" /\ spc2 = "download"
    <3>1. chan[k].in["s"] = <<>> /\ ~ (chan[k].end["c"] = "open")
      BY <2>4, <1>p DEF AtEnd
    <3> QED
      BY <3>1, <2>4 DEF ServerTalk
  <2>5. CASE /\ d \in Conns => Gets(d, "s") \/ \E t \in Texts : Says(d, "s", t)
             /\ d \notin Conns => UNCHANGED chan
             /\ Works(spc, spc2)
    <3>1. chan'[k] = chan[k]
      BY <1>1, <2>5 DEF Gets, Says, OnlyAt
    <3> QED
      BY <3>1, <2>5 DEF ServerTalk
  <2> HIDE DEF k, d, spc, spc2, talk
  <2> QED
    BY <2>1, <2>2, <2>3, <2>4, <2>5 DEF k, d, spc, spc2
<1>6. spc = "dtphello" =>
        chan[d].in["s"] # <<>> /\ (d \in Conns => chan'[d].in["c"] = chan[d].in["c"])
  <2> SUFFICES ASSUME spc = "dtphello"
               PROVE  chan[d].in["s"] # <<>> /\ (d \in Conns => chan'[d].in["c"] = chan[d].in["c"])
    OBVIOUS
  <2>1. \A t \in Texts : ~ Replies(spc, t, spc2)
    BY DEF Replies
  <2>2. ~ Hears(spc, chan[k].in["s"], spc2)
    BY DEF Hears
  <2>3. chan[d].in["s"] # <<>> /\ (d \in Conns => Gets(d, "s"))
    BY <2>1, <2>2
  <2> QED
    BY <2>3, <1>p DEF Gets
<1> QED
  BY <1>2, <1>1, <1>3, <1>4, <1>5, <1>6 DEF Handles, Stays, At

(* A send on the control connection,                                        *)
LEMMA SendHandles ==
    ASSUME IInv, UNCHANGED cl, NEW p \in Procs, Serving(p),
           NEW t \in Texts \ {"CWD", "hello"}, NEW n \in Int, NEW pc \in ServerPc \ {"none", "dead", "CWD"},
           Replies(proc[p].pc, t, pc), Send(p, proc[p].clntSock, With(t, n), pc)
    PROVE  Handles(p) \/ Die(p)
<1> DEFINE k == proc[p].clntSock
           m == With(t, n)
<1>1. m \in Msg /\ m.t = t /\ "s" \in Sides /\ <<m>> \in Seq(Msg)
  BY WithIsMsg DEF With, Sides
<1>2. CASE SendOn(k, "s", <<m>>) /\ Goto(p, pc) /\ UNCHANGED <<fds, backlog, listening>>
  <2>1. Says(k, "s", t)
    BY <1>1, <1>2, SendSays, SocksApart
  <2>2. Quiet(p)
    <3>1. Steady
      BY <1>1, <1>2, SendSteady, SocksApart
    <3>2. Moves(p)
      BY <1>2, GotoMoves DEF IInv, TypeOK
    <3> QED
      BY <1>2, <3>1, <3>2 DEF Quiet
  <2>3. proc'[p].pc = pc
    BY <1>2 DEF Goto, IInv, TypeOK, ServerType, Process
  <2> HIDE DEF k, m
  <2> QED
    BY <2>1, <2>2, <2>3, QuietHandles DEF k
<1> QED
  BY <1>1, <1>2 DEF Send

(* a send of a word,                                                        *)
LEMMA SendWord ==
    ASSUME IInv, UNCHANGED cl, NEW p \in Procs, Serving(p),
           NEW t \in Texts \ {"CWD", "hello"}, NEW pc \in ServerPc \ {"none", "dead", "CWD"},
           Replies(proc[p].pc, t, pc), Send(p, proc[p].clntSock, Word(t), pc)
    PROVE  Handles(p) \/ Die(p)
<1>1. Word(t) = With(t, 0) /\ 0 \in Int
  BY DEF Word, With
<1> QED
  BY <1>1, SendHandles

(* the receive of a command,                                                *)
LEMMA SessionHandles ==
    ASSUME IInv, UNCHANGED cl, NEW p \in Procs, Session(p)
    PROVE  Handles(p) \/ Die(p)
<1> DEFINE k == proc[p].clntSock
           m == Head(chan[k].in["s"])
<1>a. Serving(p) /\ proc[p].pc = "session" /\ proc \in [Procs -> Process]
  BY DEF Session, At, Serving, InSession, IInv, TypeOK, ServerType
<1>1. SUFFICES ASSUME NEW j \in 1..Len(chan[k].in["s"]), RecvOn(k, "s", j),
                      proc' = [proc EXCEPT
                        ![p].pc  = IF m.t \in Commands THEN m.t ELSE @,
                        ![p].arg = IF m.t \in Commands THEN m.n ELSE @,
                        ![p].totalBytes = 0]
               PROVE  Handles(p) \/ Die(p)
  BY DEF Session
<1>2. Gets(k, "s")
  BY <1>1, <1>a, RecvGets, SocksApart DEF Sides
<1>3. k \in Conns /\ chan[k] \in Channel
  BY <1>a, SocksApart
<1>4. chan[k].in["s"] \in Seq(Msg) /\ Len(chan[k].in["s"]) # 0
  BY <1>1, <1>3 DEF Channel, Sides
<1>5. m = chan[k].in["s"][1]
  BY <1>4
<1>6. proc'[p].pc = IF m.t \in Commands THEN m.t ELSE "session"
  BY <1>1, <1>a DEF Process
<1>7. Hears(proc[p].pc, chan[k].in["s"], proc'[p].pc)
  <2> HIDE DEF m
  <2> QED
    BY <1>5, <1>6, <1>a DEF Hears
<1>8. CASE Quiet(p)
  <2> HIDE DEF k, m
  <2> QED
    BY <1>2, <1>7, <1>8, QuietHandles DEF k
<1> QED
  BY <1>8, SessionKinds

(* of a hello,                                                              *)
LEMMA HelloHandles ==
    ASSUME IInv, UNCHANGED cl, NEW p \in Procs,
           \/ At(p, "hello") /\ Hello(p, proc[p].clntSock, "hi")
           \/ At(p, "dtphello") /\ Hello(p, proc[p].clntDtpSock, "dtphi")
    PROVE  Handles(p) \/ Die(p)
<1> DEFINE k == proc[p].clntSock
           d == proc[p].clntDtpSock
<1>a. Serving(p)
  BY DEF Serving, InSession, At
<1>b. {"hi", "dtphi"} \subseteq ServerPc \ {"none", "dead", "CWD"}
  BY DEF ServerPc
<1>c. "s" \in Sides /\ chan \in [Conns -> Channel] /\ k \in Conns
  BY <1>a, SocksApart DEF Sides
<1>1. CASE /\ At(p, "hello") /\ Greeted(k) /\ RecvOn(k, "s", 1) /\ Goto(p, "hi")
           /\ UNCHANGED <<fds, backlog, listening>>
  <2>1. Gets(k, "s")
    BY <1>1, <1>c, RecvGets
  <2>2. proc'[p].pc = "hi"
    BY <1>1 DEF Goto, IInv, TypeOK, ServerType, Process
  <2>3. Hears(proc[p].pc, chan[k].in["s"], proc'[p].pc)
    BY <1>1, <2>2 DEF Hears, At, Greeted
  <2>4. Quiet(p)
    BY <1>1, <1>a, <1>b, <1>c, RecvSteady, GotoMoves DEF Quiet, IInv, TypeOK
  <2> QED
    BY <2>1, <2>3, <2>4, QuietHandles
<1>2. CASE /\ At(p, "dtphello") /\ Greeted(d) /\ RecvOn(d, "s", 1) /\ Goto(p, "dtphi")
           /\ UNCHANGED <<fds, backlog, listening>>
  <2>1. d \in Conns => Gets(d, "s")
    BY <1>2, <1>c, RecvGets
  <2>0. d \notin Conns => UNCHANGED chan
    BY <1>2, <1>c DEF RecvOn
  <2>2. proc'[p].pc = "dtphi"
    BY <1>2 DEF Goto, IInv, TypeOK, ServerType, Process
  <2>3. Works(proc[p].pc, proc'[p].pc) /\ Transferring(p)
    BY <1>2, <2>2 DEF Works, At, Transferring
  <2>4. Quiet(p)
    BY <1>2, <1>a, <1>b, <1>c, RecvSteady, GotoMoves DEF Quiet, IInv, TypeOK
  <2>5. chan[d].in["s"] # <<>>
    BY <1>2 DEF Greeted
  <2> QED
    BY <2>0, <2>1, <2>3, <2>4, <2>5, QuietHandles
<1> QED
  BY <1>1, <1>2, <1>a DEF Hello, At

(* the answer on the data connection, of PASV,                              *)
LEMMA PasvHandles ==
    ASSUME IInv, UNCHANGED cl, NEW p \in Procs, PASV(p)
    PROVE  Handles(p) \/ Die(p) \/ Accepts(p)
<1> DEFINE d == proc[p].clntDtpSock
<1>1. CASE At(p, "PASV") /\ Send(p, proc[p].clntSock, Word("addr"), "dtpaccept")
  <2>1. Serving(p) /\ Replies(proc[p].pc, "addr", "dtpaccept")
    BY <1>1 DEF At, Serving, InSession, Commands, Replies
  <2> QED
    BY <1>1, <2>1, SendWord DEF Texts, Commands, ServerPc
<1>2. CASE At(p, "dtphi") /\ Send(p, d, Word("hi"), "session")
  <2>a. Serving(p) /\ Transferring(p) /\ proc[p].pc = "dtphi"
    BY <1>2 DEF Serving, InSession, At, Transferring
  <2>b. chan \in [Conns -> Channel] /\ "s" \in Sides
    BY <2>a, SocksApart DEF Sides
  <2>c. Word("hi") \in Msg /\ Word("hi").t = "hi" /\ "hi" \in Texts /\ "session" \in ServerPc
        /\ <<Word("hi")>> \in Seq(Msg)
    BY WordIsMsg DEF Word, Texts, Commands, ServerPc
  <2>1. CASE SendOn(d, "s", <<Word("hi")>>) /\ Goto(p, "session")
             /\ UNCHANGED <<fds, backlog, listening>>
    <3>1. d \in Conns => Says(d, "s", "hi")
      BY <2>1, <2>b, <2>c, SendSays
    <3>2. d \notin Conns => UNCHANGED chan
      BY <2>1, <2>b DEF SendOn
    <3>3. proc'[p].pc = "session"
      BY <2>1 DEF Goto, IInv, TypeOK, ServerType, Process
    <3>4. Works(proc[p].pc, proc'[p].pc)
      BY <2>a, <3>3 DEF Works
    <3>5. Quiet(p)
      BY <2>1, <2>a, <2>b, <2>c, SendSteady, GotoMoves DEF Quiet, IInv, TypeOK
    <3> QED
      BY <2>a, <2>c, <3>1, <3>2, <3>4, <3>5, QuietHandles
  <2> QED
    BY <1>2, <2>1 DEF Send
<1> QED
  BY <1>1, <1>2, HelloHandles DEF PASV, Accepts

(* The steps of ECHO,                                                       *)
LEMMA EchoHandles ==
    ASSUME IInv, UNCHANGED cl, NEW p \in Procs, ECHO(p)
    PROVE  Handles(p) \/ Die(p)
<1> DEFINE k == proc[p].clntSock
<1>a. Serving(p) /\ "s" \in Sides
  BY DEF ECHO, At, Serving, InSession, Commands, Sides
<1>b. {"echotext", "echoback", "session"} \subseteq ServerPc \ {"none", "dead", "CWD"}
  BY DEF ServerPc
<1>c. {"ok", "text"} \subseteq Texts \ {"CWD", "hello"}
  BY DEF Texts, Commands
<1>d. k \in Conns /\ chan \in [Conns -> Channel]
  BY <1>a, SocksApart
<1>1. CASE At(p, "ECHO") /\ Send(p, k, Word("ok"), "echotext")
  BY <1>1, <1>a, <1>b, <1>c, SendWord DEF At, Replies
<1>2. CASE At(p, "echoback") /\ Send(p, k, Word("text"), "session")
  BY <1>2, <1>a, <1>b, <1>c, SendWord DEF At, Replies
<1>3. CASE /\ At(p, "echotext")
           /\ \E j \in 1..Len(chan[k].in["s"]) : RecvOn(k, "s", j)
           /\ Goto(p, "echoback")
           /\ UNCHANGED <<fds, backlog, listening>>
  <2>1. Gets(k, "s")
    BY <1>3, <1>a, <1>d, RecvGets
  <2>2. proc'[p].pc = "echoback"
    BY <1>3 DEF Goto, IInv, TypeOK, ServerType, Process
  <2>3. Hears(proc[p].pc, chan[k].in["s"], proc'[p].pc)
    BY <1>3, <2>2 DEF Hears, At
  <2>4. Quiet(p)
    BY <1>3, <1>a, <1>b, <1>d, RecvSteady, GotoMoves DEF Quiet, IInv, TypeOK
  <2> QED
    BY <2>1, <2>3, <2>4, QuietHandles
<1>4. CASE /\ At(p, "echotext") /\ AtEnd(chan[k], "s") /\ Goto(p, "session")
           /\ UNCHANGED <<sockets, fds>>
  <2>1. Quiet(p)
    BY <1>4, <1>a, <1>b, <1>d, SameSteady, GotoMoves DEF Quiet, IInv, TypeOK, sockets
  <2>2. proc'[p].pc = "session" /\ UNCHANGED chan
    BY <1>4 DEF Goto, IInv, TypeOK, ServerType, Process, sockets
  <2> QED
    BY <1>4, <2>1, <2>2, QuietHandles DEF At
<1> QED
  BY <1>1, <1>2, <1>3, <1>4 DEF ECHO

(* A process closes its data connection.                                    *)
LEMMA CloseDtp ==
    ASSUME IInv, NEW p \in Procs, Serving(p), NEW h \in [Conns -> Channel],
           CloseIn(h, p, proc[p].clntDtpSock)
    PROVE  LET k == proc[p].clntSock
               d == proc[p].clntDtpSock
           IN  /\ \A l \in Conns \ {d} : chan'[l] = h[l]
               /\ chan'[k] = h[k]
               /\ d \in Conns => /\ chan'[d].port = h[d].port
                                 /\ chan'[d].end["c"] = h[d].end["c"]
               /\ fds'[p] = fds[p] \ {d}
               /\ \A q \in Procs \ {p} : fds'[q] = fds[q]
<1> DEFINE k == proc[p].clntSock
           d == proc[p].clntDtpSock
<1>1. PICK how \in Hows :
        chan' = IF d \in OnlyHeldBy(p) THEN [h EXCEPT ![d] = Closed(@, "s", how)] ELSE h
  BY DEF CloseIn
<1>2. d \in Conns => /\ Closed(h[d], "s", how).port = h[d].port
                     /\ Closed(h[d], "s", how).end["c"] = h[d].end["c"]
  <2>1. "s" \in Sides /\ Peer("s") = "c"
    BY DEF Sides, Peer
  <2> QED
    BY <2>1, ClosedEnd
<1>3. k \in Conns /\ k # d
  BY SocksApart
<1>4. fds'[p] = fds[p] \ {d} /\ \A q \in Procs \ {p} : fds'[q] = fds[q]
  BY DEF CloseIn, IInv, TypeOK, ServerType
<1> QED
  BY <1>1, <1>2, <1>3, <1>4

(* of STOR,                                                                 *)
LEMMA StorSizeHandles ==
    ASSUME IInv, UNCHANGED cl, NEW p \in Procs, StorSize(p)
    PROVE  Handles(p) \/ Die(p)
<1> DEFINE k == proc[p].clntSock
<1>a. Serving(p) /\ "s" \in Sides /\ proc[p].pc = "storsize"
  BY DEF StorSize, At, Serving, InSession, Sides
<1>b. "download" \in ServerPc \ {"none", "dead", "CWD"} /\ 0..Wrapped \subseteq Nat
  BY ProtocolAssumption DEF ServerPc
<1>d. k \in Conns /\ chan \in [Conns -> Channel]
  BY <1>a, SocksApart
<1>e. \A z : proc' = [proc EXCEPT ![p].pc = "download", ![p].fileSize = z]
        => proc'[p].pc = "download"
  BY DEF IInv, TypeOK, ServerType, Process
<1>1. ASSUME NEW j \in 1..Len(chan[k].in["s"]), NEW z \in 0..Wrapped, RecvOn(k, "s", j),
             proc' = [proc EXCEPT ![p].pc = "download", ![p].fileSize = z],
             UNCHANGED <<fds, backlog, listening>>
      PROVE  Handles(p)
  <2>1. Gets(k, "s")
    BY <1>1, <1>a, <1>d, RecvGets
  <2>3. Hears(proc[p].pc, chan[k].in["s"], proc'[p].pc)
    BY <1>1, <1>a, <1>e DEF Hears
  <2>4. Quiet(p)
    BY <1>1, <1>a, <1>b, <1>d, RecvSteady, SizeMoves DEF Quiet, IInv, TypeOK
  <2> QED
    BY <2>1, <2>3, <2>4, QuietHandles
<1>2. ASSUME NEW z \in 0..Wrapped, AtEnd(chan[k], "s"), UNCHANGED <<sockets, fds>>,
             proc' = [proc EXCEPT ![p].pc = "download", ![p].fileSize = z]
      PROVE  Handles(p)
  <2>1. Quiet(p)
    BY <1>2, <1>a, <1>b, <1>d, SameSteady, SizeMoves DEF Quiet, IInv, TypeOK, sockets
  <2> QED
    BY <1>2, <1>a, <1>e, <2>1, QuietHandles DEF sockets
<1> QED
  BY <1>1, <1>2 DEF StorSize

(* each read of the file,                                                   *)
LEMMA DownloadHandles ==
    ASSUME IInv, UNCHANGED cl, NEW p \in Procs, Download(p)
    PROVE  Handles(p) \/ Die(p)
<1> DEFINE d == proc[p].clntDtpSock
<1>a. Serving(p) /\ Transferring(p) /\ "s" \in Sides /\ proc[p].pc = "download"
  BY DEF Download, At, Serving, InSession, Sides, Transferring
<1>b. "stordone" \in ServerPc \ {"none", "dead", "CWD"}
  BY DEF ServerPc
<1>d. chan \in [Conns -> Channel]
  BY <1>a, SocksApart
<1>1. CASE /\ RecvOn(d, "s", 1)
           /\ proc' = [proc EXCEPT ![p].totalBytes = @ + 1]
           /\ UNCHANGED <<fds, backlog, listening>>
  <2>1. d \in Conns => Gets(d, "s")
    BY <1>1, <1>a, <1>d, RecvGets
  <2>2. d \notin Conns => UNCHANGED chan
    BY <1>1, <1>d DEF RecvOn
  <2>3. Works(proc[p].pc, proc'[p].pc)
    BY <1>1, <1>a DEF Works, IInv, TypeOK, ServerType, Process
  <2>4. Quiet(p)
    BY <1>1, <1>a, <1>d, RecvSteady, CountMoves DEF Quiet, IInv, TypeOK, At
  <2> QED
    BY <1>a, <2>1, <2>2, <2>3, <2>4, QuietHandles
<1>2. CASE Goto(p, "stordone") /\ UNCHANGED <<sockets, fds>>
  <2>1. Quiet(p)
    BY <1>2, <1>a, <1>b, <1>d, SameSteady, GotoMoves DEF Quiet, IInv, TypeOK, sockets
  <2>2. UNCHANGED chan /\ Works(proc[p].pc, proc'[p].pc)
    BY <1>2, <1>a DEF Goto, IInv, TypeOK, ServerType, Process, sockets, Works
  <2> QED
    BY <1>a, <2>1, <2>2, QuietHandles
<1> QED
  BY <1>1, <1>2 DEF Download

(* all of STOR,                                                             *)
LEMMA StorHandles ==
    ASSUME IInv, UNCHANGED cl, NEW p \in Procs, STOR(p)
    PROVE  Handles(p) \/ Die(p)
<1> DEFINE k == proc[p].clntSock
           d == proc[p].clntDtpSock
           h == [chan EXCEPT ![k] = Sent(@, "s", <<Word("complete")>>)]
<1>a. Serving(p) /\ "s" \in Sides /\ Peer("s") = "c"
  BY DEF STOR, StorSize, Download, At, Serving, InSession, Commands, Sides, Peer
<1>b. {"storsize", "session"} \subseteq ServerPc \ {"none", "dead", "CWD"}
  BY DEF ServerPc
<1>c. {"226", "complete"} \subseteq Texts \ {"CWD", "hello"}
  BY DEF Texts, Commands
<1>d. k \in Conns /\ chan \in [Conns -> Channel] /\ k # d /\ d \in Conns \cup {NoConn}
  BY <1>a, SocksApart
<1>1. CASE At(p, "STOR") /\ Send(p, k, Word("226"), "storsize")
  BY <1>1, <1>a, <1>b, <1>c, SendWord DEF At, Replies
<1>2. CASE /\ At(p, "stordone") /\ CloseIn(h, p, d) /\ Goto(p, "session")
           /\ UNCHANGED <<backlog, listening>>
  <2>1. Word("complete") \in Msg /\ Word("complete").t = "complete" /\ chan[k] \in Channel
    BY <1>c, <1>d, WordIsMsg DEF Word
  <2> DEFINE u == chan[k].in["c"]
  <2>2. /\ h \in [Conns -> Channel] /\ \A l \in Conns \ {k} : h[l] = chan[l]
        /\ Stays(h[k], chan[k])
        /\ h[k].in["s"] = chan[k].in["s"]
        /\ IF chan[k].end["c"] = "open" THEN Grown(u, "complete", h[k].in["c"])
                                        ELSE h[k].in["c"] = u
    <3>1. h[k] = Sent(chan[k], "s", <<Word("complete")>>)
      BY <1>d
    <3> QED
      BY <1>a, <1>d, <2>1, <3>1, SentSays
  <2> HIDE DEF h
  <2>3. /\ \A l \in Conns \ {d} : chan'[l] = h[l]
        /\ chan'[k] = h[k]
        /\ d \in Conns => chan'[d].port = h[d].port /\ chan'[d].end["c"] = h[d].end["c"]
        /\ fds'[p] = fds[p] \ {d}
        /\ \A q \in Procs \ {p} : fds'[q] = fds[q]
    BY <1>2, <1>a, <2>2, CloseDtp
  <2>4. /\ \A q \in Procs \ {p} : proc'[q] = proc[q]
        /\ proc'[p].clntSock = k /\ proc'[p].clntDtpSock = d
        /\ proc'[p].pc = "session" /\ proc[p].pc = "stordone"
    BY <1>2 DEF Goto, At, IInv, TypeOK, ServerType, Process
  <2>5. Transferring(p) /\ "complete" \in Texts /\ Replies("stordone", "complete", "session")
    BY <2>4, <1>c DEF Transferring, Replies
  <2>6. ServerTalk(chan[k].end["c"] = "open", proc[p].pc, chan[k].in["s"], chan[k].in["c"],
                   proc'[p].pc, chan'[k].in["s"], chan'[k].in["c"])
    BY <2>2, <2>3, <2>4, <2>5 DEF ServerTalk
  <2>7. \A l \in Conns : /\ chan'[l].port = chan[l].port
                         /\ chan'[l].end["c"] = "open" <=> chan[l].end["c"] = "open"
    BY <2>2, <2>3, <1>d DEF Stays
  <2>8. chan'[k].end["s"] = "open" <=> chan[k].end["s"] = "open"
    BY <2>2, <2>3 DEF Stays
  <2>9. \A l \in Conns \ {k} : (Transferring(p) => l # d) => chan'[l] = chan[l]
    BY <2>2, <2>3, <2>5
  <2> QED
    BY <1>2, <1>a, <2>3, <2>4, <2>6, <2>7, <2>8, <2>9 DEF Handles, At
<1> QED
  BY <1>1, <1>2, StorSizeHandles, DownloadHandles DEF STOR

(* of RETR,                                                                 *)
LEMMA RetrHandles ==
    ASSUME IInv, UNCHANGED cl, NEW p \in Procs, RETR(p)
    PROVE  Handles(p) \/ Die(p)
<1> DEFINE k == proc[p].clntSock
           d == proc[p].clntDtpSock
<1>a. Serving(p) /\ "s" \in Sides
  BY DEF RETR, At, Serving, InSession, Commands, Sides
<1>b. {"retrsize", "retrdone", "session"} \subseteq ServerPc \ {"none", "dead", "CWD"}
  BY DEF ServerPc
<1>c. {"size", "complete", "data"} \subseteq Texts \ {"CWD", "hello"}
  BY DEF Texts, Commands
<1>d. chan \in [Conns -> Channel]
  BY <1>a, SocksApart
<1>1. CASE /\ At(p, "RETR") /\ SendOn(d, "s", <<Word("data")>>)
           /\ proc' = [proc EXCEPT ![p].totalBytes = @ + 1]
           /\ UNCHANGED <<fds, backlog, listening>>
  <2>0. Word("data") \in Msg /\ Word("data").t = "data" /\ <<Word("data")>> \in Seq(Msg)
    BY <1>c, WordIsMsg DEF Word
  <2>1. d \in Conns => Says(d, "s", "data")
    BY <1>1, <1>a, <1>d, <2>0, SendSays
  <2>2. d \notin Conns => UNCHANGED chan
    BY <1>1, <1>d DEF SendOn
  <2>3. Works(proc[p].pc, proc'[p].pc) /\ Transferring(p) /\ ~ At(p, "dtphello") /\ ~ At(p, "CWD")
    BY <1>1 DEF Works, IInv, TypeOK, ServerType, Process, At, Transferring
  <2>4. Quiet(p)
    BY <1>1, <1>a, <1>d, <2>0, <2>3, SendSteady, CountMoves DEF Quiet, IInv, TypeOK
  <2> QED
    BY <1>c, <2>1, <2>2, <2>3, <2>4, QuietHandles DEF At
<1>2. ASSUME At(p, "RETR"), UNCHANGED <<sockets, fds>>,
             NEW n \in Uploaded(chan[d], "s", proc[p].totalBytes, proc[p].arg),
             proc' = [proc EXCEPT ![p].pc = "retrsize", ![p].totalBytes = n]
      PROVE  Handles(p)
  <2>0. n \in Nat
    BY UploadedIsNat DEF IInv, TypeOK, ServerType, Process
  <2>1. Quiet(p)
    BY <1>2, <1>a, <1>d, <2>0, SameSteady, UploadedMoves DEF Quiet, IInv, TypeOK, sockets
  <2>2. UNCHANGED chan /\ Works(proc[p].pc, proc'[p].pc)
    BY <1>2 DEF IInv, TypeOK, ServerType, Process, sockets, Works, At
  <2> QED
    BY <1>2, <2>1, <2>2, QuietHandles DEF At
<1>3. CASE At(p, "retrsize") /\ Send(p, k, With("size", proc[p].totalBytes), "retrdone")
  <2>1. proc[p].totalBytes \in Int
    BY DEF IInv, TypeOK, ServerType, Process
  <2> QED
    BY <1>3, <1>a, <1>b, <1>c, <2>1, SendHandles DEF At, Replies
<1>4. CASE At(p, "retrdone") /\ Send(p, k, Word("complete"), "session")
  BY <1>4, <1>a, <1>b, <1>c, SendWord DEF At, Replies
<1> QED
  BY <1>1, <1>2, <1>3, <1>4 DEF RETR

(* of LIST                                                                  *)
LEMMA ListHandles ==
    ASSUME IInv, UNCHANGED cl, NEW p \in Procs, LIST(p)
    PROVE  Handles(p) \/ Die(p)
<1> DEFINE k == proc[p].clntSock
           d == proc[p].clntDtpSock
<1>a. Serving(p) /\ "s" \in Sides
  BY DEF LIST, At, Serving, InSession, Commands, Sides
<1>b. {"listdata", "listdone", "session"} \subseteq ServerPc \ {"none", "dead", "CWD"}
      /\ Lines \subseteq Nat
  BY ServerAssumption DEF ServerPc
<1>c. {"150", "226", "line"} \subseteq Texts \ {"CWD", "hello"}
  BY DEF Texts, Commands
<1>d. chan \in [Conns -> Channel] /\ k \in Conns
  BY <1>a, SocksApart
<1>w. \A t \in {"150", "line"} :
        Word(t) \in Msg /\ Word(t).t = t /\ <<Word(t)>> \in Seq(Msg)
  BY <1>c, WordIsMsg DEF Word
<1>1. ASSUME NEW n \in Lines, At(p, "LIST"), SendOn(k, "s", <<Word("150")>>),
             proc' = [proc EXCEPT ![p].pc = "listdata", ![p].fileSize = n],
             UNCHANGED <<fds, backlog, listening>>
      PROVE  Handles(p)
  <2>1. Says(k, "s", "150")
    BY <1>1, <1>a, <1>d, <1>w, SendSays
  <2>2. proc'[p].pc = "listdata"
    BY <1>1 DEF IInv, TypeOK, ServerType, Process
  <2>3. Replies(proc[p].pc, "150", proc'[p].pc)
    BY <1>1, <2>2 DEF Replies, At
  <2>4. Quiet(p)
    BY <1>1, <1>a, <1>b, <1>d, <1>w, SendSteady, SizeMoves DEF Quiet, IInv, TypeOK
  <2> QED
    BY <1>c, <2>1, <2>3, <2>4, QuietHandles
<1>2. CASE /\ At(p, "listdata") /\ SendOn(d, "s", <<Word("line")>>)
           /\ proc' = [proc EXCEPT ![p].totalBytes = @ + 1]
           /\ UNCHANGED <<fds, backlog, listening>>
  <2>1. d \in Conns => Says(d, "s", "line")
    BY <1>2, <1>a, <1>d, <1>w, SendSays
  <2>2. d \notin Conns => UNCHANGED chan
    BY <1>2, <1>d DEF SendOn
  <2>3. Works(proc[p].pc, proc'[p].pc) /\ Transferring(p) /\ ~ At(p, "dtphello") /\ ~ At(p, "CWD")
    BY <1>2 DEF Works, IInv, TypeOK, ServerType, Process, At, Transferring
  <2>4. Quiet(p)
    BY <1>2, <1>a, <1>d, <1>w, <2>3, SendSteady, CountMoves DEF Quiet, IInv, TypeOK
  <2> QED
    BY <1>c, <2>1, <2>2, <2>3, <2>4, QuietHandles DEF At
<1>3. CASE /\ At(p, "listdata") /\ CloseIn(chan, p, d) /\ Goto(p, "listdone")
           /\ UNCHANGED <<backlog, listening>>
  <2>1. /\ \A l \in Conns \ {d} : chan'[l] = chan[l]
        /\ chan'[k] = chan[k]
        /\ d \in Conns => chan'[d].port = chan[d].port /\ chan'[d].end["c"] = chan[d].end["c"]
        /\ fds'[p] = fds[p] \ {d}
        /\ \A q \in Procs \ {p} : fds'[q] = fds[q]
    BY <1>3, <1>a, <1>d, CloseDtp
  <2>2. /\ \A q \in Procs \ {p} : proc'[q] = proc[q]
        /\ proc'[p].clntSock = k /\ proc'[p].clntDtpSock = d
        /\ proc'[p].pc = "listdone" /\ proc[p].pc = "listdata"
    BY <1>3 DEF Goto, At, IInv, TypeOK, ServerType, Process
  <2>3. Transferring(p) /\ Works("listdata", "listdone")
    BY <2>2 DEF Transferring, Works
  <2>4. ServerTalk(chan[k].end["c"] = "open", proc[p].pc, chan[k].in["s"], chan[k].in["c"],
                   proc'[p].pc, chan'[k].in["s"], chan'[k].in["c"])
    BY <2>1, <2>2, <2>3 DEF ServerTalk
  <2>5. \A l \in Conns : chan'[l].port = chan[l].port /\ chan'[l].end["c"] = chan[l].end["c"]
    BY <2>1
  <2>6. \A l \in Conns \ {k} : (Transferring(p) => l # d) => chan'[l] = chan[l]
    BY <2>1, <2>3
  <2> QED
    BY <1>3, <1>a, <2>1, <2>2, <2>4, <2>5, <2>6 DEF Handles, At
<1>4. CASE At(p, "listdone") /\ Send(p, k, Word("226"), "session")
  BY <1>4, <1>a, <1>b, <1>c, SendWord DEF At, Replies
<1> QED
  BY <1>1, <1>2, <1>3, <1>4 DEF LIST

(* and of CWD.                                                              *)
LEMMA CwdHandles ==
    ASSUME IInv, UNCHANGED cl, NEW p \in Procs, CWD(p)
    PROVE  Handles(p) \/ Die(p)
<1> DEFINE k == proc[p].clntSock
<1>a. Serving(p) /\ "s" \in Sides /\ At(p, "CWD")
  BY DEF CWD, At, Serving, InSession, Commands, Sides
<1>d. chan \in [Conns -> Channel] /\ k \in Conns
  BY <1>a, SocksApart
<1>1. ASSUME NEW dir, proc' = [proc EXCEPT ![p].pc = "session", ![p].cwd = dir],
             SendOn(k, "s", <<Word("Change")>>), Quiet(p)
      PROVE  Handles(p)
  <2>1. "Change" \in Texts \ {"CWD"} /\ Word("Change").t = "Change"
    BY DEF Texts, Commands, Word
  <2>2. Says(k, "s", "Change")
    BY <1>1, <1>a, <1>d, <2>1, SendSays, WordIsMsg
  <2>3. proc'[p].pc = "session"
    BY <1>1 DEF IInv, TypeOK, ServerType, Process
  <2>4. Replies(proc[p].pc, "Change", proc'[p].pc)
    BY <1>a, <2>3 DEF Replies, At
  <2> QED
    BY <1>1, <2>1, <2>2, <2>4, QuietHandles
<1>2. Quiet(p) \/ Die(p)
  BY CwdKinds
<1> QED
  BY <1>1, <1>2 DEF CWD

(* Every step of the server is one of the five kinds.                       *)
LEMMA ServeSplit ==
    ASSUME IInv, NEW p \in Procs, Serve(p)
    PROVE  Handles(p) \/ Accepts(p) \/ Forks(p) \/ (Serving(p) /\ Die(p))
<1>1. ServerStep(p) /\ UNCHANGED cl
  BY DEF Serve
<1>b. {"hi", "fork", "session", "accept"} \subseteq ServerPc \ {"none", "dead", "CWD"}
  BY DEF ServerPc
<1>c. {"hi", "Get", "OS", "221"} \subseteq Texts \ {"CWD", "hello"}
  BY DEF Texts, Commands
<1>k. SUFFICES Handles(p) \/ Accepts(p) \/ Forks(p) \/ Die(p)
  BY <1>1, ServerKinds DEF Handles, Quiet, Closes, Moves, Accepts, Forks, At, Serving,
     InSession, ServerStep, AcceptPI, Fork, Session, User, SYSY, PASV, ECHO, STOR, StorSize,
     Download, RETR, LIST, CWD, QUIT, Commands
<1>2. CASE AcceptPI(p)
  <2>1. CASE At(p, "hi") /\ Send(p, proc[p].clntSock, Word("hi"), "fork")
    <3>1. Serving(p) /\ Replies(proc[p].pc, "hi", "fork")
      BY <2>1 DEF At, Serving, Replies
    <3> QED
      BY <1>1, <1>b, <1>c, <2>1, <3>1, SendWord
  <2> QED
    BY <1>1, <1>2, <2>1, HelloHandles DEF AcceptPI, Accepts
<1>3. CASE User(p)
  <2>1. Serving(p) /\ Replies(proc[p].pc, "Get", "session")
    BY <1>3 DEF User, At, Serving, InSession, Commands, Replies
  <2> QED
    BY <1>1, <1>3, <1>b, <1>c, <2>1, SendWord DEF User
<1>4. CASE SYSY(p)
  <2>1. Serving(p) /\ Replies(proc[p].pc, "OS", "session")
    BY <1>4 DEF SYSY, At, Serving, InSession, Commands, Replies
  <2> QED
    BY <1>1, <1>4, <1>b, <1>c, <2>1, SendWord DEF SYSY
<1>5. CASE QUIT(p)
  <2>1. Serving(p) /\ Replies(proc[p].pc, "221", "accept")
    BY <1>5 DEF QUIT, At, Serving, InSession, Commands, Replies
  <2> QED
    BY <1>1, <1>5, <1>b, <1>c, <2>1, SendWord DEF QUIT
<1>6. CASE Fork(p)
  BY <1>6 DEF Fork, Forks
<1> QED
  BY <1>1, <1>2, <1>3, <1>4, <1>5, <1>6, SessionHandles, PasvHandles, EchoHandles,
     StorHandles, RetrHandles, ListHandles, CwdHandles DEF ServerStep

-----------------------------------------------------------------------------
(* The clients.  Owned: the sockets of a client are its own connections, to *)
(* the port it made them for.  Aimed: a client that is setting up a data    *)
(* connection does so for one of the three transfers, and the line a client *)
(* has the server echo fits.  Attached: from the hello on, its end of the   *)
(* data connection is there and open.                                       *)
Owned(c) ==
    /\ cl[c].sock \in Conns => cl[c].sock[1] = c /\ chan[cl[c].sock].port = "pi"
    /\ cl[c].dtpSock \in Conns => cl[c].dtpSock[1] = c /\ chan[cl[c].dtpSock].port = "dtp"
Aims(r) ==
    /\ r.pc \in {"PASV", "addr", "connect", "dtphello", "dtphi"} =>
         r.then \in {"LIST", "RETR", "STOR"}
    /\ r.pc \in {"ECHO", "ok", "text"} => r.arg # 1
Aimed(c) == Aims(cl[c])
WithData == {"dtphello", "dtphi", "LIST", "list150", "listdata", "listdone",
    "RETR", "retrsize", "download", "retrdone", "STOR", "storok", "upload", "SIZE"}
Attached(c) == cl[c].pc \in WithData =>
    cl[c].dtpSock \in Conns /\ chan[cl[c].dtpSock].end["c"] = "open"

(* What a step of a client is for the connections, when it neither makes    *)
(* one nor ends the client: a move on its control connection k, or on its   *)
(* data connection d when the two programs exchange nothing; it closes d at *)
(* most at the end of a transfer.                                           *)
Runs(c) ==
    LET k == cl[c].sock
        d == cl[c].dtpSock
        cpc == cl[c].pc
        cpc2 == cl'[c].pc
    IN  /\ UNCHANGED <<proc, fds, backlog>>
        /\ \A e \in Clients \ {c} : cl'[e] = cl[e]
        /\ cl'[c].sock = k /\ cl'[c].dtpSock = d /\ Aims(cl'[c])
        /\ Running(c) /\ cpc2 \notin {"exit", "dead"} /\ cpc # "connect"
        /\ \A l \in Conns \ {k, d} : chan'[l] = chan[l]
        /\ \A l \in Conns : chan'[l].port = chan[l].port
                            /\ (chan'[l].end["s"] = "open" <=> chan[l].end["s"] = "open")
        /\ k \notin Conns => cpc2 = "prompt" /\ chan' = chan
        /\ k \in Conns =>
             /\ chan'[k].end["c"] = "open" <=> chan[k].end["c"] = "open"
             /\ ClientTalk(chan[k].end["s"] = "open", cpc, chan[k].in["s"], chan[k].in["c"],
                           cpc2, chan'[k].in["s"], chan'[k].in["c"])
        /\ cpc2 \in WithData => chan'[d].end["c"] = "open" <=> chan[d].end["c"] = "open"
        /\ cpc = "dtphello" => /\ chan'[d].in["c"] = chan[d].in["c"]
                               /\ chan[d].end["s"] = "open" /\ chan[d].in["s"] = <<>> =>
                                    chan'[d].in["s"] = <<Word("hello")>>
        /\ cpc = "dtphi" => chan[d].in["c"] # <<>> \/ chan[d].end["s"] # "open"

(* The other steps: open makes a control connection, passive mode a data    *)
(* connection; and the client may end.                                      *)
Opens(c) ==
    /\ CAt(c, "prompt") /\ UNCHANGED <<proc, fds>>
    /\ NewConn(c) \in Conns /\ chan[NewConn(c)].port = "none"
    /\ chan' = [chan EXCEPT ![NewConn(c)].port = "pi"]
    /\ backlog' = [backlog EXCEPT !["pi"] = Append(@, NewConn(c))]
    /\ cl' = [cl EXCEPT ![c] = [cl[c] EXCEPT !.pc = "hello", !.sock = NewConn(c),
                                             !.left = @ - 1]]
Links(c) ==
    /\ CAt(c, "connect") /\ UNCHANGED <<proc, fds>>
    /\ NewConn(c) \in Conns /\ chan[NewConn(c)].port = "none"
    /\ chan' = [chan EXCEPT ![NewConn(c)].port = "dtp"]
    /\ backlog' = [backlog EXCEPT !["dtp"] = Append(@, NewConn(c))]
    /\ cl' = [cl EXCEPT ![c] = [cl[c] EXCEPT !.pc = "dtphello", !.dtpSock = NewConn(c)]]
Leaves(c) ==
    /\ Running(c) /\ UNCHANGED <<proc, fds>>
    /\ Stop(c, "exit") \/ Stop(c, "dead")

Tied(c) == Owned(c) /\ Aimed(c) /\ Attached(c)

(* The types of a client and of its two connections, which differ.          *)
LEMMA ClientSocks ==
    ASSUME IInv, NEW c \in Clients, Tied(c)
    PROVE  /\ cl \in [Clients -> Client] /\ cl[c] \in Client
           /\ chan \in [Conns -> Channel]
           /\ cl[c].sock \in Conns => cl[c].sock # cl[c].dtpSock
           /\ cl[c].sock \in Conns \cup {NoConn} /\ cl[c].dtpSock \in Conns \cup {NoConn}
           /\ "c" \in Sides /\ Peer("c") = "s"
<1>1. cl \in [Clients -> Client] /\ cl[c] \in Client /\ chan \in [Conns -> Channel]
  BY DEF IInv, TypeOK, ClientType, SocketsType
<1> QED
  BY <1>1 DEF Client, Tied, Owned, Sides, Peer

(* A step that changes one connection, or none, and closes nothing.         *)
LEMMA CalmRuns ==
    ASSUME IInv, NEW c \in Clients, Tied(c), UNCHANGED <<proc, fds, backlog>>,
           \A e \in Clients \ {c} : cl'[e] = cl[e],
           cl'[c].sock = cl[c].sock, cl'[c].dtpSock = cl[c].dtpSock, Aims(cl'[c]),
           LET k == cl[c].sock
               d == cl[c].dtpSock
               cpc == cl[c].pc
               cpc2 == cl'[c].pc
           IN \/ k \in Conns /\ \E t \in Texts : Says(k, "c", t) /\ Requests(cpc, t, cpc2)
              \/ k \in Conns /\ Gets(k, "c") /\ Reads(cpc, cpc2)
              \/ k \in Conns /\ UNCHANGED chan /\ AtEnd(chan[k], "c") /\ Reads(cpc, cpc2)
              \/ /\ UNCHANGED chan /\ Turns(cpc, cpc2)
                 /\ k \in Conns \/ cpc2 = "prompt"
                 /\ cpc = "dtphi" => AtEnd(chan[d], "c")
                 /\ cpc \notin {"dtphello", "connect"}
              \/ /\ k \in Conns /\ d \in Conns /\ Turns(cpc, cpc2) /\ cpc # "connect"
                 /\ \/ Gets(d, "c") /\ cpc # "dtphello"
                    \/ \E t \in Texts : /\ Says(d, "c", t) /\ cpc # "dtphi"
                                        /\ cpc = "dtphello" => t = "hello"
    PROVE  Runs(c)
<1> DEFINE k == cl[c].sock
           d == cl[c].dtpSock
           cpc == cl[c].pc
           cpc2 == cl'[c].pc
           u == chan[k].in["s"]
           w == chan[k].in["c"]
           talk == ClientTalk(chan[k].end["s"] = "open", cpc, u, w,
                              cpc2, chan'[k].in["s"], chan'[k].in["c"])
           says(l) == \E t \in Texts : Says(l, "c", t)
<1>1. k \in Conns => k # d
  BY ClientSocks
<1>p. Peer("c") = "s"
  BY DEF Peer
<1>2. \A l \in Conns : Stays(chan'[l], chan[l])
  BY DEF Says, Gets, OnlyAt, Stays
<1>3. \A l \in Conns \ {k, d} : chan'[l] = chan[l]
  BY DEF Says, Gets, OnlyAt
<1>4. k \notin Conns => cpc2 = "prompt" /\ chan' = chan
  OBVIOUS
<1>5. Running(c) /\ cpc2 \notin {"exit", "dead"} /\ cpc # "connect"
  BY DEF Running, Requests, Reads, Turns
<1>6. ASSUME k \in Conns PROVE talk
  <2>1. ASSUME NEW t \in Texts, Says(k, "c", t), Requests(cpc, t, cpc2)
        PROVE  talk
    <3>1. cpc = "hello" => t = "hello"
      BY <2>1 DEF Requests
    <3> QED
      BY <2>1, <3>1, <1>p DEF Says, ClientTalk
  <2>2. CASE Gets(k, "c") /\ Reads(cpc, cpc2)
    BY <2>2, <1>p DEF Gets, ClientTalk
  <2>3. CASE UNCHANGED chan /\ Turns(cpc, cpc2)
    BY <2>3 DEF ClientTalk
  <2>4. CASE UNCHANGED chan /\ AtEnd(chan[k], "c") /\ Reads(cpc, cpc2)
    <3>1. w = <<>> /\ ~ (chan[k].end["s"] = "open")
      BY <2>4, <1>p DEF AtEnd
    <3> QED
      BY <3>1, <2>4 DEF ClientTalk
  <2>5. CASE d \in Conns /\ Turns(cpc, cpc2) /\ (Gets(d, "c") \/ says(d))
    <3>1. chan'[k] = chan[k]
      BY <1>1, <1>6, <2>5 DEF Gets, Says, OnlyAt
    <3> QED
      BY <3>1, <2>5 DEF ClientTalk
  <2> HIDE DEF k, d, cpc, cpc2, talk
  <2> QED
    BY <2>1, <2>2, <2>3, <2>4, <2>5 DEF k, d, cpc, cpc2
<1>7. cpc2 \in WithData => (chan'[d].end["c"] = "open" <=> chan[d].end["c"] = "open")
  <2>1. d \in Conns \/ chan' = chan \/ cpc2 \notin WithData
    <3>1. CASE cpc \in WithData
      BY <3>1 DEF Tied, Attached
    <3>2. CASE cpc \notin WithData
      BY <3>2 DEF Requests, Reads, Turns, WithData
    <3> QED
      BY <3>1, <3>2
  <2> QED
    BY <2>1, <1>2 DEF Stays
<1>8. cpc = "dtphello" => /\ chan'[d].in["c"] = chan[d].in["c"]
                          /\ chan[d].end["s"] = "open" /\ chan[d].in["s"] = <<>> =>
                               chan'[d].in["s"] = <<Word("hello")>>
  <2>1. cpc = "dtphello" => d \in Conns /\ Says(d, "c", "hello")
    BY DEF Requests, Reads
  <2> QED
    BY <2>1, <1>p DEF Says
<1>9. cpc = "dtphi" => chan[d].in["c"] # <<>> \/ chan[d].end["s"] # "open"
  <2>1. cpc = "dtphi" => AtEnd(chan[d], "c") \/ Gets(d, "c")
    BY DEF Requests, Reads
  <2>2. AtEnd(chan[d], "c") => chan[d].end["s"] # "open"
    BY <1>p DEF AtEnd
  <2>3. Gets(d, "c") => chan[d].in["c"] # <<>>
    BY DEF Gets, Shrunk
  <2> QED
    BY <2>1, <2>2, <2>3
<1>10. \A l \in Conns : chan'[l].port = chan[l].port
                        /\ (chan'[l].end["s"] = "open" <=> chan[l].end["s"] = "open")
  BY <1>2 DEF Stays
<1>11. k \in Conns => (chan'[k].end["c"] = "open" <=> chan[k].end["c"] = "open")
  BY <1>2 DEF Stays
<1> QED
  BY <1>3, <1>4, <1>5, <1>6, <1>7, <1>8, <1>9, <1>10, <1>11 DEF Runs

(* How a step within a handler, and its end, change a client.               *)
Onward(c, pc) ==
    /\ \A e \in Clients \ {c} : cl'[e] = cl[e]
    /\ cl'[c].pc = pc /\ cl'[c].sock = cl[c].sock /\ cl'[c].dtpSock = cl[c].dtpSock
    /\ cl'[c].then = cl[c].then /\ cl'[c].arg = cl[c].arg

(* A client goes on to another point,                                       *)
LEMMA GotoIs ==
    ASSUME cl \in [Clients -> Client], NEW c \in Clients, NEW pc, CGoto(c, pc)
    PROVE  Onward(c, pc)
BY DEF CGoto, Client, Onward

(* counts a unit of the file,                                               *)
LEMMA CountIs ==
    ASSUME cl \in [Clients -> Client], NEW c \in Clients,
           cl' = [cl EXCEPT ![c].totalBytes = @ + 1]
    PROVE  Onward(c, cl[c].pc)
BY DEF Client, Onward

(* has uploaded its file,                                                   *)
LEMMA UploadIs ==
    ASSUME cl \in [Clients -> Client], NEW c \in Clients, NEW pc, NEW n,
           cl' = [cl EXCEPT ![c].pc = pc, ![c].totalBytes = n]
    PROVE  Onward(c, pc)
BY DEF Client, Onward

(* returns to the prompt,                                                   *)
LEMMA PromptIs ==
    ASSUME cl \in [Clients -> Client], NEW c \in Clients, Prompt(c)
    PROVE  /\ \A e \in Clients \ {c} : cl'[e] = cl[e]
           /\ cl'[c].pc = "prompt" /\ cl'[c].sock = cl[c].sock
           /\ cl'[c].dtpSock = cl[c].dtpSock
BY DEF Prompt, Client

(* and within a handler keeps the aim it had.                               *)
LEMMA AimKept ==
    ASSUME NEW c \in Clients, Aimed(c), NEW pc, Onward(c, pc), ~ CAt(c, "prompt"),
           \/ \E t \in Texts : Requests(cl[c].pc, t, pc)
           \/ Reads(cl[c].pc, pc)
           \/ Turns(cl[c].pc, pc)
    PROVE  Aims(cl'[c])
BY DEF Aimed, Aims, Onward, CAt, Requests, Reads, Turns

(* A send of a request,                                                     *)
LEMMA RequestRuns ==
    ASSUME IInv, NEW c \in Clients, Tied(c), UNCHANGED <<proc, fds>>,
           NEW m \in Msg, m.t = "hello" => m = Word("hello"), NEW pc,
           Requests(cl[c].pc, m.t, pc), m.t \in Texts,
           CSend(c, cl[c].sock, <<m>>, pc)
    PROVE  Runs(c) \/ Stop(c, "dead")
<1> DEFINE k == cl[c].sock
<1>1. CASE SendOn(k, "c", <<m>>) /\ CGoto(c, pc) /\ UNCHANGED <<backlog, listening>>
  <2>1. ~ CAt(c, "prompt") /\ cl[c].pc \notin {"exit", "dead"}
    BY DEF Requests, CAt
  <2>2. k \in Conns
    BY <2>1 DEF IInv, Joined, CAt
  <2>3. Says(k, "c", m.t)
    BY <1>1, <2>2, ClientSocks, SendSays
  <2>4. Onward(c, pc)
    BY <1>1, ClientSocks, GotoIs
  <2>5. Aims(cl'[c])
    BY <2>1, <2>4, AimKept DEF Tied
  <2> QED
    BY <1>1, <2>2, <2>3, <2>4, <2>5, CalmRuns DEF Onward
<1> QED
  BY <1>1 DEF CSend

(* the receive of an answer, and the last one of a handler.                 *)
LEMMA ReadRuns ==
    ASSUME IInv, NEW c \in Clients, Tied(c), UNCHANGED <<proc, fds>>,
           NEW pc, Reads(cl[c].pc, pc),
           CRecv(c, cl[c].sock, pc)
    PROVE  Runs(c) \/ Stop(c, "dead")
<1> DEFINE k == cl[c].sock
<1>1. ~ CAt(c, "prompt") /\ cl[c].pc \notin {"exit", "dead"}
  BY DEF Reads, CAt
<1>2. k \in Conns
  BY <1>1 DEF IInv, Joined, CAt
<1>3. CASE CGoto(c, pc) /\ UNCHANGED <<backlog, listening>>
           /\ (Gets(k, "c") \/ (AtEnd(chan[k], "c") /\ UNCHANGED chan))
  <2>1. Onward(c, pc)
    BY <1>3, ClientSocks, GotoIs
  <2>2. Aims(cl'[c])
    BY <1>1, <2>1, AimKept DEF Tied
  <2> QED
    BY <1>2, <1>3, <2>1, <2>2, CalmRuns DEF Onward
<1>4. ASSUME NEW j, RecvOn(k, "c", j) PROVE Gets(k, "c")
  BY <1>2, <1>4, ClientSocks, RecvGets
<1> QED
  BY <1>3, <1>4 DEF CRecv, sockets

(* The last receive of a handler.                                           *)
LEMMA LastRuns ==
    ASSUME IInv, NEW c \in Clients, Tied(c), UNCHANGED <<proc, fds>>,
           Reads(cl[c].pc, "prompt"), LastRecv(c, cl[c].sock, chan)
    PROVE  Runs(c) \/ Stop(c, "dead")
<1> DEFINE k == cl[c].sock
<1>1. k \in Conns
  BY DEF IInv, Joined, CAt, Reads
<1>2. CASE Prompt(c) /\ UNCHANGED <<backlog, listening>>
           /\ (Gets(k, "c") \/ (AtEnd(chan[k], "c") /\ UNCHANGED chan))
  <2>1. Aims(cl'[c])
    BY <1>2, ClientSocks, PromptIs DEF Aims
  <2> QED
    BY <1>1, <1>2, <2>1, ClientSocks, PromptIs, CalmRuns
<1>4. ASSUME NEW j \in 1..Len(chan[k].in["c"]), Fits(chan[k].in["c"], j),
             chan' = [chan EXCEPT ![k] = Taken(@, "c", j)]
      PROVE  Gets(k, "c")
  BY <1>1, <1>4, ClientSocks, RecvGets DEF RecvOn
<1> QED
  BY <1>2, <1>4 DEF LastRecv

(* The steps of open,                                                       *)
LEMMA OpenRuns ==
    ASSUME IInv, NEW c \in Clients, Tied(c), UNCHANGED <<proc, fds>>, openCon(c)
    PROVE  Runs(c) \/ Opens(c) \/ Leaves(c)
<1> DEFINE k == cl[c].sock
<1>a. Running(c)
  BY DEF openCon, CAt, Types, Running
<1>w. \A t \in {"hello", "User", "SYSY"} : /\ Word(t) \in Msg /\ Word(t).t = t /\ t \in Texts
                                           /\ t \in Texts \ {"CWD"}
  BY WordIsMsg DEF Word, Texts, Commands
<1>1. CASE CAt(c, "hello") /\ CSend(c, k, <<Word("hello")>>, "hi")
  BY <1>1, <1>a, <1>w, RequestRuns DEF CAt, Requests, Leaves
<1>2. CASE CAt(c, "hi") /\ CRecv(c, k, "User")
  BY <1>2, <1>a, ReadRuns DEF CAt, Reads, Leaves
<1>3. CASE CAt(c, "User") /\ CSend(c, k, <<Word("User")>>, "userR")
  BY <1>3, <1>a, <1>w, RequestRuns DEF CAt, Requests, Leaves
<1>4. CASE CAt(c, "userR") /\ CRecv(c, k, "SYSY")
  BY <1>4, <1>a, ReadRuns DEF CAt, Reads, Leaves
<1>5. CASE CAt(c, "SYSY") /\ CSend(c, k, <<Word("SYSY")>>, "sysyR")
  BY <1>5, <1>a, <1>w, RequestRuns DEF CAt, Requests, Leaves
<1>6. CASE CAt(c, "sysyR") /\ LastRecv(c, k, chan)
  BY <1>6, <1>a, LastRuns DEF CAt, Reads, Leaves
<1>7. CASE Types(c, "open") /\ Connect(c, "pi", [cl[c] EXCEPT
               !.pc = "hello", !.sock = NewConn(c), !.left = @ - 1])
  BY <1>7, <1>a DEF Types, Connect, Opens, Leaves
<1> QED
  BY <1>1, <1>2, <1>3, <1>4, <1>5, <1>6, <1>7 DEF openCon

(* of the passive mode,                                                     *)
LEMMA PassiveRuns ==
    ASSUME IInv, NEW c \in Clients, Tied(c), UNCHANGED <<proc, fds>>, passiveMode(c)
    PROVE  Runs(c) \/ Links(c) \/ Leaves(c)
<1> DEFINE k == cl[c].sock
           d == cl[c].dtpSock
<1>a. Running(c)
  BY DEF passiveMode, CAt, Running
<1>w. \A t \in {"hello", "PASV"} : /\ Word(t) \in Msg /\ Word(t).t = t /\ t \in Texts
                                   /\ t \in Texts \ {"CWD"}
  BY WordIsMsg DEF Word, Texts, Commands
<1>1. CASE CAt(c, "PASV") /\ CSend(c, k, <<Word("PASV")>>, "addr")
  BY <1>1, <1>a, <1>w, RequestRuns DEF CAt, Requests, Leaves
<1>2. CASE CAt(c, "addr") /\ CRecv(c, k, "connect")
  BY <1>2, <1>a, ReadRuns DEF CAt, Reads, Leaves
<1>3. CASE Stop(c, "dead")
  BY <1>3, <1>a DEF Leaves
<1>4. CASE CAt(c, "connect") /\ Connect(c, "dtp", [cl[c] EXCEPT
               !.pc = "dtphello", !.dtpSock = NewConn(c)])
  BY <1>4, <1>a DEF Connect, Links, Leaves
<1>5. CASE CAt(c, "dtphello") /\ CSend(c, d, <<Word("hello")>>, "dtphi")
  <2>1. d \in Conns /\ k \in Conns
    BY <1>5 DEF Tied, Attached, WithData, CAt, IInv, Joined
  <2>2. CASE SendOn(d, "c", <<Word("hello")>>) /\ CGoto(c, "dtphi") /\ UNCHANGED <<backlog, listening>>
    <3>1. Says(d, "c", "hello")
      BY <2>1, <2>2, <1>w, ClientSocks, SendSays
    <3>2. Onward(c, "dtphi")
      BY <2>2, ClientSocks, GotoIs
    <3>3. Turns(cl[c].pc, "dtphi") /\ ~ CAt(c, "prompt")
      BY <1>5 DEF Turns, CAt
    <3>4. Aims(cl'[c])
      BY <3>2, <3>3, AimKept DEF Tied
    <3> QED
      BY <1>5, <1>w, <2>1, <2>2, <3>1, <3>2, <3>3, <3>4, CalmRuns DEF Onward, CAt
  <2> QED
    BY <1>5, <1>a, <2>2 DEF CSend, Leaves
<1>6. CASE CAt(c, "dtphi") /\ CRecv(c, d, cl[c].then)
  <2>1. d \in Conns /\ k \in Conns
    BY <1>6 DEF Tied, Attached, WithData, CAt, IInv, Joined
  <2>2. Turns(cl[c].pc, cl[c].then) /\ ~ CAt(c, "prompt")
    BY <1>6 DEF Turns, CAt, Tied, Aimed, Aims
  <2>3. CASE CGoto(c, cl[c].then) /\ UNCHANGED <<backlog, listening>>
             /\ (Gets(d, "c") \/ (AtEnd(chan[d], "c") /\ UNCHANGED chan))
    <3>1. Onward(c, cl[c].then)
      BY <2>3, ClientSocks, GotoIs
    <3>2. Aims(cl'[c])
      BY <2>2, <3>1, AimKept DEF Tied
    <3> QED
      BY <1>6, <2>1, <2>2, <2>3, <3>1, <3>2, CalmRuns DEF Onward, CAt
  <2>4. ASSUME NEW j, RecvOn(d, "c", j) PROVE Gets(d, "c")
    BY <2>1, <2>4, ClientSocks, RecvGets
  <2> QED
    BY <1>6, <1>a, <2>3, <2>4 DEF CRecv, sockets, Leaves
<1> QED
  BY <1>1, <1>2, <1>3, <1>4, <1>5, <1>6 DEF passiveMode

(* The user starts a command,                                               *)
LEMMA StartRuns ==
    ASSUME IInv, NEW c \in Clients, Tied(c), UNCHANGED <<proc, fds>>,
           NEW what, NEW pc \in {"PASV", "CWD", "ECHO"}, NEW next, NEW n,
           pc = "PASV" => next \in {"LIST", "RETR", "STOR"},
           pc = "ECHO" => n # 1,
           Starts(c, what, pc, next, n)
    PROVE  Runs(c) \/ Leaves(c)
<1>a. Running(c) /\ CAt(c, "prompt")
  BY DEF Starts, Types, CAt, Running
<1>1. CASE /\ cl[c].sock # NoConn
           /\ cl' = [cl EXCEPT ![c].pc = pc, ![c].then = next, ![c].arg = n,
                               ![c].left = @ - 1]
           /\ UNCHANGED sockets
  <2>1. /\ \A e \in Clients \ {c} : cl'[e] = cl[e]
        /\ cl'[c].pc = pc /\ cl'[c].then = next /\ cl'[c].arg = n
        /\ cl'[c].sock = cl[c].sock /\ cl'[c].dtpSock = cl[c].dtpSock
    BY <1>1, ClientSocks DEF Client
  <2>2. Aims(cl'[c]) /\ Turns(cl[c].pc, pc)
    BY <1>a, <2>1 DEF Aims, Turns, CAt
  <2>3. cl[c].sock \in Conns
    BY <1>1, ClientSocks
  <2> QED
    BY <1>1, <1>a, <2>1, <2>2, <2>3, CalmRuns DEF sockets, CAt
<1> QED
  BY <1>1, <1>a DEF Starts, Leaves

(* and a step closes the data connection on the client's side.              *)
LEMMA ClosingRuns ==
    ASSUME IInv, NEW c \in Clients, Tied(c), UNCHANGED <<proc, fds, backlog>>,
           \A e \in Clients \ {c} : cl'[e] = cl[e],
           cl'[c].sock = cl[c].sock, cl'[c].dtpSock = cl[c].dtpSock, Aims(cl'[c]),
           cl[c].pc \in {"listdone", "retrdone", "SIZE"},
           cl'[c].pc \in {"prompt", "stordone"}, NEW how \in Hows,
           LET k == cl[c].sock
               d == cl[c].dtpSock
           IN  /\ \A l \in Conns \ {k, d} : chan'[l] = chan[l]
               /\ chan'[d] = Closed(chan[d], "c", how)
               /\ Stays(chan'[k], chan[k])
               /\ ClientTalk(chan[k].end["s"] = "open", cl[c].pc, chan[k].in["s"], chan[k].in["c"],
                             cl'[c].pc, chan'[k].in["s"], chan'[k].in["c"])
    PROVE  Runs(c)
<1> DEFINE k == cl[c].sock
           d == cl[c].dtpSock
<1>1. d \in Conns /\ k \in Conns /\ chan[d] \in Channel /\ "c" \in Sides /\ Peer("c") = "s"
  BY ClientSocks DEF Tied, Attached, WithData, IInv, Joined
<1>2. chan'[d].port = chan[d].port /\ chan'[d].end["s"] = chan[d].end["s"]
  BY <1>1, ClosedEnd
<1>3. \A l \in Conns : chan'[l].port = chan[l].port
                       /\ (chan'[l].end["s"] = "open" <=> chan[l].end["s"] = "open")
  BY <1>2 DEF Stays
<1>4. chan'[k].end["c"] = "open" <=> chan[k].end["c"] = "open"
  BY DEF Stays
<1>5. Running(c) /\ cl'[c].pc \notin WithData
  BY DEF Running, WithData
<1> QED
  BY <1>1, <1>3, <1>4, <1>5 DEF Runs

(* The last receive of a handler that closes the data connection before.    *)
LEMMA LastClosingRuns ==
    ASSUME IInv, NEW c \in Clients, Tied(c), UNCHANGED <<proc, fds>>,
           cl[c].pc \in {"listdone", "retrdone"}, NEW how \in Hows,
           LastRecv(c, cl[c].sock, Closing(cl[c].dtpSock, how))
    PROVE  Runs(c) \/ Stop(c, "dead")
<1> DEFINE k == cl[c].sock
           d == cl[c].dtpSock
           h == Closing(d, how)
           talk == ClientTalk(chan[k].end["s"] = "open", cl[c].pc, chan[k].in["s"],
                        chan[k].in["c"], "prompt", chan'[k].in["s"], chan'[k].in["c"])
<1>1. d \in Conns /\ k \in Conns /\ k # d /\ chan \in [Conns -> Channel] /\ "c" \in Sides /\ Peer("c") = "s"
  BY ClientSocks DEF Tied, Attached, WithData, IInv, Joined
<1>2. h[d] = Closed(chan[d], "c", how) /\ (\A l \in Conns \ {d} : h[l] = chan[l])
      /\ h = [l \in Conns |-> h[l]]
  BY <1>1 DEF Closing
<1> HIDE DEF h
<1>3. SUFFICES ASSUME Prompt(c), UNCHANGED backlog,
                      \/ \E j \in 1..Len(chan[k].in["c"]) :
                           chan' = [h EXCEPT ![k] = Taken(@, "c", j)]
                      \/ AtEnd(chan[k], "c") /\ chan' = h
               PROVE  Runs(c)
  BY DEF LastRecv, h
<1>4. /\ chan'[d] = Closed(chan[d], "c", how)
      /\ \A l \in Conns \ {k, d} : chan'[l] = chan[l]
  BY <1>1, <1>2, <1>3
<1>5. Reads(cl[c].pc, "prompt")
  BY DEF Reads
<1>6. Stays(chan'[k], chan[k]) /\ talk
  <2>1. ASSUME NEW j \in 1..Len(chan[k].in["c"]), chan' = [h EXCEPT ![k] = Taken(@, "c", j)]
        PROVE  Stays(chan'[k], chan[k]) /\ talk
    <3>1. chan'[k] = Taken(chan[k], "c", j)
      BY <1>1, <1>2, <2>1
    <3>2. chan[k] \in Channel
      BY <1>1
    <3>3. /\ Stays(chan'[k], chan[k]) /\ chan'[k].in["s"] = chan[k].in["s"]
          /\ Shrunk(chan[k].in["c"], chan'[k].in["c"])
      BY <1>1, <3>1, <3>2, TakenGets
    <3> QED
      BY <1>5, <3>3 DEF ClientTalk
  <2>2. CASE AtEnd(chan[k], "c") /\ chan' = h
    <3>1. chan'[k] = chan[k] /\ chan[k].in["c"] = <<>> /\ ~ (chan[k].end["s"] = "open")
      BY <1>1, <1>2, <2>2 DEF AtEnd
    <3> QED
      BY <1>5, <3>1 DEF ClientTalk, Stays
  <2> QED
    BY <1>3, <2>1, <2>2
<1>7. /\ cl'[c].pc = "prompt" /\ \A e \in Clients \ {c} : cl'[e] = cl[e]
      /\ cl'[c].sock = k /\ cl'[c].dtpSock = d
  BY <1>3, ClientSocks, PromptIs
<1>8. Aims(cl'[c])
  BY <1>7 DEF Aims
<1> QED
  BY <1>3, <1>4, <1>6, <1>7, <1>8, ClosingRuns

(* The steps of rls,                                                        *)
LEMMA RlistRuns ==
    ASSUME IInv, NEW c \in Clients, Tied(c), UNCHANGED <<proc, fds>>, rlist(c)
    PROVE  Runs(c) \/ Leaves(c)
<1> DEFINE k == cl[c].sock
           d == cl[c].dtpSock
           on == IF AtEnd(chan[d], "c") THEN "listdone" ELSE "listdata"
<1>a. Running(c)
  BY DEF rlist, CAt, Running, Starts, Types
<1>w. Word("LIST") \in Msg /\ Word("LIST").t = "LIST" /\ "LIST" \in Texts
  BY WordIsMsg DEF Word, Texts, Commands
<1>1. CASE Starts(c, "rls", "PASV", "LIST", 0)
  BY <1>1, StartRuns
<1>2. CASE CAt(c, "LIST") /\ CSend(c, k, <<Word("LIST")>>, "list150")
  BY <1>2, <1>a, <1>w, RequestRuns DEF CAt, Requests, Leaves
<1>3. CASE CAt(c, "list150") /\ CRecv(c, k, "listdata")
  BY <1>3, <1>a, ReadRuns DEF CAt, Reads, Leaves
<1>4. CASE CAt(c, "listdata") /\ CRecv(c, d, on)
  <2>1. d \in Conns /\ k \in Conns
    BY <1>4 DEF Tied, Attached, WithData, CAt, IInv, Joined
  <2>2. Turns(cl[c].pc, on) /\ ~ CAt(c, "prompt")
    BY <1>4 DEF Turns, CAt
  <2>3. CASE CGoto(c, on) /\ UNCHANGED <<backlog, listening>>
             /\ (Gets(d, "c") \/ UNCHANGED chan)
    <3>1. Onward(c, on)
      BY <2>3, ClientSocks, GotoIs
    <3>2. Aims(cl'[c])
      BY <2>2, <3>1, AimKept DEF Tied
    <3> QED
      BY <1>4, <2>1, <2>2, <2>3, <3>1, <3>2, CalmRuns DEF Onward, CAt
  <2>4. ASSUME NEW j, RecvOn(d, "c", j) PROVE Gets(d, "c")
    BY <2>1, <2>4, ClientSocks, RecvGets
  <2> QED
    BY <1>4, <1>a, <2>3, <2>4 DEF CRecv, sockets, Leaves
<1>5. ASSUME NEW how \in Hows, CAt(c, "listdone"), LastRecv(c, k, Closing(d, how))
      PROVE  Runs(c) \/ Leaves(c)
  BY <1>5, <1>a, LastClosingRuns DEF CAt, Leaves
<1> QED
  BY <1>1, <1>2, <1>3, <1>4, <1>5 DEF rlist

(* of get,                                                                  *)
LEMMA GetRuns ==
    ASSUME IInv, NEW c \in Clients, Tied(c), UNCHANGED <<proc, fds>>, get(c)
    PROVE  Runs(c) \/ Leaves(c)
<1> DEFINE k == cl[c].sock
           d == cl[c].dtpSock
           u == chan[k].in["c"]
<1>a. Running(c)
  BY DEF get, CAt, Running, Starts, Types
<1>w. /\ With("RETR", cl[c].arg) \in Msg /\ With("RETR", cl[c].arg).t = "RETR" /\ "RETR" \in Texts
  BY WithIsMsg, ClientSocks DEF With, Texts, Commands, Client
<1>1. ASSUME NEW n, Starts(c, "get", "PASV", "RETR", n) PROVE Runs(c) \/ Leaves(c)
  BY <1>1, StartRuns
<1>2. CASE CAt(c, "RETR") /\ CSend(c, k, <<With("RETR", cl[c].arg)>>, "retrsize")
  BY <1>2, <1>a, <1>w, RequestRuns DEF CAt, Requests, Leaves
<1>3. ASSUME CAt(c, "retrsize"), NEW j \in 1..Len(u), RecvOn(k, "c", j), UNCHANGED <<backlog, listening>>,
             cl' = [cl EXCEPT ![c].pc = "download", ![c].fileSize = Head(u).n]
      PROVE  Runs(c)
  <2>1. Onward(c, "download")
    BY <1>3, ClientSocks DEF Client, Onward
  <2>2. k \in Conns /\ Reads(cl[c].pc, "download") /\ ~ CAt(c, "prompt")
    BY <1>3 DEF Reads, CAt, IInv, Joined
  <2>3. Gets(k, "c")
    BY <1>3, <2>2, ClientSocks, RecvGets
  <2>4. Aims(cl'[c])
    BY <2>1, <2>2, AimKept DEF Tied
  <2> QED
    BY <1>3, <2>1, <2>2, <2>3, <2>4, CalmRuns DEF Onward
<1>4. CASE Stop(c, "dead")
  BY <1>4, <1>a DEF Leaves
<1>5. CASE CAt(c, "download") /\ RecvOn(d, "c", 1) /\ UNCHANGED <<backlog, listening>>
           /\ cl' = [cl EXCEPT ![c].totalBytes = @ + 1]
  <2>1. Onward(c, "download") /\ Turns(cl[c].pc, "download") /\ ~ CAt(c, "prompt")
    BY <1>5, ClientSocks, CountIs DEF CAt, Turns
  <2>2. k \in Conns /\ d \in Conns
    BY <1>5 DEF Tied, Attached, WithData, CAt, IInv, Joined
  <2>3. Gets(d, "c")
    BY <1>5, <2>2, ClientSocks, RecvGets
  <2>4. Aims(cl'[c])
    BY <2>1, AimKept DEF Tied
  <2> QED
    BY <1>5, <2>1, <2>2, <2>3, <2>4, CalmRuns DEF Onward, CAt
<1>6. CASE CAt(c, "download") /\ CGoto(c, "retrdone") /\ UNCHANGED sockets
  <2>1. Onward(c, "retrdone") /\ Turns(cl[c].pc, "retrdone") /\ ~ CAt(c, "prompt")
    BY <1>6, ClientSocks, GotoIs DEF CAt, Turns
  <2>2. k \in Conns
    BY <1>6 DEF CAt, IInv, Joined
  <2>3. Aims(cl'[c])
    BY <2>1, AimKept DEF Tied
  <2> QED
    BY <1>6, <2>1, <2>2, <2>3, CalmRuns DEF Onward, CAt, sockets
<1>7. ASSUME NEW how \in Hows, CAt(c, "retrdone"), LastRecv(c, k, Closing(d, how))
      PROVE  Runs(c) \/ Leaves(c)
  BY <1>7, <1>a, LastClosingRuns DEF CAt, Leaves
<1> QED
  BY <1>1, <1>2, <1>3, <1>4, <1>5, <1>6, <1>7 DEF get

(* of put,                                                                  *)
LEMMA SizeRuns ==
    ASSUME IInv, NEW c \in Clients, Tied(c), UNCHANGED <<proc, fds, backlog>>,
           CAt(c, "SIZE"), CGoto(c, "stordone"), NEW how \in Hows,
           chan' = [Closing(cl[c].dtpSock, how) EXCEPT ![cl[c].sock] =
                      Sent(@, "c", <<With("SIZE", cl[c].totalBytes)>>)]
    PROVE  Runs(c)
<1> DEFINE k == cl[c].sock
           d == cl[c].dtpSock
           h == Closing(d, how)
           m == With("SIZE", cl[c].totalBytes)
           talk == ClientTalk(chan[k].end["s"] = "open", cl[c].pc, chan[k].in["s"],
                        chan[k].in["c"], "stordone", chan'[k].in["s"], chan'[k].in["c"])
<1>1. d \in Conns /\ k \in Conns /\ k # d /\ chan \in [Conns -> Channel] /\ "c" \in Sides /\ Peer("c") = "s"
  BY ClientSocks DEF Tied, Attached, WithData, IInv, Joined, CAt
<1>2. h[d] = Closed(chan[d], "c", how) /\ (\A l \in Conns \ {d} : h[l] = chan[l])
      /\ h = [l \in Conns |-> h[l]]
  BY <1>1 DEF Closing
<1>3. m \in Msg /\ m.t = "SIZE" /\ "SIZE" \in Texts
  BY WithIsMsg, ClientSocks DEF With, Texts, Commands, Client
<1> HIDE DEF h, m
<1>4. /\ chan'[d] = Closed(chan[d], "c", how)
      /\ \A l \in Conns \ {k, d} : chan'[l] = chan[l]
      /\ chan'[k] = Sent(chan[k], "c", <<m>>)
  BY <1>1, <1>2 DEF h, m
<1>5. Requests(cl[c].pc, "SIZE", "stordone")
  BY DEF Requests, CAt
<1>6. Stays(chan'[k], chan[k]) /\ talk
  <2>1. chan[k] \in Channel
    BY <1>1
  <2>2. /\ Stays(chan'[k], chan[k])
        /\ chan'[k].in["c"] = chan[k].in["c"]
        /\ IF chan[k].end["s"] = "open" THEN Grown(chan[k].in["s"], "SIZE", chan'[k].in["s"])
                                        ELSE chan'[k].in["s"] = chan[k].in["s"]
    BY <1>1, <1>3, <1>4, <2>1, SentSays
  <2> QED
    BY <1>3, <1>5, <2>2 DEF ClientTalk, CAt
<1>7. Onward(c, "stordone")
  BY ClientSocks, GotoIs
<1>8. Aims(cl'[c])
  BY <1>7 DEF Aims, Onward
<1> QED
  BY <1>4, <1>6, <1>7, <1>8, ClosingRuns DEF Onward, CAt

(* and all its steps.                                                       *)
LEMMA PutRuns ==
    ASSUME IInv, NEW c \in Clients, Tied(c), UNCHANGED <<proc, fds>>, put(c)
    PROVE  Runs(c) \/ Leaves(c)
<1> DEFINE k == cl[c].sock
           d == cl[c].dtpSock
<1>a. Running(c)
  BY DEF put, CAt, Running, Starts, Types
<1>w. /\ With("STOR", cl[c].arg) \in Msg /\ With("STOR", cl[c].arg).t = "STOR" /\ "STOR" \in Texts
      /\ Word("data") \in Msg /\ Word("data").t = "data" /\ "data" \in Texts
  BY WithIsMsg, WordIsMsg, ClientSocks DEF With, Word, Texts, Commands, Client
<1>1. ASSUME NEW n, Starts(c, "put", "PASV", "STOR", n) PROVE Runs(c) \/ Leaves(c)
  BY <1>1, StartRuns
<1>2. CASE CAt(c, "STOR") /\ CSend(c, k, <<With("STOR", cl[c].arg)>>, "storok")
  BY <1>2, <1>a, <1>w, RequestRuns DEF CAt, Requests, Leaves
<1>3. CASE CAt(c, "storok") /\ CRecv(c, k, "upload")
  BY <1>3, <1>a, ReadRuns DEF CAt, Reads, Leaves
<1>4. CASE Stop(c, "dead")
  BY <1>4, <1>a DEF Leaves
<1>5. CASE CAt(c, "upload") /\ SendOn(d, "c", <<Word("data")>>) /\ UNCHANGED <<backlog, listening>>
           /\ cl' = [cl EXCEPT ![c].totalBytes = @ + 1]
  <2>1. Onward(c, "upload") /\ Turns(cl[c].pc, "upload") /\ ~ CAt(c, "prompt")
    BY <1>5, ClientSocks, CountIs DEF CAt, Turns
  <2>2. k \in Conns /\ d \in Conns
    BY <1>5 DEF Tied, Attached, WithData, CAt, IInv, Joined
  <2>3. Says(d, "c", "data")
    BY <1>5, <1>w, <2>2, ClientSocks, SendSays
  <2>4. Aims(cl'[c])
    BY <2>1, AimKept DEF Tied
  <2> QED
    BY <1>5, <1>w, <2>1, <2>2, <2>3, <2>4, CalmRuns DEF Onward, CAt
<1>6. ASSUME CAt(c, "upload"), UNCHANGED sockets, NEW n,
             cl' = [cl EXCEPT ![c].pc = "SIZE", ![c].totalBytes = n]
      PROVE  Runs(c)
  <2>1. Onward(c, "SIZE") /\ Turns(cl[c].pc, "SIZE") /\ ~ CAt(c, "prompt")
    BY <1>6, ClientSocks, UploadIs DEF CAt, Turns
  <2>2. k \in Conns
    BY <1>6 DEF CAt, IInv, Joined
  <2>3. Aims(cl'[c])
    BY <2>1, AimKept DEF Tied
  <2> QED
    BY <1>6, <2>1, <2>2, <2>3, CalmRuns DEF Onward, CAt, sockets
<1>7. CASE CAt(c, "stordone") /\ LastRecv(c, k, chan)
  BY <1>7, <1>a, LastRuns DEF CAt, Reads, Leaves
<1> QED
  BY <1>1, <1>2, <1>3, <1>4, <1>5, <1>6, <1>7, SizeRuns DEF put

(* of rcd, echo (whose line fits) and quit,                                 *)
LEMMA TalkRuns ==
    ASSUME Brief, IInv, NEW c \in Clients, Tied(c), UNCHANGED <<proc, fds>>,
           rcd(c) \/ echo(c) \/ quit(c)
    PROVE  Runs(c) \/ Leaves(c)
<1> DEFINE k == cl[c].sock
<1>a. Running(c)
  BY DEF rcd, echo, quit, CAt, Running, Starts, Types
<1>w. \A t \in {"ECHO", "text", "QUIT"} : /\ Word(t) \in Msg /\ Word(t).t = t /\ t \in Texts
                                          /\ t \in Texts \ {"CWD"}
  BY WordIsMsg DEF Word, Texts, Commands
<1>1. CASE rcd(c)
  <2>1. CASE Starts(c, "rcd", "CWD", "prompt", 0)
    BY <2>1, StartRuns
  <2>2. ASSUME NEW dir \in Dirs, CAt(c, "CWD"), CSend(c, k, <<With("CWD", dir)>>, "cwdR")
        PROVE  Runs(c) \/ Leaves(c)
    <3>1. With("CWD", dir) \in Msg /\ With("CWD", dir).t = "CWD" /\ "CWD" \in Texts
      BY CwdIsMsg DEF With, Texts, Commands
    <3> QED
      BY <1>a, <2>2, <3>1, RequestRuns DEF CAt, Requests, Leaves
  <2>3. CASE CAt(c, "cwdR") /\ LastRecv(c, k, chan)
    BY <2>3, <1>a, LastRuns DEF CAt, Reads, Leaves
  <2> QED
    BY <1>1, <2>1, <2>2, <2>3 DEF rcd
<1>2. CASE echo(c)
  <2>1. CASE Starts(c, "echo", "ECHO", "prompt", 0)
    BY <2>1, StartRuns
  <2>2. ~ Starts(c, "long echo", "ECHO", "prompt", 1)
    BY DEF Starts, Types, Brief
  <2>3. CASE CAt(c, "ECHO") /\ CSend(c, k, <<Word("ECHO")>>, "ok")
    BY <2>3, <1>a, <1>w, RequestRuns DEF CAt, Requests, Leaves
  <2>4. CASE CAt(c, "ok") /\ CRecv(c, k, "text")
    BY <2>4, <1>a, ReadRuns DEF CAt, Reads, Leaves
  <2>5. CASE CAt(c, "text") /\ CSend(c, k, Text(cl[c].arg = 1), "textR")
    <3>1. cl[c].arg # 1
      BY <2>5 DEF Tied, Aimed, Aims, CAt
    <3>2. Text(cl[c].arg = 1) = <<Word("text")>>
      BY <3>1 DEF Text
    <3> QED
      BY <2>5, <1>a, <1>w, <3>2, RequestRuns DEF CAt, Requests, Leaves
  <2>6. CASE CAt(c, "textR") /\ LastRecv(c, k, chan)
    BY <2>6, <1>a, LastRuns DEF CAt, Reads, Leaves
  <2> QED
    BY <1>2, <2>1, <2>2, <2>3, <2>4, <2>5, <2>6 DEF echo
<1>3. CASE quit(c)
  <2>1. CASE Stop(c, "exit") \/ Stop(c, "dead")
    BY <2>1, <1>a DEF Leaves
  <2>2. CASE CAt(c, "prompt") /\ k # NoConn /\ CGoto(c, "QUIT") /\ UNCHANGED sockets
    <3>1. Onward(c, "QUIT") /\ Turns(cl[c].pc, "QUIT")
      BY <2>2, ClientSocks, GotoIs DEF CAt, Turns
    <3>2. k \in Conns
      BY <2>2, ClientSocks
    <3>3. Aims(cl'[c])
      BY <3>1 DEF Aims, Onward
    <3> QED
      BY <2>2, <3>1, <3>2, <3>3, CalmRuns DEF Onward, CAt, sockets
  <2>3. CASE CAt(c, "QUIT") /\ CSend(c, k, <<Word("QUIT")>>, "quitR")
    BY <2>3, <1>a, <1>w, RequestRuns DEF CAt, Requests, Leaves
  <2> QED
    BY <1>3, <2>1, <2>2, <2>3 DEF quit
<1> QED
  BY <1>1, <1>2, <1>3

(* and those that stay in the process.                                      *)
LEMMA LocalRuns ==
    ASSUME IInv, NEW c \in Clients, Tied(c), UNCHANGED <<proc, fds>>, Local(c)
    PROVE  Runs(c)
<1>1. CAt(c, "prompt") /\ UNCHANGED sockets
  BY DEF Local, Types
<1>2. /\ \A e \in Clients \ {c} : cl'[e] = cl[e]
      /\ cl'[c].pc = cl[c].pc /\ cl'[c].sock = cl[c].sock
      /\ cl'[c].dtpSock = cl[c].dtpSock
  <2>1. cl \in [Clients -> Client]
    BY ClientSocks
  <2>2. CASE cl' = [cl EXCEPT ![c].ftp = TRUE, ![c].left = @ - 1]
    BY <2>1, <2>2 DEF Client
  <2>3. CASE cl' = [cl EXCEPT ![c].ftp = FALSE]
    BY <2>1, <2>3 DEF Client
  <2>4. CASE cl' = [cl EXCEPT ![c].hashFlag = ~ @, ![c].left = @ - 1]
    BY <2>1, <2>4 DEF Client
  <2>5. ASSUME NEW dir, cl' = [cl EXCEPT ![c].cwd = dir, ![c].left = @ - 1]
        PROVE  <1>2
    BY <2>1, <2>5 DEF Client
  <2> QED
    BY <2>2, <2>3, <2>4, <2>5 DEF Local
<1>3. Turns(cl[c].pc, cl'[c].pc) /\ Aims(cl'[c]) /\ cl'[c].pc = "prompt"
  BY <1>1, <1>2 DEF CAt, Turns, Aims
<1> QED
  BY <1>1, <1>2, <1>3, CalmRuns DEF sockets, CAt

(* Every step of a client is one of the four kinds.                         *)
LEMMA UseSplit ==
    ASSUME Brief, IInv, NEW c \in Clients, Tied(c), Use(c) \/ Fail(c)
    PROVE  Runs(c) \/ Opens(c) \/ Links(c) \/ Leaves(c)
<1>1. UNCHANGED <<proc, fds>>
  BY DEF Use, Fail, serverVars
<1>2. CASE ClientStep(c)
  BY <1>1, <1>2, OpenRuns, PassiveRuns, RlistRuns, GetRuns, PutRuns, TalkRuns, LocalRuns
     DEF ClientStep
<1>3. CASE Crash(c)
  BY <1>1, <1>3 DEF Crash, Leaves
<1> QED
  BY <1>2, <1>3 DEF Use, Fail

-----------------------------------------------------------------------------
(* The invariant.  Unmade: a connection nobody made is empty.  PiOpen: a    *)
(* running client closes no control connection.  Sole: after the fork the   *)
(* control connection of a process is its own.  Fresh: so is, before and in *)
(* a transfer, its data connection.                                         *)
Unmade == \A k \in Conns : chan[k].port = "none" =>
    chan[k].in["s"] = <<>> /\ chan[k].in["c"] = <<>> /\ chan[k].end["c"] = "open"
PiOpen(k) == Running(k[1]) /\ chan[k].port = "pi" => chan[k].end["c"] = "open"
Sole(p) == Serving(p) => \A q \in Procs \ {p} : proc[p].clntSock \notin fds[q]
Fresh(p) ==
    /\ proc[p].clntDtpSock \in fds[p]
    /\ \A q \in Procs \ {p} : proc[p].clntDtpSock \notin fds[q]

(* Ready: a process has a fresh data connection in a transfer, and already  *)
(* when the command for one is on its way or will be the next one.          *)
Transfers == {"LIST", "RETR", "STOR"}
OnWay(k) == \E t \in Transfers : Is(chan[k].in["s"], t)
Ahead(k) == LET c == k[1] IN
    /\ Running(c) /\ cl[c].sock = k
    /\ \/ cl[c].pc \in {"connect", "dtphello", "dtphi", "LIST", "RETR", "STOR"}
       \/ cl[c].pc = "addr" /\ chan[k].in["c"] # <<>>
AtMostOne(u) == u = <<>> \/ \E t \in Texts : Is(u, t)
Ready(p) == LET k == proc[p].clntSock IN
    /\ Transferring(p) => Fresh(p)
    /\ Serving(p) => AtMostOne(chan[k].in["s"])
    /\ Serving(p) /\ OnWay(k) => proc[p].pc \in {"session", "dtpaccept", "dtphello", "dtphi"}
    /\ At(p, "session") /\ (OnWay(k) \/ Ahead(k)) => Fresh(p)

(* InTouch: a process and its running client are a pair; of a session whose *)
(* client has opened another one nothing is left but the process.           *)
InTouch(p) == LET k == proc[p].clntSock
                  c == k[1]
              IN
    Serving(p) /\ Running(c) =>
        IF cl[c].sock = k
        THEN Paired(cl[c].pc, proc[p].pc, chan[k].in["s"], chan[k].in["c"])
        ELSE At(p, "session") /\ Silent(chan[k].in["s"], chan[k].in["c"])

(* Coming: on a connection that was not accepted yet the client is at the   *)
(* handshake.                                                               *)
Coming(k) == LET c == k[1] IN
    /\ AtMostOne(chan[k].in["s"]) /\ ~ OnWay(k)
    /\ Running(c) => /\ cl[c].sock = k
                     /\ Arriving(cl[c].pc, chan[k].in["s"], chan[k].in["c"])

(* Answered: what a client finds is due, also when its server has died; the *)
(* server's end is open only with a process there, except for the moment    *)
(* between the answer to QUIT and the client's exit.                        *)
Answered(c) == LET k == cl[c].sock IN
    Running(c) /\ k \in Conns =>
        /\ Due(cl[c].pc, chan[k].in["c"])
        /\ chan[k].end["s"] # "open" => chan[k].in["s"] = <<>>
        /\ chan[k].end["s"] = "open" =>
             \/ k \in Waiting("pi")
             \/ \E p \in Procs : Serving(p) /\ proc[p].clntSock = k
             \/ CAt(c, "quitR") /\ chan[k].in["s"] = <<>> /\ Is(chan[k].in["c"], "221")

(* Greeting: the handshake on the data connection; the client does not ask  *)
(* for the transfer before it is over, or its server gone.                  *)
Knocks(d) == d \in Waiting("dtp") \/ \E p \in Procs : At(p, "dtphello") /\ proc[p].clntDtpSock = d
Greeting(c) == LET d == cl[c].dtpSock IN
    Running(c) =>
      /\ Knocks(d) =>
           /\ chan[d].in["c"] = <<>>
           /\ \/ CAt(c, "dtphello") /\ chan[d].in["s"] = <<>>
              \/ CAt(c, "dtphi") /\ chan[d].in["s"] = <<Word("hello")>>
      /\ \A p \in Procs : At(p, "dtphi") /\ proc[p].clntDtpSock = d =>
           CAt(c, "dtphi") /\ chan[d].in["c"] = <<>>

ProcsInv == \A p \in Procs : Sole(p) /\ Ready(p) /\ InTouch(p)
ConnsInv == Unmade /\ (\A k \in Conns : PiOpen(k)) /\ \A k \in Waiting("pi") : Coming(k)
ClientsInv == \A c \in Clients : Tied(c) /\ Answered(c) /\ Greeting(c)
PInv == IInv /\ ProcsInv /\ ConnsInv /\ ClientsInv

-----------------------------------------------------------------------------
(* More about pairs: their process serves,                                  *)
ServingPc == Commands \cup {"hello", "hi", "fork", "session", "dtpaccept", "dtphello",
    "dtphi", "echotext", "echoback", "storsize", "download", "stordone",
    "retrsize", "retrdone", "listdata", "listdone"}
TransferPc == {"dtphello", "dtphi", "STOR", "storsize", "download", "stordone",
    "RETR", "LIST", "listdata"}

(* Who serves and who transfers, by the point a process has reached.        *)
LEMMA PcServes ==
    ASSUME NEW p
    PROVE  /\ Serving(p) <=> proc[p].pc \in ServingPc
           /\ Transferring(p) <=> proc[p].pc \in TransferPc
           /\ Serving(p)' <=> proc'[p].pc \in ServingPc
           /\ Transferring(p)' <=> proc'[p].pc \in TransferPc
BY DEF Serving, InSession, ServingPc, Transferring, TransferPc

(* The process of a pair serves.                                            *)
LEMMA PairedServes ==
    ASSUME NEW cpc, NEW spc, NEW u, NEW w, Paired(cpc, spc, u, w)
    PROVE  spc \in ServingPc
BY DEF Paired, Meeting, Asking, Echoing, Joining, Listing, Fetching, Storing, ServingPc, Commands

(* An empty stream is no text.                                              *)
LEMMA EmptyIsNone ==
    ASSUME NEW t
    PROVE  ~ Is(<<>>, t)
BY IsOne

(* an empty session stands still,                                           *)
LEMMA SessionSilent ==
    ASSUME NEW w, NEW spc2, NEW u2, NEW w2
    PROVE  ~ ServerTalk(TRUE, "session", <<>>, w, spc2, u2, w2)
BY DEF ServerTalk, Replies, Hears, Works, Shrunk

(* a process takes what has come,                                           *)
LEMMA TalkTakes ==
    ASSUME NEW live, NEW spc, NEW u, NEW w, NEW spc2, NEW u2, NEW w2,
           ServerTalk(live, spc, u, w, spc2, u2, w2), AtMostOne(u)
    PROVE  u2 = u \/ u2 = <<>>
BY DEF ServerTalk, Shrunk, AtMostOne

(* is led into a transfer by a command for one,                             *)
LEMMA TalkTransfers ==
    ASSUME NEW live, NEW spc, NEW u, NEW w, NEW spc2, NEW u2, NEW w2,
           ServerTalk(live, spc, u, w, spc2, u2, w2), AtMostOne(u),
           spc2 \in TransferPc
    PROVE  spc \in TransferPc \/ (spc = "session" /\ \E t \in Transfers : Is(u, t))
<1>1. CASE Hears(spc, u, spc2) /\ Shrunk(u, u2)
  <2>1. PICK t \in Texts : Is(u, t)
    BY <1>1 DEF Shrunk, AtMostOne
  <2>2. u[1].t = t
    BY <2>1, IsOne
  <2> QED
    BY <1>1, <2>1, <2>2 DEF Hears, TransferPc, Transfers, Commands
<1> QED
  BY <1>1 DEF ServerTalk, Replies, Works, TransferPc

(* and passes over none while it waits for the data connection.             *)
LEMMA TalkOnWay ==
    ASSUME NEW live, NEW spc, NEW u, NEW w, NEW spc2, NEW u2, NEW w2,
           ServerTalk(live, spc, u, w, spc2, u2, w2), AtMostOne(u),
           \E t \in Transfers : Is(u2, t),
           spc \in {"session", "dtpaccept", "dtphello", "dtphi"}
    PROVE  (spc = "dtphello" /\ spc2 = "dtphi") \/ (spc = "dtphi" /\ spc2 = "session")
<1>1. u2 # <<>>
  BY EmptyIsNone
<1>2. u2 = u /\ ~ Shrunk(u, u2)
  BY <1>1, TalkTakes DEF Shrunk, AtMostOne
<1> QED
  BY <1>2 DEF ServerTalk, Replies, Works

(* Into a session whose data connection is next a process comes by PASV.    *)
LEMMA TalkAhead ==
    ASSUME NEW cpc, NEW spc, NEW u, NEW w, NEW spc2, NEW u2, NEW w2,
           Paired(cpc, spc, u, w), ServerTalk(TRUE, spc, u, w, spc2, u2, w2),
           spc2 = "session",
           \/ cpc \in {"connect", "dtphello", "dtphi", "LIST", "RETR", "STOR"}
           \/ cpc = "addr" /\ w2 # <<>>
    PROVE  spc = "dtphi"
<1>0. \A t \in {"PASV"} : Is(u, t) => u[1].t = t
  BY IsOne
<1>1. CASE Joining(cpc, spc, u, w) /\ u = <<>>
  BY <1>1, SessionSilent DEF Joining, ServerTalk, Replies, Hears, Works
<1>2. CASE Asking(cpc, spc, u, w) /\ cpc = "addr" /\ spc = "session" /\ Is(u, "PASV")
  BY <1>2, <1>0 DEF ServerTalk, Replies, Hears, Works, Commands
<1>3. CASE spc = "PASV"
  BY <1>3 DEF ServerTalk, Replies, Hears, Works
<1> QED
  BY <1>1, <1>2, <1>3 DEF Paired, Meeting, Arriving, Asking, Asks, Concludes, Echoing, Joining,
     Orders, Listing, Fetching, Storing, Silent

-----------------------------------------------------------------------------
(* A process at work leaves the connections of the others alone.            *)
LEMMA HandlesAlone ==
    ASSUME PInv, NEW p \in Procs, Handles(p)
    PROVE  LET k == proc[p].clntSock
               d == proc[p].clntDtpSock
           IN  /\ \A q \in Procs \ {p} : Serving(q) =>
                    proc[q].clntSock # k /\ chan'[proc[q].clntSock] = chan[proc[q].clntSock]
               /\ \A q \in Procs \ {p} : Transferring(q) =>
                    proc[q].clntDtpSock \in Conns /\ chan'[proc[q].clntDtpSock] = chan[proc[q].clntDtpSock]
               /\ \A q \in Ports : \A l \in Waiting(q) : l \in Conns /\ l # k /\ chan'[l] = chan[l]
               /\ \A l \in Conns \ {k} : chan[l].port # "dtp" => chan'[l] = chan[l]
               /\ \A q \in Ports : Waiting(q)' = Waiting(q)
<1> DEFINE k == proc[p].clntSock
           d == proc[p].clntDtpSock
<1>1. /\ Serving(p) /\ backlog' = backlog
      /\ \A l \in Conns \ {k} : (Transferring(p) => l # d) => chan'[l] = chan[l]
  BY DEF Handles
<1>2. /\ k \in Conns /\ k \in fds[p] /\ chan[k].port = "pi"
      /\ d \in Conns => chan[d].port = "dtp"
  BY <1>1, SocksApart DEF PInv, IInv, Apart
<1>3. Transferring(p) => Fresh(p)
  BY DEF PInv, ProcsInv, Ready
<1>4. \A l \in Conns \ {k} : chan[l].port # "dtp" => chan'[l] = chan[l]
  BY <1>1, <1>2
<1>5. ASSUME NEW q \in Procs \ {p}, Serving(q)
      PROVE  proc[q].clntSock # k /\ chan'[proc[q].clntSock] = chan[proc[q].clntSock]
  <2>1. proc[q].clntSock # k
    BY <1>1, <1>5 DEF PInv, IInv, Apart, ControlApart
  <2>2. proc[q].clntSock \in Conns /\ chan[proc[q].clntSock].port = "pi"
    BY <1>5, SocksApart DEF PInv
  <2> QED
    BY <1>4, <2>1, <2>2
<1>6. ASSUME NEW q \in Procs \ {p}, Transferring(q)
      PROVE  proc[q].clntDtpSock \in Conns /\ chan'[proc[q].clntDtpSock] = chan[proc[q].clntDtpSock]
  <2>1. Fresh(q)
    BY <1>6 DEF PInv, ProcsInv, Ready
  <2>2. proc[q].clntDtpSock \in Conns /\ chan[proc[q].clntDtpSock].port = "dtp"
    BY <2>1 DEF Fresh, PInv, IInv, TypeOK, ServerType, Apart
  <2>3. Transferring(p) => proc[q].clntDtpSock # d
    BY <1>3, <2>1 DEF Fresh
  <2> QED
    BY <1>1, <1>2, <2>2, <2>3
<1>7. ASSUME NEW q \in Ports, NEW l \in Waiting(q)
      PROVE  l \in Conns /\ l # k /\ chan'[l] = chan[l]
  <2>1. l \in Conns /\ \A r \in Procs : l \notin fds[r]
    BY DEF Waiting, PInv, IInv, Held, TypeOK, SocketsType
  <2> QED
    BY <1>1, <1>2, <1>3, <2>1 DEF Fresh
<1>8. \A q \in Ports : Waiting(q)' = Waiting(q)
  BY <1>1 DEF Waiting
<1> QED
  BY <1>4, <1>5, <1>6, <1>7, <1>8

(* Its own client and it are a pair afterwards, or it has said good-bye.    *)
LEMMA HandlesPair ==
    ASSUME PInv, NEW p \in Procs, Handles(p),
           Running(proc[p].clntSock[1]), cl[proc[p].clntSock[1]].sock = proc[p].clntSock
    PROVE  LET k == proc[p].clntSock
               cpc == cl[k[1]].pc
               u == chan[k].in["s"]
               w == chan[k].in["c"]
           IN  /\ Paired(cpc, proc[p].pc, u, w)
               /\ ServerTalk(TRUE, proc[p].pc, u, w, proc'[p].pc, chan'[k].in["s"], chan'[k].in["c"])
               /\ \/ Paired(cpc, proc'[p].pc, chan'[k].in["s"], chan'[k].in["c"])
                  \/ /\ proc'[p].pc = "accept" /\ cpc = "quitR"
                     /\ chan'[k].in["s"] = <<>> /\ Is(chan'[k].in["c"], "221")
<1> DEFINE k == proc[p].clntSock
           cpc == cl[k[1]].pc
           spc == proc[p].pc
           spc2 == proc'[p].pc
           u == chan[k].in["s"]
           w == chan[k].in["c"]
           u2 == chan'[k].in["s"]
           w2 == chan'[k].in["c"]
<1>1. Serving(p)
  BY DEF Handles
<1>2. k \in Conns /\ chan[k].port = "pi"
  BY <1>1, SocksApart DEF PInv
<1>3. chan[k].end["c"] = "open"
  BY <1>2 DEF PInv, ConnsInv, PiOpen
<1>4. Paired(cpc, spc, u, w)
  BY <1>1 DEF PInv, ProcsInv, InTouch
<1>5. ServerTalk(TRUE, spc, u, w, spc2, u2, w2)
  <2>1. (chan[k].end["c"] = "open") = TRUE
    BY <1>3
  <2> QED
    BY <2>1 DEF Handles
<1>6. \/ Paired(cpc, spc2, u2, w2)
      \/ spc2 = "accept" /\ cpc = "quitR" /\ u2 = <<>> /\ Is(w2, "221")
  <2> HIDE DEF cpc, spc, spc2, u, w, u2, w2
  <2> QED
    BY <1>4, <1>5, ServerTalks
<1> QED
  BY <1>4, <1>5, <1>6

(* In the connections,                                                      *)
LEMMA HandlesConns ==
    ASSUME PInv, NEW p \in Procs, Handles(p)
    PROVE  ConnsInv'
<1>1. /\ \A l \in Conns : chan'[l].port = chan[l].port
                          /\ (chan'[l].end["c"] = "open" <=> chan[l].end["c"] = "open")
      /\ cl' = cl /\ Serving(p)
  BY DEF Handles
<1>2. Unmade'
  <2> SUFFICES ASSUME NEW l \in Conns, chan[l].port = "none"
               PROVE  chan'[l].in["s"] = <<>> /\ chan'[l].in["c"] = <<>> /\ chan'[l].end["c"] = "open"
    BY <1>1 DEF Unmade
  <2>1. l # proc[p].clntSock
    BY <1>1, SocksApart DEF PInv
  <2>2. chan'[l] = chan[l]
    BY <2>1, HandlesAlone
  <2> QED
    BY <2>2 DEF PInv, ConnsInv, Unmade
<1>3. \A l \in Conns : PiOpen(l)'
  BY <1>1 DEF PInv, ConnsInv, PiOpen, Running
<1>4. \A l \in Waiting("pi")' : Coming(l)'
  <2>1. Waiting("pi")' = Waiting("pi") /\ \A l \in Waiting("pi") : chan'[l] = chan[l]
    BY HandlesAlone DEF Ports
  <2> QED
    BY <1>1, <2>1 DEF PInv, ConnsInv, Coming, OnWay, Running
<1> QED
  BY <1>2, <1>3, <1>4 DEF ConnsInv

(* in the processes: into a transfer one comes by the command for it, and   *)
(* into a session whose data connection is next by PASV;                    *)
LEMMA HandlesEnters ==
    ASSUME PInv, NEW p \in Procs, Handles(p)
    PROVE  LET k == proc[p].clntSock IN
           /\ Transferring(p)' => Transferring(p) \/ (At(p, "session") /\ OnWay(k))
           /\ OnWay(k)' /\ Serving(p)' => proc'[p].pc \in {"session", "dtphi"}
           /\ At(p, "session")' /\ (OnWay(k)' \/ Ahead(k)') => At(p, "dtphi")
<1> DEFINE k == proc[p].clntSock
           u == chan[k].in["s"]
           w == chan[k].in["c"]
           u2 == chan'[k].in["s"]
           w2 == chan'[k].in["c"]
           spc == proc[p].pc
           spc2 == proc'[p].pc
           live == chan[k].end["c"] = "open"
<1>1. /\ Serving(p) /\ proc'[p].clntSock = k /\ cl' = cl
      /\ ServerTalk(live, spc, u, w, spc2, u2, w2)
  BY DEF Handles
<1>2. Ready(p)
  BY DEF PInv, ProcsInv
<1>3. AtMostOne(u)
  BY <1>1, <1>2 DEF Ready
<1>4. u2 = u \/ u2 = <<>>
  BY <1>1, <1>3, TalkTakes
<1>5. ASSUME Transferring(p)' PROVE Transferring(p) \/ (At(p, "session") /\ OnWay(k))
  <2>1. spc2 \in TransferPc
    BY <1>5, PcServes
  <2>2. spc \in TransferPc \/ (spc = "session" /\ \E t \in Transfers : Is(u, t))
    BY <1>1, <1>3, <2>1, TalkTransfers
  <2> QED
    BY <2>2, PcServes DEF At, OnWay
<1>6. ASSUME OnWay(k)', Serving(p)'
      PROVE  spc2 \in {"session", "dtphi"} /\ (spc2 = "session" => spc = "dtphi")
  <2>1. \E t \in Transfers : Is(u2, t)
    BY <1>1, <1>6 DEF OnWay
  <2>2. u2 = u
    BY <1>4, <2>1, EmptyIsNone
  <2>3. OnWay(k)
    BY <2>1, <2>2 DEF OnWay
  <2>4. spc \in {"session", "dtpaccept", "dtphello", "dtphi"}
    BY <1>1, <1>2, <2>3 DEF Ready
  <2>5. (spc = "dtphello" /\ spc2 = "dtphi") \/ (spc = "dtphi" /\ spc2 = "session")
    BY <1>1, <1>3, <2>1, <2>4, TalkOnWay
  <2> QED
    BY <2>5
<1>7. ASSUME At(p, "session")', Ahead(k)'
      PROVE  spc = "dtphi"
  <2>1. /\ Running(k[1]) /\ cl[k[1]].sock = k
        /\ \/ cl[k[1]].pc \in {"connect", "dtphello", "dtphi", "LIST", "RETR", "STOR"}
           \/ cl[k[1]].pc = "addr" /\ w2 # <<>>
    BY <1>1, <1>7 DEF Ahead, Running
  <2>2. /\ Paired(cl[k[1]].pc, spc, u, w)
        /\ ServerTalk(TRUE, spc, u, w, spc2, u2, w2)
    BY <2>1, HandlesPair
  <2>3. spc2 = "session"
    BY <1>7 DEF At
  <2> QED
    BY <2>1, <2>2, <2>3, TalkAhead
<1>8. At(p, "session")' => Serving(p)' /\ spc2 = "session"
  BY PcServes DEF At, ServingPc
<1> QED
  BY <1>5, <1>6, <1>7, <1>8 DEF At

(* what it needs for that it has;                                           *)
LEMMA HandlesProcs ==
    ASSUME PInv, NEW p \in Procs, Handles(p)
    PROVE  ProcsInv'
<1> DEFINE k == proc[p].clntSock
           d == proc[p].clntDtpSock
           u == chan[k].in["s"]
           w == chan[k].in["c"]
           u2 == chan'[k].in["s"]
           w2 == chan'[k].in["c"]
           spc == proc[p].pc
           spc2 == proc'[p].pc
           live == chan[k].end["c"] = "open"
<1>1. /\ Serving(p)
      /\ \A q \in Procs \ {p} : proc'[q] = proc[q] /\ fds'[q] = fds[q]
      /\ proc'[p].clntSock = k /\ proc'[p].clntDtpSock = d
      /\ fds'[p] \subseteq fds[p]
      /\ spc \notin {"stordone", "listdata"} \/ spc2 \notin {"session", "listdone"} =>
           fds'[p] = fds[p]
      /\ cl' = cl
      /\ ServerTalk(live, spc, u, w, spc2, u2, w2)
  BY DEF Handles
<1>2. Sole(p) /\ Ready(p) /\ InTouch(p)
  BY DEF PInv, ProcsInv
<1>3. AtMostOne(u)
  BY <1>1, <1>2 DEF Ready
<1>4. u2 = u \/ u2 = <<>>
  BY <1>1, <1>3, TalkTakes
<1>5. Sole(p)'
  BY <1>1, <1>2 DEF Sole
<1>6. ASSUME Transferring(p)' PROVE Fresh(p)'
  <2>1. spc2 \in TransferPc
    BY <1>6, PcServes
  <2>2. Fresh(p)
    BY <1>2, <1>6, HandlesEnters DEF Ready
  <2>3. fds'[p] = fds[p]
    BY <1>1, <2>1 DEF TransferPc
  <2> QED
    BY <1>1, <2>2, <2>3 DEF Fresh
<1>7. spc = "dtphi" => Fresh(p)'
  <2> SUFFICES ASSUME spc = "dtphi" PROVE Fresh(p)'
    OBVIOUS
  <2>1. Fresh(p)
    BY <1>2 DEF Ready, Transferring
  <2>2. fds'[p] = fds[p]
    BY <1>1
  <2> QED
    BY <1>1, <2>1, <2>2 DEF Fresh
<1>8. Ready(p)'
  <2>1. AtMostOne(u2)
    BY <1>3, <1>4 DEF AtMostOne
  <2>2. Serving(p)' /\ OnWay(k)' => spc2 \in {"session", "dtpaccept", "dtphello", "dtphi"}
    BY HandlesEnters
  <2>3. At(p, "session")' /\ (OnWay(k)' \/ Ahead(k)') => Fresh(p)'
    BY <1>7, HandlesEnters DEF At
  <2> QED
    BY <1>1, <1>6, <2>1, <2>2, <2>3 DEF Ready
<1>9. InTouch(p)'
  <2> SUFFICES ASSUME Serving(p)', Running(k[1])
               PROVE  IF cl[k[1]].sock = k
                      THEN Paired(cl[k[1]].pc, spc2, u2, w2)
                      ELSE At(p, "session")' /\ Silent(u2, w2)
    BY <1>1 DEF InTouch, Running
  <2>1. CASE cl[k[1]].sock = k
    <3>1. spc2 # "accept"
      BY PcServes DEF ServingPc, Commands
    <3> QED
      BY <2>1, <3>1, HandlesPair
  <2>2. CASE cl[k[1]].sock # k
    <3>1. spc = "session" /\ u = <<>>
      BY <1>1, <1>2, <2>2 DEF InTouch, At, Silent
    <3>2. k \in Conns /\ chan[k].port = "pi"
      BY <1>1, SocksApart DEF PInv
    <3>3. live = TRUE
      BY <3>2 DEF PInv, ConnsInv, PiOpen
    <3>4. ServerTalk(TRUE, "session", <<>>, w, spc2, u2, w2)
      BY <1>1, <3>1, <3>3
    <3> QED
      BY <3>4, SessionSilent
  <2> QED
    BY <2>1, <2>2
<1>10. ASSUME NEW q \in Procs \ {p}
       PROVE  Sole(q)' /\ Ready(q)' /\ InTouch(q)'
  <2>1. proc'[q] = proc[q] /\ fds'[q] = fds[q] /\ cl' = cl
        /\ Sole(q) /\ Ready(q) /\ InTouch(q)
    BY <1>1 DEF PInv, ProcsInv
  <2>2. /\ Serving(q)' <=> Serving(q)
        /\ Transferring(q)' <=> Transferring(q)
        /\ At(q, "session") => Serving(q)
    BY <2>1, PcServes DEF At, ServingPc
  <2>3. Serving(q) => chan'[proc[q].clntSock] = chan[proc[q].clntSock]
    BY HandlesAlone
  <2>4. Sole(q)'
    BY <1>1, <2>1, <2>2 DEF Sole
  <2>5. Fresh(q) => Fresh(q)'
    BY <1>1, <2>1 DEF Fresh
  <2>6. Ready(q)'
    BY <2>1, <2>2, <2>3, <2>5 DEF Ready, OnWay, Ahead, At, Running
  <2>7. InTouch(q)'
    BY <2>1, <2>2, <2>3 DEF InTouch, At, Running
  <2> QED
    BY <2>4, <2>6, <2>7
<1> QED
  BY <1>5, <1>8, <1>9, <1>10 DEF ProcsInv

(* and in the clients, what was true before is true after.                  *)
LEMMA HandlesClients ==
    ASSUME PInv, NEW p \in Procs, Handles(p)
    PROVE  ClientsInv'
<1> DEFINE k == proc[p].clntSock
           d == proc[p].clntDtpSock
<1>1. /\ Serving(p)
      /\ \A q \in Procs \ {p} : proc'[q] = proc[q] /\ fds'[q] = fds[q]
      /\ proc'[p].clntSock = k /\ proc'[p].clntDtpSock = d
      /\ cl' = cl
      /\ \A l \in Conns : chan'[l].port = chan[l].port
                          /\ (chan'[l].end["c"] = "open" <=> chan[l].end["c"] = "open")
      /\ chan'[k].end["s"] = "open" <=> chan[k].end["s"] = "open"
  BY DEF Handles
<1>2. k \in Conns /\ chan[k].end["s"] = "open"
  BY <1>1, SocksApart DEF PInv
<1>3. SUFFICES ASSUME NEW c \in Clients
               PROVE  Tied(c)' /\ Answered(c)' /\ Greeting(c)'
  BY DEF ClientsInv
<1>4. Tied(c) /\ Answered(c) /\ Greeting(c)
  BY DEF PInv, ClientsInv
<1>5. Tied(c)'
  BY <1>1, <1>4 DEF Tied, Owned, Aimed, Attached
<1>6. Answered(c)'
  <2> SUFFICES ASSUME Running(c), cl[c].sock \in Conns
               PROVE  Answered(c)'
    BY <1>1 DEF Answered, Running
  <2>1. CASE cl[c].sock = k
    <3>1. k[1] = c
      BY <1>4, <2>1 DEF Tied, Owned
    <3>2. \/ Paired(cl[c].pc, proc'[p].pc, chan'[k].in["s"], chan'[k].in["c"])
          \/ /\ proc'[p].pc = "accept" /\ cl[c].pc = "quitR"
             /\ chan'[k].in["s"] = <<>> /\ Is(chan'[k].in["c"], "221")
      BY <2>1, <3>1, HandlesPair
    <3>3. CASE Paired(cl[c].pc, proc'[p].pc, chan'[k].in["s"], chan'[k].in["c"])
      <4>1. Due(cl[c].pc, chan'[k].in["c"])
        BY <3>3, PairedDue
      <4>2. Serving(p)'
        BY <3>3, PairedServes, PcServes
      <4> QED
        BY <1>1, <1>2, <2>1, <4>1, <4>2 DEF Answered
    <3>4. CASE /\ cl[c].pc = "quitR"
               /\ chan'[k].in["s"] = <<>> /\ Is(chan'[k].in["c"], "221")
      <4>1. Due(cl[c].pc, chan'[k].in["c"])
        BY <3>4 DEF Due
      <4> QED
        BY <1>1, <1>2, <2>1, <3>4, <4>1 DEF Answered, CAt
    <3> QED
      BY <3>2, <3>3, <3>4
  <2>2. CASE cl[c].sock # k
    <3> DEFINE l == cl[c].sock
    <3>1. chan[l].port = "pi"
      BY <1>4 DEF Tied, Owned
    <3>2. chan'[l] = chan[l] /\ Waiting("pi")' = Waiting("pi")
      BY <2>2, <3>1, HandlesAlone DEF Ports
    <3>3. \A q \in Procs : Serving(q) /\ proc[q].clntSock = l =>
                             Serving(q)' /\ proc'[q].clntSock = l
      BY <1>1, <2>2, PcServes
    <3> QED
      BY <1>1, <1>4, <3>2, <3>3 DEF Answered, Running, CAt
  <2> QED
    BY <2>1, <2>2
<1>7. Greeting(c)'
  <2> DEFINE e == cl[c].dtpSock
  <2> SUFFICES ASSUME Running(c)
               PROVE  Greeting(c)'
    BY <1>1 DEF Greeting, Running
  <2>1. ~ At(p, "dtphello")'
    <3>1. ServerTalk(chan[k].end["c"] = "open", proc[p].pc, chan[k].in["s"], chan[k].in["c"],
                     proc'[p].pc, chan'[k].in["s"], chan'[k].in["c"])
      BY DEF Handles
    <3> QED
      BY <3>1 DEF ServerTalk, Replies, Hears, Works, At, Commands
  <2>2. Waiting("dtp")' = Waiting("dtp") /\ \A l \in Waiting("dtp") : chan'[l] = chan[l]
    BY HandlesAlone DEF Ports
  <2>3. ASSUME NEW q \in Procs \ {p}, At(q, "dtphello") \/ At(q, "dtphi")
        PROVE  chan'[proc[q].clntDtpSock] = chan[proc[q].clntDtpSock]
    <3>1. Transferring(q)
      BY <2>3 DEF Transferring, At
    <3> QED
      BY <3>1, HandlesAlone
  <2>4. Knocks(e)' => Knocks(e) /\ chan'[e] = chan[e]
    <3>1. CASE e \in Waiting("dtp")'
      BY <2>2, <3>1 DEF Knocks
    <3>2. ASSUME NEW q \in Procs, At(q, "dtphello")', proc'[q].clntDtpSock = e
          PROVE  Knocks(e) /\ chan'[e] = chan[e]
      <4>1. q # p
        BY <2>1, <3>2
      <4> QED
        BY <1>1, <2>3, <3>2, <4>1 DEF Knocks, At
    <3> QED
      BY <1>1, <3>1, <3>2 DEF Knocks
  <2>5. ASSUME NEW q \in Procs, At(q, "dtphi")', proc'[q].clntDtpSock = e
        PROVE  CAt(c, "dtphi") /\ chan'[e].in["c"] = <<>>
    <3>1. CASE q # p
      BY <1>1, <1>4, <2>3, <2>5, <3>1 DEF Greeting, At, CAt
    <3>2. CASE q = p
      <4>1. At(p, "dtphello") /\ e = d
        BY <1>1, <2>5, <3>2 DEF Handles, ServerTalk, Replies, Hears, Works, At, Commands
      <4>2. Knocks(e)
        BY <4>1 DEF Knocks
      <4>3. /\ chan[e].in["c"] = <<>>
            /\ (CAt(c, "dtphello") /\ chan[e].in["s"] = <<>>) \/ CAt(c, "dtphi")
        BY <1>4, <4>2 DEF Greeting
      <4>4. chan[d].in["s"] # <<>> /\ (d \in Conns => chan'[d].in["c"] = chan[d].in["c"])
        BY <4>1 DEF Handles
      <4>5. d \in Conns
        BY <1>4, <4>1, <4>3 DEF Tied, Attached, WithData, CAt
      <4> QED
        BY <4>1, <4>3, <4>4, <4>5
    <3> QED
      BY <3>1, <3>2
  <2> QED
    BY <1>1, <1>4, <2>4, <2>5 DEF Greeting, Running, CAt
<1> QED
  BY <1>5, <1>6, <1>7

-----------------------------------------------------------------------------
(* What an accept does: the oldest connection of a queue, which nobody has, *)
(* is its process' from now on, and nothing else changes.                   *)
Takes(p, q, k) ==
    /\ k \in Conns /\ k \in Waiting(q) /\ chan[k].port = q
    /\ UNCHANGED <<chan, cl>>
    /\ \A r \in Procs : k \notin fds[r]
    /\ \A r \in Procs \ {p} : proc'[r] = proc[r] /\ fds'[r] = fds[r]
    /\ fds'[p] = fds[p] \cup {k}
    /\ \A o \in Ports : \A l \in Waiting(o)' : l \in Waiting(o)
    /\ \A o \in Ports : \A l \in Waiting(o) \ {k} : l \in Waiting(o)'

(* An accept takes the oldest connection of one of the two queues.          *)
LEMMA AcceptsTakes ==
    ASSUME IInv, NEW p \in Procs, Accepts(p), UNCHANGED cl
    PROVE  \E k \in Conns :
             \/ /\ Takes(p, "pi", k) /\ At(p, "accept") /\ At(p, "hello")'
                /\ proc'[p].clntSock = k /\ proc'[p].clntDtpSock = proc[p].clntDtpSock
             \/ /\ Takes(p, "dtp", k) /\ At(p, "dtpaccept") /\ At(p, "dtphello")'
                /\ proc'[p].clntSock = proc[p].clntSock /\ proc'[p].clntDtpSock = k
<1>1. PICK q \in Ports, pc \in {"hello", "dtphello"} :
        /\ Accept(p, q, pc)
        /\ \/ q = "pi" /\ pc = "hello" /\ At(p, "accept")
           \/ q = "dtp" /\ pc = "dtphello" /\ At(p, "dtpaccept")
  BY DEF Accepts, Ports
<1> DEFINE b == backlog[q]
           k == Head(b)
<1>2. /\ b \in Seq(Conns) /\ b # <<>>
      /\ proc' = [proc EXCEPT ![p].pc = pc,
                    ![p].clntSock    = IF q = "pi"  THEN k ELSE @,
                    ![p].clntDtpSock = IF q = "dtp" THEN k ELSE @]
      /\ fds' = [fds EXCEPT ![p] = @ \cup {k}]
      /\ backlog' = [backlog EXCEPT ![q] = Tail(@)]
      /\ chan' = chan
  BY <1>1 DEF Accept, IInv, TypeOK, SocketsType
<1>3. /\ k = b[1] /\ k \in Conns /\ 1 \in 1..Len(b)
      /\ Tail(b) \in Seq(Conns) /\ Len(Tail(b)) = Len(b) - 1
      /\ \A i \in 1..Len(Tail(b)) : Tail(b)[i] = b[i + 1] /\ i + 1 \in 1..Len(b)
  BY <1>2
<1>4. /\ chan[k].port = q /\ \A r \in Procs : k \notin fds[r]
  BY <1>3 DEF IInv, Held
<1> HIDE DEF b, k
<1>5. k \in Waiting(q)
  BY <1>3 DEF Waiting, b
<1>6. /\ \A r \in Procs \ {p} : proc'[r] = proc[r] /\ fds'[r] = fds[r]
      /\ fds'[p] = fds[p] \cup {k}
      /\ proc'[p].pc = pc
      /\ proc'[p].clntSock = IF q = "pi" THEN k ELSE proc[p].clntSock
      /\ proc'[p].clntDtpSock = IF q = "dtp" THEN k ELSE proc[p].clntDtpSock
  BY <1>2 DEF IInv, TypeOK, ServerType, Process
<1>7. \A o \in Ports : backlog'[o] = IF o = q THEN Tail(b) ELSE backlog[o]
  BY <1>2 DEF b, IInv, TypeOK, SocketsType
<1>8. ASSUME NEW o \in Ports, NEW l \in Waiting(o)'
      PROVE  l \in Waiting(o)
  <2>1. PICK i \in 1..Len(backlog'[o]) : backlog'[o][i] = l
    BY <1>8 DEF Waiting
  <2> QED
    BY <1>3, <1>7, <2>1 DEF Waiting, b
<1>9. ASSUME NEW o \in Ports, NEW l \in Waiting(o) \ {k}
      PROVE  l \in Waiting(o)'
  <2>1. PICK i \in 1..Len(backlog[o]) : backlog[o][i] = l
    BY <1>9 DEF Waiting
  <2>2. CASE o = q
    <3>1. i # 1 /\ i \in 1..Len(b) /\ b[i] = l
      BY <1>3, <2>1, <2>2 DEF b
    <3>2. i - 1 \in 1..Len(Tail(b)) /\ Tail(b)[i - 1] = l
      BY <1>2, <1>3, <3>1
    <3> QED
      BY <1>7, <2>2, <3>2 DEF Waiting
  <2>3. CASE o # q
    BY <1>7, <2>1, <2>3 DEF Waiting
  <2> QED
    BY <2>2, <2>3
<1>10. Takes(p, q, k)
  BY <1>2, <1>3, <1>4, <1>5, <1>6, <1>8, <1>9 DEF Takes
<1> QED
  BY <1>1, <1>3, <1>6, <1>10 DEF At

(* A data connection that is accepted changes nothing between the two.      *)
LEMMA PairedAccept ==
    ASSUME NEW cpc, NEW u, NEW w, Paired(cpc, "dtpaccept", u, w)
    PROVE  Paired(cpc, "dtphello", u, w)
BY DEF Paired, Meeting, Asking, Echoing, Joining, Listing, Fetching, Storing, Commands

(* Taking a connection from a queue keeps what is known of the connections, *)
(* and of every process but the one that takes it.                          *)
LEMMA TakesKeeps ==
    ASSUME PInv, NEW p \in Procs, NEW q \in Ports, NEW k, Takes(p, q, k)
    PROVE  ConnsInv' /\ \A r \in Procs \ {p} : Sole(r)' /\ Ready(r)' /\ InTouch(r)'
<1>1. ConnsInv'
  <2>1. \A l \in Waiting("pi")' : l \in Waiting("pi")
    BY DEF Takes, Ports
  <2>2. chan' = chan /\ cl' = cl
    BY DEF Takes
  <2> QED
    BY <2>1, <2>2 DEF PInv, ConnsInv, Unmade, PiOpen, Coming, OnWay, Running
<1>2. ASSUME NEW r \in Procs \ {p}
      PROVE  Sole(r)' /\ Ready(r)' /\ InTouch(r)'
  <2>1. /\ proc'[r] = proc[r] /\ fds'[r] = fds[r] /\ cl' = cl /\ chan' = chan
        /\ k \notin fds[r]
        /\ \A o \in Procs : fds'[o] \subseteq fds[o] \cup {k}
        /\ Sole(r) /\ Ready(r) /\ InTouch(r)
    BY DEF Takes, PInv, ProcsInv
  <2>2. Serving(r)' <=> Serving(r)
    BY <2>1, PcServes
  <2>3. Serving(r) => proc[r].clntSock \in fds[r]
    BY SocksApart DEF PInv
  <2>4. Sole(r)'
    BY <2>1, <2>2, <2>3 DEF Sole
  <2>5. Fresh(r) => Fresh(r)'
    BY <2>1 DEF Fresh
  <2>6. Transferring(r)' <=> Transferring(r)
    BY <2>1, PcServes
  <2>7. Ready(r)'
    BY <2>1, <2>2, <2>5, <2>6 DEF Ready, OnWay, Ahead, At, Running
  <2>8. InTouch(r)'
    BY <2>1, <2>2 DEF InTouch, At, Running
  <2> QED
    BY <2>4, <2>7, <2>8
<1> QED
  BY <1>1, <1>2

(* main's accept keeps the invariant,                                       *)
LEMMA AcceptsKept ==
    ASSUME PInv, NEW p \in Procs, Accepts(p), UNCHANGED cl
    PROVE  ConnsInv' /\ ProcsInv' /\ ClientsInv'
<1>1. PICK k \in Conns :
        \/ /\ Takes(p, "pi", k) /\ At(p, "accept") /\ At(p, "hello")'
           /\ proc'[p].clntSock = k /\ proc'[p].clntDtpSock = proc[p].clntDtpSock
        \/ /\ Takes(p, "dtp", k) /\ At(p, "dtpaccept") /\ At(p, "dtphello")'
           /\ proc'[p].clntSock = proc[p].clntSock /\ proc'[p].clntDtpSock = k
  BY AcceptsTakes DEF PInv
<1>2. /\ ConnsInv' /\ \A r \in Procs \ {p} : Sole(r)' /\ Ready(r)' /\ InTouch(r)'
  BY <1>1, TakesKeeps DEF Ports
<1>3. /\ chan' = chan /\ cl' = cl
      /\ \A r \in Procs \ {p} : proc'[r] = proc[r] /\ fds'[r] = fds[r] /\ k \notin fds[r]
  BY <1>1 DEF Takes
<1>4. Sole(p)' /\ Ready(p)' /\ InTouch(p)'
  <2>1. CASE At(p, "hello")' /\ Takes(p, "pi", k) /\ proc'[p].clntSock = k
    <3>1. Coming(k)
      BY <2>1 DEF Takes, PInv, ConnsInv
    <3>2. Sole(p)'
      BY <1>3, <2>1 DEF Sole
    <3>3. ~ Transferring(p)' /\ ~ At(p, "session")'
      BY <2>1, PcServes DEF At, TransferPc
    <3>4. Ready(p)'
      BY <1>3, <2>1, <3>1, <3>3 DEF Ready, Coming, OnWay
    <3>5. InTouch(p)'
      BY <1>3, <2>1, <3>1 DEF InTouch, Coming, At, Running, Paired, Meeting
    <3> QED
      BY <3>2, <3>4, <3>5
  <2>2. CASE /\ Takes(p, "dtp", k) /\ At(p, "dtpaccept") /\ At(p, "dtphello")'
             /\ proc'[p].clntSock = proc[p].clntSock /\ proc'[p].clntDtpSock = k
    <3>1. Sole(p) /\ Ready(p) /\ InTouch(p) /\ Serving(p)
      BY <2>2, PcServes DEF PInv, ProcsInv, At, ServingPc
    <3>2. Sole(p)'
      BY <1>3, <2>2, <3>1 DEF Sole
    <3>3. Fresh(p)'
      BY <1>3, <2>2 DEF Fresh, Takes
    <3>4. Ready(p)'
      BY <1>3, <2>2, <3>1, <3>3 DEF Ready, OnWay, At
    <3>5. InTouch(p)'
      BY <1>3, <2>2, <3>1, PairedAccept DEF InTouch, At, Running
    <3> QED
      BY <3>2, <3>4, <3>5
  <2> QED
    BY <1>1, <2>1, <2>2
<1>5. ASSUME NEW c \in Clients
      PROVE  Tied(c)' /\ Answered(c)' /\ Greeting(c)'
  <2>1. Tied(c) /\ Answered(c) /\ Greeting(c)
    BY DEF PInv, ClientsInv
  <2>2. Tied(c)'
    BY <1>3, <2>1 DEF Tied, Owned, Aimed, Attached
  <2>3. \A r \in Procs : Serving(r) /\ proc[r].clntSock = cl[c].sock =>
          Serving(r)' /\ proc'[r].clntSock = cl[c].sock
    <3>1. ASSUME NEW r \in Procs \ {p}
          PROVE  Serving(r) => Serving(r)' /\ proc'[r].clntSock = proc[r].clntSock
      BY <1>3, PcServes
    <3>2. Serving(p) => Serving(p)' /\ proc'[p].clntSock = proc[p].clntSock
      BY <1>1, PcServes DEF At, ServingPc, Commands
    <3> QED
      BY <3>1, <3>2
  <2>4. cl[c].sock \in Waiting("pi") =>
          \/ cl[c].sock \in Waiting("pi")'
          \/ Serving(p)' /\ proc'[p].clntSock = cl[c].sock
    <3>1. CASE Takes(p, "pi", k) /\ At(p, "hello")' /\ proc'[p].clntSock = k
      <4>1. Serving(p)'
        BY <3>1, PcServes DEF At, ServingPc
      <4> QED
        BY <3>1, <4>1 DEF Takes, Ports
    <3>2. CASE Takes(p, "dtp", k)
      <4>1. cl[c].sock \in Conns => chan[cl[c].sock].port = "pi"
        BY <2>1 DEF Tied, Owned
      <4>2. cl[c].sock \in Waiting("pi") => cl[c].sock \in Conns
        BY DEF Waiting, PInv, IInv, TypeOK, SocketsType, Ports
      <4> QED
        BY <3>2, <4>1, <4>2 DEF Takes, Ports
    <3> QED
      BY <1>1, <3>1, <3>2
  <2>5. Answered(c)'
    BY <1>3, <2>1, <2>3, <2>4 DEF Answered, Running, CAt
  <2>6. Knocks(cl[c].dtpSock)' => Knocks(cl[c].dtpSock)
    <3>1. \A l \in Waiting("dtp")' : l \in Waiting("dtp")
      BY <1>1 DEF Takes, Ports
    <3>2. At(p, "dtphello")' => proc'[p].clntDtpSock \in Waiting("dtp")
      BY <1>1 DEF At, Takes
    <3> QED
      BY <1>3, <3>1, <3>2 DEF Knocks, At
  <2>7. ~ At(p, "dtphi")'
    BY <1>1 DEF At
  <2>8. Greeting(c)'
    BY <1>3, <2>1, <2>6, <2>7 DEF Greeting, Running, CAt, At
  <2> QED
    BY <2>2, <2>5, <2>8
<1> QED
  BY <1>2, <1>4, <1>5 DEF ProcsInv, ClientsInv

(* What a pair is at the fork it is in the session of the child, and no     *)
(* data connection is in sight.                                             *)
LEMMA PairedFork ==
    ASSUME NEW cpc, NEW u, NEW w, Paired(cpc, "fork", u, w)
    PROVE  Paired(cpc, "session", u, w) /\ cpc \in {"hi", "User", "userR"}
BY DEF Paired, Meeting, Asking, Echoing, Joining, Listing, Fetching, Storing, Commands

(* fork keeps the invariant: the child has its parent's client,             *)
LEMMA ForksKept ==
    ASSUME PInv, NEW p \in Procs, Forks(p), UNCHANGED cl
    PROVE  ConnsInv' /\ ProcsInv' /\ ClientsInv'
<1> DEFINE k == proc[p].clntSock
<1>1. PICK q \in Procs :
        /\ At(p, "fork") /\ At(q, "none")
        /\ proc' = [proc EXCEPT ![q] = [proc[p] EXCEPT !.pc = "session"],
                                ![p].pc = "accept"]
        /\ fds' = [fds EXCEPT ![q] = fds[p], ![p] = @ \ {k}]
        /\ UNCHANGED sockets
  BY DEF Forks
<1>2. /\ p # q /\ Serving(p) /\ ~ Serving(q)
      /\ chan' = chan /\ cl' = cl /\ \A o : Waiting(o)' = Waiting(o)
  BY <1>1, PcServes DEF At, ServingPc, Commands, sockets, Waiting
<1>3. /\ proc'[q].pc = "session" /\ proc'[q].clntSock = k /\ fds'[q] = fds[p]
      /\ proc'[p].pc = "accept" /\ fds'[p] = fds[p] \ {k}
      /\ \A r \in Procs \ {p, q} : proc'[r] = proc[r] /\ fds'[r] = fds[r]
  BY <1>1, <1>2 DEF PInv, IInv, TypeOK, ServerType, Process
<1>4. Sole(p) /\ Ready(p) /\ InTouch(p)
  BY DEF PInv, ProcsInv
<1>5. ~ Serving(p)' /\ ~ Transferring(p)' /\ ~ At(p, "session")'
  BY <1>3, PcServes DEF ServingPc, TransferPc, Commands, At
<1>6. Serving(q)' /\ ~ Transferring(q)' /\ At(q, "session")'
  BY <1>3, PcServes DEF ServingPc, TransferPc, At
<1>7. ConnsInv'
  BY <1>2 DEF PInv, ConnsInv, Unmade, PiOpen, Coming, OnWay, Running
<1>8. Sole(q)' /\ Ready(q)' /\ InTouch(q)'
  <2>1. Sole(q)'
    BY <1>2, <1>3, <1>4 DEF Sole
  <2>2. AtMostOne(chan[k].in["s"]) /\ ~ OnWay(k)
    BY <1>1, <1>2, <1>4 DEF Ready, At
  <2>3. Running(k[1]) => /\ cl[k[1]].sock = k
                         /\ Paired(cl[k[1]].pc, "session", chan[k].in["s"], chan[k].in["c"])
                         /\ cl[k[1]].pc \in {"hi", "User", "userR"}
    BY <1>1, <1>2, <1>4, PairedFork DEF InTouch, At
  <2>4. Ready(q)'
    BY <1>2, <1>3, <1>6, <2>2, <2>3 DEF Ready, OnWay, Ahead, Running
  <2>5. InTouch(q)'
    BY <1>2, <1>3, <2>3 DEF InTouch, Running
  <2> QED
    BY <2>1, <2>4, <2>5
<1>9. ASSUME NEW r \in Procs \ {p, q}
      PROVE  Sole(r)' /\ Ready(r)' /\ InTouch(r)'
  <2>1. /\ proc'[r] = proc[r] /\ fds'[r] = fds[r]
        /\ Sole(r) /\ Ready(r) /\ InTouch(r)
    BY <1>3 DEF PInv, ProcsInv
  <2>2. /\ Serving(r)' <=> Serving(r)
        /\ Transferring(r)' <=> Transferring(r)
    BY <2>1, PcServes
  <2>3. \A o \in Procs \ {r} : \E o2 \in Procs \ {r} : fds'[o] \subseteq fds[o2]
    BY <1>2, <1>3
  <2>4. Sole(r)'
    BY <2>1, <2>2, <2>3 DEF Sole
  <2>5. Fresh(r) => Fresh(r)'
    BY <2>1, <2>3 DEF Fresh
  <2>6. Ready(r)'
    BY <1>2, <2>1, <2>2, <2>5 DEF Ready, OnWay, Ahead, At, Running
  <2>7. InTouch(r)'
    BY <1>2, <2>1, <2>2 DEF InTouch, At, Running
  <2> QED
    BY <2>4, <2>6, <2>7
<1>10. ASSUME NEW r \in Procs
       PROVE  Sole(r)' /\ Ready(r)' /\ InTouch(r)'
  <2>1. CASE r = p
    BY <1>5, <2>1 DEF Sole, Ready, InTouch
  <2> QED
    BY <1>8, <1>9, <2>1
<1>11. ASSUME NEW c \in Clients
       PROVE  Tied(c)' /\ Answered(c)' /\ Greeting(c)'
  <2>1. Tied(c) /\ Answered(c) /\ Greeting(c)
    BY DEF PInv, ClientsInv
  <2>2. Tied(c)'
    BY <1>2, <2>1 DEF Tied, Owned, Aimed, Attached
  <2>3. ASSUME NEW r \in Procs, Serving(r), proc[r].clntSock = cl[c].sock
        PROVE  \E o \in Procs : Serving(o)' /\ proc'[o].clntSock = cl[c].sock
    <3>1. CASE r = p
      BY <1>3, <1>6, <2>3, <3>1
    <3>2. CASE r # p
      <4>1. proc'[r] = proc[r]
        BY <1>2, <1>3, <2>3, <3>2
      <4> QED
        BY <2>3, <4>1, PcServes
    <3> QED
      BY <3>1, <3>2
  <2>4. Answered(c)'
    BY <1>2, <2>1, <2>3 DEF Answered, Running, CAt
  <2>5. \A r \in Procs : At(r, "dtphello")' \/ At(r, "dtphi")' => proc'[r] = proc[r]
    BY <1>3 DEF At
  <2>6. Greeting(c)'
    BY <1>2, <2>1, <2>5 DEF Greeting, Knocks, Running, CAt, At
  <2> QED
    BY <2>2, <2>4, <2>6
<1> QED
  BY <1>7, <1>10, <1>11 DEF ProcsInv, ClientsInv

(* What a death does: the server's ends only the dead process held are      *)
(* closed, and with the last process those that still wait; no connection   *)
(* of another process, and nothing on its way to a client, is touched.      *)
Shut(ch2, ch) ==
    /\ ch2.port = ch.port /\ ch2.end["c"] = ch.end["c"] /\ ch2.in["c"] = ch.in["c"]
    /\ ch2 = ch \/ (ch2.end["s"] # "open" /\ ch2.in["s"] = <<>>)

(* So it is with the death of a process that serves;                        *)
LEMMA DieShuts ==
    ASSUME IInv, NEW p \in Procs, Serving(p), Die(p)
    PROVE  /\ proc'[p].pc = "dead" /\ fds'[p] = {}
           /\ \A r \in Procs \ {p} : proc'[r] = proc[r] /\ fds'[r] = fds[r]
           /\ \A l \in Conns : Shut(chan'[l], chan[l])
           /\ \A l \in OnlyHeldBy(p) : chan'[l].end["s"] # "open"
           /\ \A r \in Procs \ {p} : \A l \in fds[r] : chan'[l] = chan[l]
           /\ \A o \in Ports : \A l \in Waiting(o)' : l \in Waiting(o) /\ chan'[l] = chan[l]
           /\ \A o \in Ports : \A l \in Waiting(o) :
                l \in Waiting(o)' \/ chan'[l].end["s"] # "open"
           /\ \A l \in Conns : chan[l].port = "none" => chan'[l] = chan[l]
<1> DEFINE S == OnlyHeldBy(p)
           W == Waiting("pi") \cup Waiting("dtp")
           survivors == \E q \in Procs \ {p} : Alive(q)
<1>1. PICK how \in Hows :
        LET closed == CloseAll(S, "s", how) IN
        IF survivors
        THEN chan' = closed /\ UNCHANGED <<backlog, listening>>
        ELSE /\ chan' = [k \in Conns |-> IF k \in W THEN Refused(closed[k])
                                                    ELSE closed[k]]
             /\ backlog' = [q \in Ports |-> <<>>]
             /\ listening' = FALSE
  BY DEF Die
<1> DEFINE closed == CloseAll(S, "s", how)
<1>2. /\ proc'[p].pc = "dead" /\ fds'[p] = {}
      /\ \A r \in Procs \ {p} : proc'[r] = proc[r] /\ fds'[r] = fds[r]
  BY DEF Die, IInv, TypeOK, ServerType, Process
<1>3. \A l \in Conns : /\ chan[l] \in Channel /\ closed[l] \in Channel
                       /\ Shut(closed[l], chan[l])
                       /\ l \in S => closed[l].end["s"] # "open"
                       /\ l \notin S => closed[l] = chan[l]
  <2> TAKE l \in Conns
  <2>1. chan[l] \in Channel /\ "s" \in Sides /\ Peer("s") = "c"
    BY DEF IInv, TypeOK, SocketsType, Sides, Peer
  <2>2. /\ Closed(chan[l], "s", how).port = chan[l].port
        /\ Closed(chan[l], "s", how) \in Channel
        /\ Closed(chan[l], "s", how).end["c"] = chan[l].end["c"]
        /\ Closed(chan[l], "s", how).end["s"] # "open"
        /\ Closed(chan[l], "s", how).in["c"] = chan[l].in["c"]
        /\ Closed(chan[l], "s", how).in["s"] = <<>>
    BY <2>1, ClosedEnd
  <2>3. closed[l] = IF l \in S THEN Closed(chan[l], "s", how) ELSE chan[l]
    BY DEF CloseAll
  <2> QED
    BY <2>1, <2>2, <2>3 DEF Shut
<1> HIDE DEF closed
<1>4. \A l \in Conns : /\ Refused(closed[l]).port = closed[l].port
                       /\ Refused(closed[l]).end["c"] = closed[l].end["c"]
                       /\ Refused(closed[l]).end["s"] # "open"
                       /\ Refused(closed[l]).in["c"] = closed[l].in["c"]
                       /\ Refused(closed[l]).in["s"] = <<>>
  BY <1>3, RefusedEnd
<1>5. \A l \in Conns : /\ Shut(chan'[l], chan[l])
                       /\ l \in S => chan'[l].end["s"] # "open"
                       /\ l \notin S /\ (survivors \/ l \notin W) => chan'[l] = chan[l]
                       /\ l \in W /\ ~ survivors => chan'[l].end["s"] # "open"
  <2>1. CASE survivors
    <3>1. chan' = closed
      BY <1>1, <2>1 DEF closed
    <3> QED
      BY <1>3, <2>1, <3>1
  <2>2. CASE ~ survivors
    <3>1. chan' = [k \in Conns |-> IF k \in W THEN Refused(closed[k]) ELSE closed[k]]
      BY <1>1, <2>2 DEF closed
    <3> HIDE DEF W, S, survivors
    <3>2. TAKE l \in Conns
    <3>3. CASE l \in W
      <4>1. chan'[l] = Refused(closed[l])
        BY <3>1, <3>3
      <4>2. Shut(closed[l], chan[l])
        BY <1>3
      <4>3. Shut(chan'[l], chan[l]) /\ chan'[l].end["s"] # "open"
        BY <1>4, <4>1, <4>2 DEF Shut
      <4> QED
        BY <2>2, <3>3, <4>3
    <3>4. CASE l \notin W
      BY <1>3, <3>1, <3>4
    <3> QED
      BY <3>3, <3>4
  <2> QED
    BY <2>1, <2>2
<1>6. \A l \in S : l \in Conns
  BY DEF OnlyHeldBy, IInv, TypeOK, ServerType
<1>7. ASSUME NEW r \in Procs \ {p}, NEW l \in fds[r]
      PROVE  chan'[l] = chan[l]
  <2>1. l \in Conns /\ l \notin S
    BY <1>7 DEF OnlyHeldBy, IInv, TypeOK, ServerType
  <2>2. Alive(r)
    BY <1>7 DEF IInv, Held
  <2> QED
    BY <1>5, <2>1, <2>2
<1>8. ASSUME NEW o \in Ports, NEW l \in Waiting(o)
      PROVE  l \in Conns /\ l \notin S /\ l \in W
  BY DEF Waiting, IInv, Held, TypeOK, SocketsType, OnlyHeldBy, Ports
<1>9. ASSUME NEW o \in Ports, NEW l \in Waiting(o)'
      PROVE  l \in Waiting(o) /\ chan'[l] = chan[l]
  <2>1. survivors
    <3>1. ~ survivors => backlog'[o] = <<>>
      BY <1>1
    <3>2. backlog'[o] # <<>>
      BY DEF Waiting
    <3> QED
      BY <3>1, <3>2
  <2>2. l \in Waiting(o)
    BY <1>1, <2>1 DEF Waiting
  <2> QED
    BY <1>5, <1>8, <2>1, <2>2
<1>10. ASSUME NEW o \in Ports, NEW l \in Waiting(o)
       PROVE  l \in Waiting(o)' \/ chan'[l].end["s"] # "open"
  <2>1. survivors => l \in Waiting(o)'
    BY <1>1 DEF Waiting
  <2> QED
    BY <1>5, <1>8, <2>1
<1>11. ASSUME NEW l \in Conns, chan[l].port = "none"
       PROVE  chan'[l] = chan[l]
  <2>1. l \notin S /\ l \notin W
    BY <1>11 DEF IInv, Held, OnlyHeldBy, Waiting, Ports
  <2> QED
    BY <1>5, <2>1
<1> HIDE DEF S
<1> QED
  BY <1>2, <1>5, <1>6, <1>7, <1>9, <1>10, <1>11 DEF S

(* and a death keeps it.                                                    *)
LEMMA DieKept ==
    ASSUME PInv, NEW p \in Procs, Serving(p), Die(p), UNCHANGED cl
    PROVE  ConnsInv' /\ ProcsInv' /\ ClientsInv'
<1> DEFINE k == proc[p].clntSock
<1>1. /\ proc'[p].pc = "dead" /\ fds'[p] = {}
      /\ \A r \in Procs \ {p} : proc'[r] = proc[r] /\ fds'[r] = fds[r]
      /\ \A l \in Conns : Shut(chan'[l], chan[l])
      /\ \A l \in OnlyHeldBy(p) : chan'[l].end["s"] # "open"
      /\ \A r \in Procs \ {p} : \A l \in fds[r] : chan'[l] = chan[l]
      /\ \A o \in Ports : \A l \in Waiting(o)' : l \in Waiting(o) /\ chan'[l] = chan[l]
      /\ \A o \in Ports : \A l \in Waiting(o) :
           l \in Waiting(o)' \/ chan'[l].end["s"] # "open"
      /\ \A l \in Conns : chan[l].port = "none" => chan'[l] = chan[l]
  BY DieShuts DEF PInv
<1>2. chan'[k].end["s"] # "open"
  <2>1. k \in OnlyHeldBy(p)
    BY SocksApart DEF PInv, ProcsInv, Sole, OnlyHeldBy
  <2> QED
    BY <1>1, <2>1
<1>3. \A r \in Procs : fds'[r] \subseteq fds[r]
  BY <1>1
<1>4. ~ Serving(p)' /\ ~ Transferring(p)' /\ ~ At(p, "session")'
  BY <1>1, PcServes DEF ServingPc, TransferPc, Commands, At
<1>5. ConnsInv'
  <2>1. Unmade'
    BY <1>1 DEF PInv, ConnsInv, Unmade, Shut
  <2>2. \A l \in Conns : PiOpen(l)'
    BY <1>1 DEF PInv, ConnsInv, PiOpen, Running, Shut
  <2>3. \A l \in Waiting("pi")' : Coming(l)'
    BY <1>1 DEF PInv, ConnsInv, Coming, OnWay, Running, Ports
  <2> QED
    BY <2>1, <2>2, <2>3 DEF ConnsInv
<1>6. ASSUME NEW r \in Procs \ {p}
      PROVE  Sole(r)' /\ Ready(r)' /\ InTouch(r)'
  <2>1. /\ proc'[r] = proc[r] /\ fds'[r] = fds[r]
        /\ Sole(r) /\ Ready(r) /\ InTouch(r)
    BY <1>1 DEF PInv, ProcsInv
  <2>2. /\ Serving(r)' <=> Serving(r)
        /\ Transferring(r)' <=> Transferring(r)
        /\ At(r, "session") => Serving(r)
    BY <2>1, PcServes DEF At, ServingPc
  <2>3. Serving(r) => chan'[proc[r].clntSock] = chan[proc[r].clntSock]
    BY <1>1, SocksApart DEF PInv
  <2>4. Sole(r)'
    BY <1>3, <2>1, <2>2 DEF Sole
  <2>5. Fresh(r) => Fresh(r)'
    BY <1>3, <2>1 DEF Fresh
  <2>6. Ready(r)'
    BY <2>1, <2>2, <2>3, <2>5 DEF Ready, OnWay, Ahead, At, Running
  <2>7. InTouch(r)'
    BY <2>1, <2>2, <2>3 DEF InTouch, At, Running
  <2> QED
    BY <2>4, <2>6, <2>7
<1>7. ASSUME NEW r \in Procs
      PROVE  Sole(r)' /\ Ready(r)' /\ InTouch(r)'
  <2>1. CASE r = p
    BY <1>4, <2>1 DEF Sole, Ready, InTouch
  <2> QED
    BY <1>6, <2>1
<1>8. ASSUME NEW c \in Clients
      PROVE  Tied(c)' /\ Answered(c)' /\ Greeting(c)'
  <2>1. Tied(c) /\ Answered(c) /\ Greeting(c)
    BY DEF PInv, ClientsInv
  <2>2. Tied(c)'
    BY <1>1, <2>1 DEF Tied, Owned, Aimed, Attached, Shut
  <2>3. Answered(c)'
    <3> DEFINE l == cl[c].sock
    <3> SUFFICES ASSUME Running(c), l \in Conns
                 PROVE  Answered(c)'
      BY DEF Answered, Running
    <3>1. Shut(chan'[l], chan[l]) /\ Due(cl[c].pc, chan'[l].in["c"])
      BY <1>1, <2>1 DEF Answered, Shut
    <3>2. chan'[l].end["s"] # "open" => chan'[l].in["s"] = <<>>
      BY <2>1, <3>1 DEF Answered, Shut
    <3>3. ASSUME chan'[l].end["s"] = "open"
          PROVE  \/ l \in Waiting("pi")'
                 \/ \E r \in Procs : Serving(r)' /\ proc'[r].clntSock = l
                 \/ CAt(c, "quitR") /\ chan'[l].in["s"] = <<>> /\ Is(chan'[l].in["c"], "221")
      <4>1. chan'[l] = chan[l]
        BY <3>1, <3>3 DEF Shut
      <4>2. l \in Waiting("pi") => l \in Waiting("pi")'
        BY <1>1, <3>3 DEF Ports
      <4>3. \A r \in Procs : Serving(r) /\ proc[r].clntSock = l =>
              Serving(r)' /\ proc'[r].clntSock = l
        BY <1>1, <1>2, <3>3, PcServes
      <4> QED
        BY <2>1, <3>3, <4>1, <4>2, <4>3 DEF Answered
    <3> QED
      BY <3>1, <3>2, <3>3 DEF Answered, CAt
  <2>4. Knocks(cl[c].dtpSock)' =>
          Knocks(cl[c].dtpSock) /\ chan'[cl[c].dtpSock] = chan[cl[c].dtpSock]
    <3>1. ASSUME NEW r \in Procs, At(r, "dtphello")'
          PROVE  At(r, "dtphello") /\ proc'[r].clntDtpSock = proc[r].clntDtpSock
                 /\ chan'[proc[r].clntDtpSock] = chan[proc[r].clntDtpSock]
      <4>1. r # p
        BY <1>1, <3>1 DEF At
      <4>2. proc'[r] = proc[r] /\ At(r, "dtphello")
        BY <1>1, <3>1, <4>1 DEF At
      <4>3. Fresh(r)
        BY <4>2 DEF At, Transferring, PInv, ProcsInv, Ready
      <4> QED
        BY <1>1, <4>1, <4>2, <4>3 DEF Fresh
    <3> QED
      BY <1>1, <3>1 DEF Knocks, Ports
  <2>5. ASSUME NEW r \in Procs, At(r, "dtphi")', proc'[r].clntDtpSock = cl[c].dtpSock,
               Running(c)
        PROVE  CAt(c, "dtphi") /\ chan'[cl[c].dtpSock].in["c"] = <<>>
    <3>1. r # p /\ proc'[r] = proc[r]
      BY <1>1, <2>5 DEF At
    <3>2. CAt(c, "dtphi") /\ chan[cl[c].dtpSock].in["c"] = <<>>
      BY <2>1, <2>5, <3>1 DEF Greeting, At
    <3>3. cl[c].dtpSock \in Conns
      BY <2>1, <3>2 DEF Tied, Attached, CAt, WithData
    <3> QED
      BY <1>1, <3>2, <3>3 DEF Shut
  <2>6. Greeting(c)'
    BY <2>1, <2>4, <2>5 DEF Greeting, Running, CAt
  <2> QED
    BY <2>2, <2>3, <2>6
<1> QED
  BY <1>5, <1>7, <1>8 DEF ProcsInv, ClientsInv

-----------------------------------------------------------------------------
(* A step of a client c changes nothing for the others: their connections,  *)
(* and who waits, are as before.                                            *)
Beside(c) ==
    /\ UNCHANGED <<proc, fds>>
    /\ \A e \in Clients \ {c} : cl'[e] = cl[e]
    /\ \A l \in Conns : l[1] # c =>
         chan'[l] = chan[l] /\ \A o \in Ports : l \in Waiting(o)' <=> l \in Waiting(o)

(* Who waits, and who is spoken to, is a connection.                        *)
LEMMA WaitingConns ==
    ASSUME IInv, NEW o \in Ports
    PROVE  Waiting(o) \subseteq Conns /\ \A l \in Waiting(o) :
             chan[l].port = o /\ chan[l].end["s"] = "open" /\ \A p \in Procs : l \notin fds[p]
BY DEF IInv, TypeOK, SocketsType, Waiting, Held

(* A data connection in its handshake is an open one.                       *)
LEMMA KnocksConns ==
    ASSUME IInv, ProcsInv, NEW d, Knocks(d) \/ \E p \in Procs : At(p, "dtphi") /\ proc[p].clntDtpSock = d
    PROVE  d \in Conns /\ chan[d].end["s"] = "open" /\ chan[d].port = "dtp"
<1>1. CASE d \in Waiting("dtp")
  BY <1>1, WaitingConns DEF Ports
<1>2. ASSUME NEW p \in Procs, At(p, "dtphello") \/ At(p, "dtphi"), proc[p].clntDtpSock = d
      PROVE  d \in Conns /\ chan[d].end["s"] = "open" /\ chan[d].port = "dtp"
  <2>1. Fresh(p)
    BY <1>2 DEF ProcsInv, Ready, Transferring, At
  <2>2. d \in fds[p] /\ d \in Conns
    BY <1>2, <2>1 DEF Fresh, IInv, TypeOK, ServerType
  <2> QED
    BY <1>2, <2>2 DEF IInv, Held, Apart
<1> QED
  BY <1>1, <1>2 DEF Knocks

(* A step of c keeps the invariant for everybody else.                      *)
LEMMA OthersKept ==
    ASSUME PInv, IInv', NEW c \in Clients, Beside(c)
    PROVE  /\ \A l \in Conns : l[1] # c => PiOpen(l)'
           /\ \A l \in Waiting("pi")' : l \in Conns /\ l[1] # c => Coming(l)'
           /\ \A p \in Procs : Sole(p)' /\ (Fresh(p)' <=> Fresh(p))
                               /\ (Serving(p)' <=> Serving(p))
                               /\ (Transferring(p)' <=> Transferring(p))
           /\ \A p \in Procs : Serving(p) /\ proc[p].clntSock[1] # c => Ready(p)' /\ InTouch(p)'
           /\ \A e \in Clients \ {c} : Tied(e)' /\ Answered(e)' /\ Greeting(e)'
<1>1. /\ proc' = proc /\ fds' = fds
      /\ \A e \in Clients \ {c} : cl'[e] = cl[e]
      /\ \A l \in Conns : l[1] # c => chan'[l] = chan[l]
  BY DEF Beside
<1>2. \A l \in Conns : \A o \in Ports : l[1] # c => (l \in Waiting(o)' <=> l \in Waiting(o))
  BY DEF Beside
<1>3. \A l \in Conns : l[1] \in Clients
  BY DEF Conns
<1>4. \A l \in Conns : l[1] # c => PiOpen(l)'
  BY <1>1, <1>3 DEF PInv, ConnsInv, PiOpen, Running
<1>5. ASSUME NEW l \in Waiting("pi")', l \in Conns, l[1] # c
      PROVE  Coming(l)'
  <2>1. Coming(l)
    BY <1>2, <1>5 DEF PInv, ConnsInv, Ports
  <2> QED
    BY <1>1, <1>3, <1>5, <2>1 DEF Coming, OnWay, Running
<1>6. ASSUME NEW p \in Procs
      PROVE  /\ Sole(p)' /\ (Fresh(p)' <=> Fresh(p))
             /\ (Serving(p)' <=> Serving(p))
             /\ (Transferring(p)' <=> Transferring(p))
  <2>1. /\ Serving(p)' <=> Serving(p)
        /\ Transferring(p)' <=> Transferring(p)
    BY <1>1, PcServes
  <2> QED
    BY <1>1, <2>1 DEF Sole, Fresh, PInv, ProcsInv
<1>7. ASSUME NEW p \in Procs, Serving(p), proc[p].clntSock[1] # c
      PROVE  Ready(p)' /\ InTouch(p)'
  <2> DEFINE k == proc[p].clntSock
  <2>1. k \in Conns /\ k[1] \in Clients \ {c}
    BY <1>3, <1>7, SocksApart DEF PInv
  <2>2. chan'[k] = chan[k] /\ cl'[k[1]] = cl[k[1]] /\ proc' = proc
    BY <1>1, <1>7, <2>1
  <2>3. Ready(p) /\ InTouch(p)
    BY DEF PInv, ProcsInv
  <2>4. Ready(p)'
    BY <1>6, <2>2, <2>3 DEF Ready, OnWay, Ahead, At, Running
  <2>5. InTouch(p)'
    BY <1>6, <2>2, <2>3 DEF InTouch, At, Running
  <2> QED
    BY <2>4, <2>5
<1>8. ASSUME NEW e \in Clients \ {c}
      PROVE  Tied(e)' /\ Answered(e)' /\ Greeting(e)'
  <2> DEFINE k == cl[e].sock
             d == cl[e].dtpSock
  <2>1. Tied(e) /\ Answered(e) /\ Greeting(e) /\ cl'[e] = cl[e]
    BY <1>1 DEF PInv, ClientsInv
  <2>2. /\ k \in Conns => k[1] # c /\ chan'[k] = chan[k]
        /\ d \in Conns => d[1] # c /\ chan'[d] = chan[d]
    BY <1>1, <2>1 DEF Tied, Owned
  <2>3. Tied(e)'
    BY <2>1, <2>2 DEF Tied, Owned, Aimed, Attached
  <2>4. Answered(e)'
    <3>1. k \in Conns => (k \in Waiting("pi")' <=> k \in Waiting("pi"))
      BY <1>2, <2>2 DEF Ports
    <3> QED
      BY <1>1, <1>6, <2>1, <2>2, <3>1 DEF Answered, Running, CAt
  <2>5. Greeting(e)'
    <3>1. CASE d \in Conns
      <4>1. d \in Waiting("dtp")' <=> d \in Waiting("dtp")
        BY <1>2, <2>2, <3>1 DEF Ports
      <4>2. Knocks(d)' <=> Knocks(d)
        BY <1>1, <4>1 DEF Knocks, At
      <4> QED
        BY <1>1, <2>1, <2>2, <3>1, <4>2 DEF Greeting, Running, CAt, At
    <3>2. CASE d \notin Conns
      <4>1. Running(e) => ~ CAt(e, "dtphello") /\ ~ CAt(e, "dtphi")
        BY <2>1, <3>2 DEF Tied, Attached, WithData, CAt
      <4>2. \A p \in Procs : At(p, "dtphello") \/ At(p, "dtphi") => proc[p].clntDtpSock \in Conns
        BY KnocksConns DEF PInv, Knocks
      <4>3. d \notin Waiting("dtp")'
        <5>1. IInv' => d \notin Waiting("dtp")'
          BY <3>2 DEF IInv, TypeOK, SocketsType, Waiting, Ports
        <5> QED
          BY <5>1
      <4> QED
        BY <1>1, <2>1, <3>2, <4>2, <4>3 DEF Greeting, Knocks, Running, CAt, At
    <3> QED
      BY <3>1, <3>2
  <2> QED
    BY <2>3, <2>4, <2>5
<1> QED
  BY <1>4, <1>5, <1>6, <1>7, <1>8

(* A move of the client, and the commands for a transfer: what is on its    *)
(* way or next had been so before, and only where a process expects it.     *)
LEMMA PairedOnWay ==
    ASSUME NEW cpc, NEW spc, NEW u, NEW w, Paired(cpc, spc, u, w),
           \E t \in Transfers : Is(u, t)
    PROVE  spc \in {"session", "dtpaccept", "dtphello", "dtphi"}
<1>1. PICK t \in Transfers : Is(u, t)
  OBVIOUS
<1>2. u # <<>> /\ u[1].t = t
  BY <1>1, IsOne
<1>3. \A s \in {"hello", "User", "text", "SIZE"} : ~ Is(u, s)
  BY <1>2, IsOne DEF Transfers
<1>4. u # <<Word("hello")>>
  BY <1>3, WordIs
<1> QED
  BY <1>2, <1>3, <1>4 DEF Paired, Meeting, Arriving, Asking, Echoing, Joining,
     Listing, Fetching, Storing, Silent

(* What is ahead of a process after a move of its client was so before.     *)
LEMMA ClientAhead ==
    ASSUME NEW cpc, NEW u, NEW w, NEW cpc2, NEW u2, NEW w2, NEW spc,
           Paired(cpc, spc, u, w), ClientTalk(TRUE, cpc, u, w, cpc2, u2, w2),
           \/ \E t \in Transfers : Is(u2, t)
           \/ cpc2 \in {"connect", "dtphello", "dtphi", "LIST", "RETR", "STOR"}
           \/ cpc2 = "addr" /\ w2 # <<>>
    PROVE  \/ \E t \in Transfers : Is(u, t)
           \/ cpc \in {"connect", "dtphello", "dtphi", "LIST", "RETR", "STOR"}
           \/ cpc = "addr" /\ w # <<>>
<1>1. ASSUME NEW s \in Texts, Requests(cpc, s, cpc2), Grown(u, s, u2), w2 = w,
             cpc \notin {"LIST", "RETR", "STOR"}
      PROVE  FALSE
  <2>1. u = <<>> /\ w = <<>> /\ s \notin Transfers
    BY <1>1 DEF Requests, Transfers, Paired, Meeting, Arriving, Asking, Asks, Concludes, Echoing,
       Joining, Orders, Listing, Fetching, Storing, Silent
  <2>2. Is(u2, s)
    BY <1>1, <2>1 DEF Grown
  <2>3. u2[1].t = s
    BY <2>2, IsOne
  <2>4. \A t \in Transfers : ~ Is(u2, t)
    BY <2>1, <2>3, IsOne
  <2> QED
    BY <1>1, <2>1, <2>4 DEF Requests
<1>2. CASE Reads(cpc, cpc2) /\ Shrunk(w, w2) /\ u2 = u
  BY <1>2 DEF Reads, Shrunk
<1>3. CASE Turns(cpc, cpc2) /\ u2 = u /\ w2 = w
  BY <1>3 DEF Turns
<1> QED
  BY <1>1, <1>2, <1>3 DEF ClientTalk

(* A connection that arrives has at most the hello on it.                   *)
LEMMA ArrivingBrief ==
    ASSUME NEW cpc, NEW u, NEW w, Arriving(cpc, u, w)
    PROVE  AtMostOne(u) /\ \A t \in Transfers : ~ Is(u, t)
<1>1. Is(<<Word("hello")>>, "hello") /\ "hello" \in Texts
  BY WordIs DEF Texts
<1>2. u = <<>> \/ (Is(u, "hello") /\ u[1].t = "hello")
  BY <1>1, IsOne DEF Arriving
<1>3. \A t \in Transfers : ~ Is(u, t)
  BY <1>2, IsOne DEF Transfers
<1> QED
  BY <1>1, <1>2, <1>3 DEF AtMostOne

(* What Runs says of one client c, its connections k and d.                 *)
LEMMA RunsBeside ==
    ASSUME PInv, NEW c \in Clients, Runs(c)
    PROVE  /\ Beside(c) /\ Running(c) /\ Running(c)' /\ \A o : Waiting(o)' = Waiting(o)
           /\ cl[c].sock \in Conns => cl[c].sock[1] = c /\ chan[cl[c].sock].port = "pi"
           /\ cl[c].dtpSock \in Conns => cl[c].dtpSock[1] = c /\ chan[cl[c].dtpSock].port = "dtp"
           /\ \A l \in Conns : l # cl[c].sock /\ chan[l].port # "dtp" => chan'[l] = chan[l]
<1>1. Tied(c) /\ Owned(c)
  BY DEF PInv, ClientsInv, Tied
<1>2. /\ cl[c].sock \in Conns => cl[c].sock[1] = c /\ chan[cl[c].sock].port = "pi"
      /\ cl[c].dtpSock \in Conns => cl[c].dtpSock[1] = c /\ chan[cl[c].dtpSock].port = "dtp"
  BY <1>1 DEF Owned
<1>3. /\ UNCHANGED <<proc, fds, backlog>>
      /\ \A e \in Clients \ {c} : cl'[e] = cl[e]
      /\ \A l \in Conns \ {cl[c].sock, cl[c].dtpSock} : chan'[l] = chan[l]
      /\ Running(c) /\ cl'[c].pc \notin {"exit", "dead"}
  BY DEF Runs
<1>4. \A o : Waiting(o)' = Waiting(o)
  BY <1>3 DEF Waiting
<1>5. Beside(c)
  BY <1>2, <1>3, <1>4 DEF Beside
<1> QED
  BY <1>2, <1>3, <1>4, <1>5 DEF Running

(* A move of a client keeps the invariant of the connections,               *)
LEMMA RunsConns ==
    ASSUME PInv, IInv', NEW c \in Clients, Runs(c)
    PROVE  ConnsInv'
<1> DEFINE k == cl[c].sock
           d == cl[c].dtpSock
           cpc == cl[c].pc
           cpc2 == cl'[c].pc
           u == chan[k].in["s"]
           w == chan[k].in["c"]
           u2 == chan'[k].in["s"]
           w2 == chan'[k].in["c"]
<1>1. /\ Beside(c) /\ Running(c) /\ \A o : Waiting(o)' = Waiting(o)
      /\ k \in Conns => k[1] = c /\ chan[k].port = "pi"
      /\ d \in Conns => d[1] = c /\ chan[d].port = "dtp"
      /\ \A l \in Conns : l # k /\ chan[l].port # "dtp" => chan'[l] = chan[l]
  BY RunsBeside
<1>2. /\ cl'[c].sock = k
      /\ \A l \in Conns : chan'[l].port = chan[l].port
      /\ k \in Conns =>
           /\ chan'[k].end["c"] = "open" <=> chan[k].end["c"] = "open"
           /\ ClientTalk(chan[k].end["s"] = "open", cl[c].pc, chan[k].in["s"], chan[k].in["c"],
                         cl'[c].pc, chan'[k].in["s"], chan'[k].in["c"])
  BY DEF Runs
<1>3. Unmade'
  BY <1>1, <1>2 DEF PInv, ConnsInv, Unmade
<1>4. ASSUME NEW l \in Conns
      PROVE  PiOpen(l)'
  <2>1. CASE l[1] = c
    BY <1>1, <1>2, <2>1 DEF PInv, ConnsInv, PiOpen
  <2>2. CASE l[1] # c
    BY <1>1, <2>2, OthersKept
  <2> QED
    BY <2>1, <2>2
<1>5. ASSUME NEW l \in Waiting("pi")'
      PROVE  Coming(l)'
  <2>1. l \in Waiting("pi") /\ l \in Conns /\ chan[l].end["s"] = "open"
    BY <1>1, WaitingConns DEF PInv, Ports
  <2>2. CASE l[1] # c
    BY <1>1, <2>1, <2>2, OthersKept
  <2>3. CASE l[1] = c
    <3>1. k = l /\ Arriving(cl[c].pc, chan[k].in["s"], chan[k].in["c"])
      BY <1>1, <2>1, <2>3 DEF PInv, ConnsInv, Coming
    <3>2. ClientTalk(TRUE, cl[c].pc, chan[k].in["s"], chan[k].in["c"],
                     cl'[c].pc, chan'[k].in["s"], chan'[k].in["c"])
      <4>1. (chan[k].end["s"] = "open") = TRUE
        BY <2>1, <3>1
      <4> QED
        BY <1>2, <2>1, <3>1, <4>1
    <3>3. Arriving(cl'[c].pc, chan'[k].in["s"], chan'[k].in["c"])
      <4>1. Arriving(cpc, u, w) /\ ClientTalk(TRUE, cpc, u, w, cpc2, u2, w2)
        BY <3>1, <3>2
      <4> HIDE DEF cpc, cpc2, u, w, u2, w2
      <4>2. Arriving(cpc2, u2, w2)
        BY <4>1, ClientArrives
      <4> QED
        BY <4>2 DEF cpc2, u2, w2
    <3>4. AtMostOne(chan'[k].in["s"]) /\ \A t \in Transfers : ~ Is(chan'[k].in["s"], t)
      BY <3>3, ArrivingBrief
    <3> QED
      BY <1>2, <2>3, <3>1, <3>3, <3>4 DEF Coming, OnWay
  <2> QED
    BY <2>2, <2>3
<1> QED
  BY <1>3, <1>4, <1>5 DEF ConnsInv

(* of the processes                                                         *)
LEMMA RunsProcs ==
    ASSUME PInv, IInv', NEW c \in Clients, Runs(c)
    PROVE  ProcsInv'
<1> DEFINE k == cl[c].sock
           d == cl[c].dtpSock
           cpc == cl[c].pc
           cpc2 == cl'[c].pc
           u == chan[k].in["s"]
           w == chan[k].in["c"]
           u2 == chan'[k].in["s"]
           w2 == chan'[k].in["c"]
<1>1. /\ Beside(c) /\ Running(c) /\ Running(c)'
      /\ k \in Conns => k[1] = c /\ chan[k].port = "pi"
      /\ \A l \in Conns : l # k /\ chan[l].port # "dtp" => chan'[l] = chan[l]
  BY RunsBeside
<1>2. /\ cl'[c].sock = k /\ proc' = proc
      /\ k \in Conns =>
           ClientTalk(chan[k].end["s"] = "open", cpc, chan[k].in["s"], chan[k].in["c"],
                      cpc2, chan'[k].in["s"], chan'[k].in["c"])
  BY DEF Runs
<1>3. ASSUME NEW p \in Procs
      PROVE  Sole(p)' /\ Ready(p)' /\ InTouch(p)'
  <2> DEFINE l == proc[p].clntSock
             spc == proc[p].pc
  <2>1. /\ Sole(p)' /\ (Fresh(p)' <=> Fresh(p))
        /\ (Serving(p)' <=> Serving(p))
        /\ (Transferring(p)' <=> Transferring(p))
    BY <1>1, OthersKept
  <2>2. Ready(p) /\ InTouch(p)
    BY DEF PInv, ProcsInv
  <2>3. CASE ~ Serving(p)
    <3>1. ~ Transferring(p) /\ ~ At(p, "session")
      BY <2>3, PcServes DEF At, ServingPc, TransferPc, Commands
    <3> QED
      BY <1>2, <2>1, <2>3, <3>1 DEF Ready, InTouch, At
  <2>4. CASE Serving(p) /\ l[1] # c
    BY <1>1, <2>1, <2>4, OthersKept
  <2>5. CASE Serving(p) /\ l[1] = c /\ l # k
    <3>1. chan'[l] = chan[l]
      BY <1>1, <2>5, SocksApart DEF PInv
    <3>2. Ready(p)'
      BY <1>1, <1>2, <2>1, <2>2, <2>5, <3>1 DEF Ready, OnWay, Ahead, At
    <3>3. InTouch(p)'
      BY <1>1, <1>2, <2>1, <2>2, <2>5, <3>1 DEF InTouch, At
    <3> QED
      BY <2>1, <3>2, <3>3
  <2>6. CASE Serving(p) /\ l = k
    <3>1. k \in Conns /\ k[1] = c /\ chan[k].end["s"] = "open"
      BY <1>1, <2>6, SocksApart DEF PInv
    <3>2. Paired(cpc, spc, chan[k].in["s"], chan[k].in["c"])
      BY <1>1, <2>2, <2>6, <3>1 DEF InTouch
    <3>3. ClientTalk(TRUE, cpc, chan[k].in["s"], chan[k].in["c"],
                     cpc2, chan'[k].in["s"], chan'[k].in["c"])
      <4>1. (chan[k].end["s"] = "open") = TRUE
        BY <3>1
      <4> QED
        BY <1>2, <3>1, <4>1
    <3>4. Paired(cpc2, spc, chan'[k].in["s"], chan'[k].in["c"])
      <4>1. Paired(cpc, spc, u, w) /\ ClientTalk(TRUE, cpc, u, w, cpc2, u2, w2)
        BY <3>2, <3>3
      <4> HIDE DEF cpc, cpc2, spc, u, w, u2, w2
      <4>2. Paired(cpc2, spc, u2, w2)
        BY <4>1, ClientTalks
      <4> QED
        BY <4>2 DEF cpc2, spc, u2, w2
    <3>5. InTouch(p)'
      BY <1>2, <2>6, <3>1, <3>4 DEF InTouch
    <3>6. AtMostOne(chan'[k].in["s"])
      BY <3>4, PairedDue DEF AtMostOne
    <3>7. OnWay(k)' => spc \in {"session", "dtpaccept", "dtphello", "dtphi"}
      BY <1>2, <3>4, PairedOnWay DEF OnWay
    <3>8. At(p, "session") /\ (OnWay(k)' \/ Ahead(k)') => Fresh(p)
      <4> SUFFICES ASSUME At(p, "session"), OnWay(k)' \/ Ahead(k)'
                   PROVE  Fresh(p)
        OBVIOUS
      <4>1. \/ \E t \in Transfers : Is(chan'[k].in["s"], t)
            \/ cpc2 \in {"connect", "dtphello", "dtphi", "LIST", "RETR", "STOR"}
            \/ cpc2 = "addr" /\ chan'[k].in["c"] # <<>>
        BY <1>2, <3>1 DEF OnWay, Ahead
      <4>2. \/ \E t \in Transfers : Is(chan[k].in["s"], t)
            \/ cpc \in {"connect", "dtphello", "dtphi", "LIST", "RETR", "STOR"}
            \/ cpc = "addr" /\ chan[k].in["c"] # <<>>
        <5> HIDE DEF cpc, cpc2, spc, k
        <5> QED
          BY <3>2, <3>3, <4>1, ClientAhead
      <4>3. OnWay(k) \/ Ahead(k)
        BY <1>1, <3>1, <4>2 DEF OnWay, Ahead
      <4> QED
        BY <2>2, <2>6, <4>3 DEF Ready
    <3>9. Ready(p)'
      BY <1>2, <2>1, <2>2, <2>6, <3>6, <3>7, <3>8 DEF Ready, At
    <3> QED
      BY <2>1, <3>5, <3>9
  <2> QED
    BY <2>3, <2>4, <2>5, <2>6
<1> QED
  BY <1>3 DEF ProcsInv

(* A client that transfers had its data connection before this move.        *)
LEMMA TalkAttached ==
    ASSUME NEW live, NEW cpc, NEW u, NEW w, NEW cpc2, NEW u2, NEW w2,
           ClientTalk(live, cpc, u, w, cpc2, u2, w2), cpc2 \in WithData, cpc # "connect"
    PROVE  cpc \in WithData
BY DEF ClientTalk, Requests, Reads, Turns, WithData

(* and of the clients.                                                      *)
LEMMA RunsClients ==
    ASSUME PInv, IInv', NEW c \in Clients, Runs(c)
    PROVE  ClientsInv'
<1> DEFINE k == cl[c].sock
           d == cl[c].dtpSock
           cpc == cl[c].pc
           cpc2 == cl'[c].pc
           u == chan[k].in["s"]
           w == chan[k].in["c"]
           u2 == chan'[k].in["s"]
           w2 == chan'[k].in["c"]
           live == chan[k].end["s"] = "open"
<1>1. /\ Beside(c) /\ Running(c) /\ Running(c)' /\ \A o : Waiting(o)' = Waiting(o)
      /\ k \in Conns => k[1] = c /\ chan[k].port = "pi"
      /\ d \in Conns => d[1] = c /\ chan[d].port = "dtp"
      /\ \A l \in Conns : l # k /\ chan[l].port # "dtp" => chan'[l] = chan[l]
  BY RunsBeside
<1>2. /\ cl'[c].sock = k /\ cl'[c].dtpSock = d /\ Aims(cl'[c]) /\ proc' = proc
      /\ cpc # "connect"
      /\ \A l \in Conns : chan'[l].port = chan[l].port
                          /\ (chan'[l].end["s"] = "open" <=> chan[l].end["s"] = "open")
      /\ k \notin Conns => cpc2 = "prompt"
      /\ k \in Conns => ClientTalk(live, cpc, u, w, cpc2, u2, w2)
      /\ cpc2 \in WithData => (chan'[d].end["c"] = "open" <=> chan[d].end["c"] = "open")
      /\ cpc = "dtphello" => /\ chan'[d].in["c"] = chan[d].in["c"]
                             /\ chan[d].end["s"] = "open" /\ chan[d].in["s"] = <<>> =>
                                  chan'[d].in["s"] = <<Word("hello")>>
      /\ cpc = "dtphi" => chan[d].in["c"] # <<>> \/ chan[d].end["s"] # "open"
  BY DEF Runs
<1>3. Tied(c) /\ Answered(c) /\ Greeting(c)
  BY DEF PInv, ClientsInv
<1>4. Tied(c)'
  <2>1. cpc2 \in WithData => cpc \in WithData
    <3>1. k \notin Conns => cpc2 \notin WithData
      BY <1>2 DEF WithData
    <3> HIDE DEF k, cpc, cpc2, u, w, u2, w2, live
    <3> QED
      BY <1>2, <3>1, TalkAttached
  <2>2. Attached(c)'
    BY <1>2, <1>3, <2>1 DEF Tied, Attached
  <2>3. Owned(c)'
    BY <1>2, <1>3 DEF Tied, Owned
  <2> QED
    BY <1>2, <2>2, <2>3 DEF Tied, Aimed
<1>5. Answered(c)'
  <2> SUFFICES ASSUME k \in Conns PROVE Answered(c)'
    BY <1>2 DEF Answered
  <2>1. Due(cpc, w)
    BY <1>1, <1>3 DEF Answered
  <2>2. Due(cpc2, w2)
    <3>1. ClientTalk(live, cpc, u, w, cpc2, u2, w2)
      BY <1>2
    <3> HIDE DEF cpc, cpc2, u, w, u2, w2, live
    <3> QED
      BY <2>1, <3>1, ClientDue
  <2>3. ~ live => u2 = <<>>
    <3>1. ~ live => u = <<>>
      BY <1>1, <1>3 DEF Answered
    <3>2. ~ live => u2 = u
      <4>1. ClientTalk(live, cpc, u, w, cpc2, u2, w2)
        BY <1>2
      <4> HIDE DEF cpc, cpc2, u, w, u2, w2, live
      <4> QED
        BY <4>1 DEF ClientTalk
    <3> QED
      BY <3>1, <3>2
  <2>4. cpc # "quitR"
    <3>1. ClientTalk(live, cpc, u, w, cpc2, u2, w2)
      BY <1>2
    <3> QED
      BY <3>1 DEF ClientTalk, Requests, Reads, Turns
  <2>5. live => \/ k \in Waiting("pi")'
                \/ \E p \in Procs : Serving(p)' /\ proc'[p].clntSock = k
    <3>1. \A p \in Procs : Serving(p)' <=> Serving(p)
      BY <1>1, OthersKept
    <3> QED
      BY <1>1, <1>2, <1>3, <2>4, <3>1 DEF Answered, CAt
  <2>6. chan'[k].end["s"] = "open" <=> live
    BY <1>2
  <2> QED
    BY <1>2, <2>2, <2>3, <2>5, <2>6 DEF Answered
<1>6. Greeting(c)'
  <2>1. Knocks(d)' <=> Knocks(d)
    BY <1>1, <1>2 DEF Knocks, At
  <2>2. \A p \in Procs : At(p, "dtphi")' <=> At(p, "dtphi")
    BY <1>2 DEF At
  <2>3. ASSUME NEW p \in Procs, At(p, "dtphi"), proc[p].clntDtpSock = d
        PROVE  FALSE
    <3>1. CAt(c, "dtphi") /\ chan[d].in["c"] = <<>>
      BY <1>1, <1>3, <2>3 DEF Greeting
    <3>2. chan[d].end["s"] = "open"
      BY <2>3, KnocksConns DEF PInv
    <3> QED
      BY <1>2, <3>1, <3>2 DEF CAt
  <2>4. ASSUME Knocks(d)
        PROVE  /\ chan'[d].in["c"] = <<>>
               /\ cpc2 = "dtphi" /\ chan'[d].in["s"] = <<Word("hello")>>
    <3>1. d \in Conns /\ chan[d].end["s"] = "open"
      BY <2>4, KnocksConns DEF PInv
    <3>2. /\ chan[d].in["c"] = <<>>
          /\ cpc = "dtphello" /\ chan[d].in["s"] = <<>>
      BY <1>1, <1>2, <1>3, <2>4, <3>1 DEF Greeting, CAt
    <3>3. cpc2 = "dtphi"
      <4>1. k \in Conns
        BY <3>2 DEF PInv, IInv, Joined
      <4>2. ClientTalk(live, cpc, u, w, cpc2, u2, w2)
        BY <1>2, <4>1
      <4> QED
        BY <3>2, <4>2 DEF ClientTalk, Requests, Reads, Turns
    <3> QED
      BY <1>2, <3>1, <3>2, <3>3
  <2> QED
    BY <1>2, <2>1, <2>2, <2>3, <2>4 DEF Greeting, CAt
<1>7. \A e \in Clients \ {c} : Tied(e)' /\ Answered(e)' /\ Greeting(e)'
  BY <1>1, OthersKept
<1> QED
  BY <1>4, <1>5, <1>6, <1>7 DEF ClientsInv

(* What making a connection changes: there is one more, empty and waiting.  *)
Makes(c, q) ==
    LET l == NewConn(c) IN
    /\ l \in Conns /\ l[1] = c /\ chan[l].port = "none" /\ chan'[l].port = q
    /\ chan'[l].in = chan[l].in /\ chan'[l].end = chan[l].end
    /\ chan[l].end["s"] = "open" /\ chan[l].end["c"] = "open"
    /\ chan[l].in["s"] = <<>> /\ chan[l].in["c"] = <<>>
    /\ \A m \in Conns \ {l} : chan'[m] = chan[m]
    /\ Waiting(q)' = Waiting(q) \cup {l}
    /\ \A o \in Ports \ {q} : Waiting(o)' = Waiting(o)
    /\ Beside(c)

(* So it is with open and with the connect of passive mode.                 *)
LEMMA NewMakes ==
    ASSUME PInv, NEW c \in Clients, NEW q \in Ports, UNCHANGED <<proc, fds>>,
           \A e \in Clients \ {c} : cl'[e] = cl[e],
           NewConn(c) \in Conns, chan[NewConn(c)].port = "none",
           chan' = [chan EXCEPT ![NewConn(c)].port = q],
           backlog' = [backlog EXCEPT ![q] = Append(@, NewConn(c))]
    PROVE  Makes(c, q)
<1> DEFINE l == NewConn(c)
<1>1. l[1] = c
  BY DEF NewConn
<1>2. chan \in [Conns -> Channel] /\ backlog[q] \in Seq(Conns) /\ l \in Conns
      /\ backlog \in [Ports -> Seq(Conns)]
  BY DEF PInv, IInv, TypeOK, SocketsType
<1> HIDE DEF l
<1>3. /\ chan'[l].port = q /\ chan'[l].in = chan[l].in /\ chan'[l].end = chan[l].end
      /\ \A m \in Conns \ {l} : chan'[m] = chan[m]
  BY <1>2 DEF l, Channel
<1>4. /\ chan[l].end["s"] = "open" /\ chan[l].end["c"] = "open"
      /\ chan[l].in["s"] = <<>> /\ chan[l].in["c"] = <<>>
  BY <1>2 DEF l, PInv, IInv, Held, ConnsInv, Unmade
<1>5. backlog'[q] = Append(backlog[q], l) /\ \A o \in Ports \ {q} : backlog'[o] = backlog[o]
  BY <1>2 DEF l
<1>6. Waiting(q)' = Waiting(q) \cup {l}
  <2> DEFINE b == backlog[q]
             b2 == Append(b, l)
  <2>1. /\ Len(b2) = Len(b) + 1 /\ b2[Len(b) + 1] = l /\ Len(b) \in Nat
        /\ \A i \in 1..Len(b) : b2[i] = b[i]
    BY <1>2
  <2> HIDE DEF b, b2
  <2>2. 1..Len(b2) = (1..Len(b)) \cup {Len(b) + 1}
    BY <2>1
  <2>3. {b2[i] : i \in 1..Len(b2)} = {b[i] : i \in 1..Len(b)} \cup {l}
    BY <2>1, <2>2
  <2> QED
    BY <1>5, <2>3 DEF Waiting, b, b2
<1>7. \A o \in Ports \ {q} : Waiting(o)' = Waiting(o)
  BY <1>5 DEF Waiting
<1>8. Beside(c)
  <2>1. \A m \in Conns : m[1] # c => m # l
    BY <1>1 DEF l
  <2>2. \A m \in Conns, o \in Ports : m # l => (m \in Waiting(o)' <=> m \in Waiting(o))
    BY <1>6, <1>7
  <2> QED
    BY <1>3, <2>1, <2>2 DEF Beside
<1>9. l[1] = c
  BY <1>1 DEF l
<1> QED
  BY <1>2, <1>3, <1>4, <1>6, <1>7, <1>8, <1>9 DEF Makes, l

(* What the others hold is not the new connection.                          *)
LEMMA MadeElsewhere ==
    ASSUME PInv, NEW c \in Clients, NEW q \in Ports, Makes(c, q)
    PROVE  /\ \A p \in Procs : Serving(p) =>
                proc[p].clntSock # NewConn(c) /\ chan'[proc[p].clntSock] = chan[proc[p].clntSock]
           /\ \A p \in Procs : proc[p].clntDtpSock # NewConn(c)
           /\ cl[c].sock # NewConn(c) /\ cl[c].dtpSock # NewConn(c)
           /\ cl[c].sock \in Conns => chan'[cl[c].sock] = chan[cl[c].sock]
           /\ cl[c].dtpSock \in Conns => chan'[cl[c].dtpSock] = chan[cl[c].dtpSock]
<1> DEFINE l == NewConn(c)
<1>1. l \in Conns /\ chan[l].port = "none" /\ \A m \in Conns \ {l} : chan'[m] = chan[m]
  BY DEF Makes
<1> HIDE DEF l
<1>2. ASSUME NEW p \in Procs, Serving(p)
      PROVE  proc[p].clntSock # l /\ chan'[proc[p].clntSock] = chan[proc[p].clntSock]
  BY <1>1, <1>2, SocksApart DEF PInv
<1>3. \A p \in Procs : proc[p].clntDtpSock # l
  BY <1>1 DEF PInv, IInv, Apart
<1>4. Owned(c)
  BY DEF PInv, ClientsInv, Tied
<1> QED
  BY <1>1, <1>2, <1>3, <1>4 DEF Owned, l

(* An empty connection has at most one text on it.                          *)
LEMMA EmptyBrief == AtMostOne(<<>>) /\ \A t : ~ Is(<<>>, t)
BY EmptyIsNone DEF AtMostOne

(* At the prompt the server has finished, before the data connection is     *)
(* made it has not begun with it.                                           *)
LEMMA PairedPrompt ==
    ASSUME NEW spc, NEW u, NEW w, Paired("prompt", spc, u, w)
    PROVE  spc = "session" /\ u = <<>> /\ w = <<>>
BY DEF Paired, Meeting, Arriving, Asking, Asks, Concludes, Echoing, Joining, Orders, Listing,
   Fetching, Storing, Silent

(* A data connection that is made changes nothing between the two.          *)
LEMMA PairedConnect ==
    ASSUME NEW spc, NEW u, NEW w, Paired("connect", spc, u, w)
    PROVE  Paired("dtphello", spc, u, w)
BY DEF Paired, Meeting, Arriving, Asking, Asks, Concludes, Echoing, Joining, Orders, Listing,
   Fetching, Storing, Silent

(* open keeps the invariant,                                                *)
LEMMA OpensKept ==
    ASSUME PInv, IInv', NEW c \in Clients, Opens(c)
    PROVE  ConnsInv' /\ ProcsInv' /\ ClientsInv'
<1> DEFINE l == NewConn(c)
<1>1. /\ CAt(c, "prompt") /\ proc' = proc
      /\ \A e \in Clients \ {c} : cl'[e] = cl[e]
      /\ cl'[c].pc = "hello" /\ cl'[c].sock = l /\ cl'[c].dtpSock = cl[c].dtpSock
  BY DEF Opens, PInv, IInv, TypeOK, ClientType, Client
<1>2. Makes(c, "pi")
  BY <1>1, NewMakes DEF Opens, Ports
<1>3. /\ l \in Conns /\ l[1] = c /\ chan[l].port = "none" /\ chan'[l].port = "pi"
      /\ chan'[l].end["s"] = "open" /\ chan'[l].end["c"] = "open"
      /\ chan'[l].in["s"] = <<>> /\ chan'[l].in["c"] = <<>>
      /\ \A m \in Conns \ {l} : chan'[m] = chan[m]
      /\ Waiting("pi")' = Waiting("pi") \cup {l}
      /\ Waiting("dtp")' = Waiting("dtp")
      /\ Beside(c)
  BY <1>2 DEF Makes, Ports
<1>4. /\ \A p \in Procs : Serving(p) =>
           proc[p].clntSock # l /\ chan'[proc[p].clntSock] = chan[proc[p].clntSock]
      /\ cl[c].dtpSock \in Conns => chan'[cl[c].dtpSock] = chan[cl[c].dtpSock]
  BY <1>2, MadeElsewhere DEF Ports
<1>5. Running(c) /\ Running(c)'
  BY <1>1 DEF Running, CAt
<1> HIDE DEF l
<1>6. ConnsInv'
  <2>1. Unmade'
    BY <1>3 DEF PInv, ConnsInv, Unmade
  <2>2. ASSUME NEW m \in Conns PROVE PiOpen(m)'
    <3>1. CASE m = l
      BY <1>3, <3>1 DEF PiOpen
    <3>2. CASE m # l
      <4>1. CASE m[1] = c
        BY <1>3, <1>5, <3>2, <4>1 DEF PInv, ConnsInv, PiOpen
      <4> QED
        BY <1>3, <4>1, OthersKept
    <3> QED
      BY <3>1, <3>2
  <2>3. ASSUME NEW m \in Waiting("pi")' PROVE Coming(m)'
    <3>1. CASE m = l
      BY <1>1, <1>3, <3>1, EmptyBrief DEF Coming, Arriving, OnWay
    <3>2. CASE m # l
      <4>1. m \in Waiting("pi") /\ m \in Conns
        BY <1>3, <3>2, WaitingConns DEF PInv, Ports
      <4>2. m[1] # c
        BY <1>1, <1>5, <4>1 DEF PInv, ConnsInv, Coming, Arriving, CAt
      <4> QED
        BY <1>3, <4>1, <4>2, OthersKept
    <3> QED
      BY <3>1, <3>2
  <2> QED
    BY <2>1, <2>2, <2>3 DEF ConnsInv
<1>7. ASSUME NEW p \in Procs
      PROVE  Sole(p)' /\ Ready(p)' /\ InTouch(p)'
  <2> DEFINE k == proc[p].clntSock
  <2>1. /\ Sole(p)' /\ (Fresh(p)' <=> Fresh(p))
        /\ (Serving(p)' <=> Serving(p))
        /\ (Transferring(p)' <=> Transferring(p))
    BY <1>3, OthersKept
  <2>2. Ready(p) /\ InTouch(p)
    BY DEF PInv, ProcsInv
  <2>3. CASE ~ Serving(p)
    <3>1. ~ Transferring(p) /\ ~ At(p, "session")
      BY <2>3, PcServes DEF At, ServingPc, TransferPc, Commands
    <3> QED
      BY <1>1, <2>1, <2>3, <3>1 DEF Ready, InTouch, At
  <2>4. CASE Serving(p) /\ k[1] # c
    BY <1>3, <2>1, <2>4, OthersKept
  <2>5. CASE Serving(p) /\ k[1] = c
    <3>1. chan'[k] = chan[k] /\ k # l
      BY <1>4, <2>5
    <3>2. At(p, "session") /\ Silent(chan[k].in["s"], chan[k].in["c"])
      <4>1. CASE cl[c].sock = k
        <5>1. Paired("prompt", proc[p].pc, chan[k].in["s"], chan[k].in["c"])
          BY <1>1, <1>5, <2>2, <2>5, <4>1 DEF InTouch, CAt
        <5> QED
          BY <5>1, PairedPrompt DEF At, Silent
      <4>2. CASE cl[c].sock # k
        BY <1>5, <2>2, <2>5, <4>2 DEF InTouch
      <4> QED
        BY <4>1, <4>2
    <3>3. Ready(p)'
      BY <1>1, <2>1, <2>2, <2>5, <3>1 DEF Ready, OnWay, Ahead, At
    <3>4. InTouch(p)'
      BY <1>1, <2>5, <3>1, <3>2 DEF InTouch, At
    <3> QED
      BY <2>1, <3>3, <3>4
  <2> QED
    BY <2>3, <2>4, <2>5
<1>8. Tied(c)' /\ Answered(c)' /\ Greeting(c)'
  <2>1. Tied(c) /\ Greeting(c)
    BY DEF PInv, ClientsInv
  <2>2. Tied(c)'
    BY <1>1, <1>3, <1>4, <2>1 DEF Tied, Owned, Aimed, Aims, Attached, WithData
  <2>3. Answered(c)'
    BY <1>1, <1>3 DEF Answered, Due
  <2>4. Greeting(c)'
    BY <1>1, <1>3, <1>5, <2>1 DEF Greeting, Knocks, CAt, At
  <2> QED
    BY <2>2, <2>3, <2>4
<1>9. \A e \in Clients \ {c} : Tied(e)' /\ Answered(e)' /\ Greeting(e)'
  BY <1>3, OthersKept
<1> QED
  BY <1>6, <1>7, <1>8, <1>9 DEF ProcsInv, ClientsInv

(* the connect of passive mode does,                                        *)
LEMMA LinksKept ==
    ASSUME PInv, IInv', NEW c \in Clients, Links(c)
    PROVE  ConnsInv' /\ ProcsInv' /\ ClientsInv'
<1> DEFINE l == NewConn(c)
           s == cl[c].sock
<1>1. /\ CAt(c, "connect") /\ proc' = proc
      /\ \A e \in Clients \ {c} : cl'[e] = cl[e]
      /\ cl'[c].pc = "dtphello" /\ cl'[c].sock = s /\ cl'[c].dtpSock = l
      /\ cl'[c].then = cl[c].then /\ cl'[c].arg = cl[c].arg
  BY DEF Links, PInv, IInv, TypeOK, ClientType, Client
<1>2. Makes(c, "dtp")
  BY <1>1, NewMakes DEF Links, Ports
<1>3. /\ l \in Conns /\ l[1] = c /\ chan[l].port = "none" /\ chan'[l].port = "dtp"
      /\ chan'[l].end["s"] = "open" /\ chan'[l].end["c"] = "open"
      /\ chan'[l].in["s"] = <<>> /\ chan'[l].in["c"] = <<>>
      /\ \A m \in Conns \ {l} : chan'[m] = chan[m]
      /\ Waiting("dtp")' = Waiting("dtp") \cup {l}
      /\ Waiting("pi")' = Waiting("pi")
      /\ Beside(c)
  BY <1>2 DEF Makes, Ports
<1>4. /\ \A p \in Procs : Serving(p) =>
           proc[p].clntSock # l /\ chan'[proc[p].clntSock] = chan[proc[p].clntSock]
      /\ \A p \in Procs : proc[p].clntDtpSock # l
      /\ s \in Conns => chan'[s] = chan[s]
  BY <1>2, MadeElsewhere DEF Ports
<1>5. Running(c) /\ Running(c)'
  BY <1>1 DEF Running, CAt
<1> HIDE DEF l
<1>6. ConnsInv'
  <2>1. Unmade'
    BY <1>3 DEF PInv, ConnsInv, Unmade
  <2>2. ASSUME NEW m \in Conns PROVE PiOpen(m)'
    <3>1. CASE m = l
      BY <1>3, <3>1 DEF PiOpen
    <3>2. CASE m # l
      <4>1. CASE m[1] = c
        BY <1>3, <1>5, <3>2, <4>1 DEF PInv, ConnsInv, PiOpen
      <4> QED
        BY <1>3, <4>1, OthersKept
    <3> QED
      BY <3>1, <3>2
  <2>3. ASSUME NEW m \in Waiting("pi")' PROVE Coming(m)'
    <3>1. m \in Waiting("pi") /\ m \in Conns
      BY <1>3, WaitingConns DEF PInv, Ports
    <3>2. m[1] # c
      BY <1>1, <1>5, <3>1 DEF PInv, ConnsInv, Coming, Arriving, CAt
    <3> QED
      BY <1>3, <3>1, <3>2, OthersKept
  <2> QED
    BY <2>1, <2>2, <2>3 DEF ConnsInv
<1>7. ASSUME NEW p \in Procs
      PROVE  Sole(p)' /\ Ready(p)' /\ InTouch(p)'
  <2> DEFINE k == proc[p].clntSock
  <2>1. /\ Sole(p)' /\ (Fresh(p)' <=> Fresh(p))
        /\ (Serving(p)' <=> Serving(p))
        /\ (Transferring(p)' <=> Transferring(p))
    BY <1>3, OthersKept
  <2>2. Ready(p) /\ InTouch(p)
    BY DEF PInv, ProcsInv
  <2>3. CASE ~ Serving(p)
    <3>1. ~ Transferring(p) /\ ~ At(p, "session")
      BY <2>3, PcServes DEF At, ServingPc, TransferPc, Commands
    <3> QED
      BY <1>1, <2>1, <2>3, <3>1 DEF Ready, InTouch, At
  <2>4. CASE Serving(p) /\ k[1] # c
    BY <1>3, <2>1, <2>4, OthersKept
  <2>5. CASE Serving(p) /\ k[1] = c
    <3>1. chan'[k] = chan[k]
      BY <1>4, <2>5
    <3>2. InTouch(p)'
      <4>1. CASE s = k
        <5>1. Paired("connect", proc[p].pc, chan[k].in["s"], chan[k].in["c"])
          BY <1>1, <1>5, <2>2, <2>5, <4>1 DEF InTouch, CAt
        <5> QED
          BY <1>1, <2>5, <3>1, <4>1, <5>1, PairedConnect DEF InTouch
      <4>2. CASE s # k
        BY <1>1, <1>5, <2>1, <2>2, <2>5, <3>1, <4>2 DEF InTouch, At
      <4> QED
        BY <4>1, <4>2
    <3>3. Ahead(k)' => Ahead(k)
      BY <1>1, <1>5, <2>5 DEF Ahead, CAt
    <3>4. Ready(p)'
      BY <1>1, <2>1, <2>2, <2>5, <3>1, <3>3 DEF Ready, OnWay, At
    <3> QED
      BY <2>1, <3>2, <3>4
  <2> QED
    BY <2>3, <2>4, <2>5
<1>8. Tied(c)' /\ Answered(c)' /\ Greeting(c)'
  <2>1. Tied(c) /\ Answered(c) /\ Greeting(c)
    BY DEF PInv, ClientsInv
  <2>2. Tied(c)'
    BY <1>1, <1>3, <1>4, <2>1 DEF Tied, Owned, Aimed, Aims, Attached, CAt
  <2>3. Answered(c)'
    <3> SUFFICES ASSUME s \in Conns PROVE Answered(c)'
      BY <1>1 DEF Answered
    <3>1. Due("connect", chan[s].in["c"])
      BY <1>1, <1>5, <2>1 DEF Answered, CAt
    <3>2. chan[s].in["c"] = <<>>
      BY <3>1 DEF Due, Concludes
    <3>3. Due("dtphello", chan[s].in["c"])
      BY <3>2 DEF Due
    <3>4. \A p \in Procs : Serving(p)' <=> Serving(p)
      BY <1>3, OthersKept
    <3> QED
      BY <1>1, <1>3, <1>4, <1>5, <2>1, <3>3, <3>4 DEF Answered, CAt
  <2>4. Greeting(c)'
    BY <1>1, <1>3, <1>4 DEF Greeting, CAt, At
  <2> QED
    BY <2>2, <2>3, <2>4
<1>9. \A e \in Clients \ {c} : Tied(e)' /\ Answered(e)' /\ Greeting(e)'
  BY <1>3, OthersKept
<1> QED
  BY <1>6, <1>7, <1>8, <1>9 DEF ProcsInv, ClientsInv

(* What the end of a client changes: its ends are closed.                   *)
LEMMA LeavesShuts ==
    ASSUME PInv, NEW c \in Clients, Leaves(c)
    PROVE  /\ Beside(c) /\ \A o : Waiting(o)' = Waiting(o)
           /\ cl'[c].pc \in {"exit", "dead"}
           /\ cl'[c].sock = cl[c].sock /\ cl'[c].dtpSock = cl[c].dtpSock
           /\ \A l \in Conns : /\ chan'[l].port = chan[l].port
                               /\ chan'[l].in["s"] = chan[l].in["s"]
                               /\ chan[l].port = "none" => chan'[l] = chan[l]
<1>1. PICK pc \in {"exit", "dead"} : Stop(c, pc) /\ UNCHANGED <<proc, fds>>
  BY DEF Leaves
<1>2. PICK how \in Hows :
        chan' = CloseAll({k \in Conns : /\ k[1] = c
                                        /\ chan[k].port # "none"
                                        /\ chan[k].end["c"] = "open"}, "c", how)
  BY <1>1 DEF Stop
<1>3. /\ \A e \in Clients \ {c} : cl'[e] = cl[e]
      /\ cl'[c].pc = pc /\ cl'[c].sock = cl[c].sock /\ cl'[c].dtpSock = cl[c].dtpSock
      /\ backlog' = backlog
  BY <1>1 DEF Stop, CGoto, PInv, IInv, TypeOK, ClientType, Client
<1>4. ASSUME NEW l \in Conns
      PROVE  /\ chan'[l].port = chan[l].port
             /\ chan'[l].in["s"] = chan[l].in["s"]
             /\ chan[l].port = "none" \/ l[1] # c => chan'[l] = chan[l]
  <2>1. chan[l] \in Channel /\ "c" \in Sides /\ Peer("c") = "s"
    BY DEF PInv, IInv, TypeOK, SocketsType, Sides, Peer
  <2>2. /\ Closed(chan[l], "c", how).port = chan[l].port
        /\ Closed(chan[l], "c", how).in["s"] = chan[l].in["s"]
    BY <2>1, ClosedEnd
  <2> QED
    BY <1>2, <2>2 DEF CloseAll
<1>5. \A o : Waiting(o)' = Waiting(o)
  BY <1>3 DEF Waiting
<1>6. Beside(c)
  BY <1>1, <1>3, <1>4, <1>5 DEF Beside
<1> QED
  BY <1>3, <1>4, <1>5, <1>6

(* and the end of a client does.                                            *)
LEMMA LeavesKept ==
    ASSUME PInv, IInv', NEW c \in Clients, Leaves(c)
    PROVE  ConnsInv' /\ ProcsInv' /\ ClientsInv'
<1>1. /\ Beside(c) /\ \A o : Waiting(o)' = Waiting(o)
      /\ cl'[c].pc \in {"exit", "dead"} /\ proc' = proc
      /\ cl'[c].sock = cl[c].sock /\ cl'[c].dtpSock = cl[c].dtpSock
      /\ \A l \in Conns : /\ chan'[l].port = chan[l].port
                          /\ chan'[l].in["s"] = chan[l].in["s"]
                          /\ chan[l].port = "none" => chan'[l] = chan[l]
  BY LeavesShuts DEF Beside
<1>2. ~ Running(c)'
  BY <1>1 DEF Running
<1>3. ConnsInv'
  <2>1. Unmade'
    BY <1>1 DEF PInv, ConnsInv, Unmade
  <2>2. ASSUME NEW m \in Conns PROVE PiOpen(m)'
    <3>1. CASE m[1] = c
      BY <1>2, <3>1 DEF PiOpen
    <3> QED
      BY <1>1, <3>1, OthersKept
  <2>3. ASSUME NEW m \in Waiting("pi")' PROVE Coming(m)'
    <3>1. m \in Waiting("pi") /\ m \in Conns /\ Coming(m)
      BY <1>1, WaitingConns DEF PInv, ConnsInv, Ports
    <3>2. CASE m[1] = c
      BY <1>1, <1>2, <3>1, <3>2 DEF Coming, OnWay
    <3> QED
      BY <1>1, <3>1, <3>2, OthersKept
  <2> QED
    BY <2>1, <2>2, <2>3 DEF ConnsInv
<1>4. ASSUME NEW p \in Procs
      PROVE  Sole(p)' /\ Ready(p)' /\ InTouch(p)'
  <2> DEFINE k == proc[p].clntSock
  <2>1. /\ Sole(p)' /\ (Fresh(p)' <=> Fresh(p))
        /\ (Serving(p)' <=> Serving(p))
        /\ (Transferring(p)' <=> Transferring(p))
    BY <1>1, OthersKept
  <2>2. Ready(p)
    BY DEF PInv, ProcsInv
  <2>3. CASE ~ Serving(p)
    <3>1. ~ Transferring(p) /\ ~ At(p, "session")
      BY <2>3, PcServes DEF At, ServingPc, TransferPc, Commands
    <3> QED
      BY <1>1, <2>1, <2>3, <3>1 DEF Ready, InTouch, At
  <2>4. CASE Serving(p) /\ k[1] # c
    BY <1>1, <2>1, <2>4, OthersKept
  <2>5. CASE Serving(p) /\ k[1] = c
    <3>1. chan'[k].in["s"] = chan[k].in["s"]
      BY <1>1, <2>5, SocksApart DEF PInv
    <3>2. Ready(p)'
      BY <1>1, <1>2, <2>1, <2>2, <2>5, <3>1 DEF Ready, OnWay, Ahead, At
    <3>3. InTouch(p)'
      BY <1>1, <1>2, <2>5 DEF InTouch
    <3> QED
      BY <2>1, <3>2, <3>3
  <2> QED
    BY <2>3, <2>4, <2>5
<1>5. Tied(c)' /\ Answered(c)' /\ Greeting(c)'
  <2>1. Tied(c)
    BY DEF PInv, ClientsInv
  <2>2. Tied(c)'
    BY <1>1, <2>1 DEF Tied, Owned, Aimed, Aims, Attached, WithData
  <2> QED
    BY <1>2, <2>2 DEF Answered, Greeting
<1>6. \A e \in Clients \ {c} : Tied(e)' /\ Answered(e)' /\ Greeting(e)'
  BY <1>1, OthersKept
<1> QED
  BY <1>3, <1>4, <1>5, <1>6 DEF ProcsInv, ClientsInv

-----------------------------------------------------------------------------
(* The invariant holds at the start,                                        *)
LEMMA InitPaired == Init => PInv
<1> SUFFICES ASSUME Init PROVE PInv
  OBVIOUS
<1>1. IInv
  BY InitInv
<1>2. /\ \A p \in Procs : proc[p].pc \in {"accept", "none"}
      /\ \A c \in Clients : /\ cl[c].pc = "prompt" /\ cl[c].sock = NoConn
                            /\ cl[c].dtpSock = NoConn
      /\ \A l \in Conns : chan[l].in["s"] = <<>> /\ chan[l].in["c"] = <<>>
                          /\ chan[l].end["c"] = "open" /\ chan[l].end["s"] = "open"
      /\ \A q \in Ports : Waiting(q) = {}
  <2>1. \A q \in Ports : backlog[q] = <<>> /\ Len(backlog[q]) = 0
    BY DEF Init, SocketsInit
  <2> QED
    BY <2>1 DEF Init, SocketsInit, ServerInit, ClientInit, Waiting, Sides
<1>3. \A p \in Procs : ~ Serving(p) /\ ~ Transferring(p) /\ ~ At(p, "session")
                       /\ ~ At(p, "dtphello") /\ ~ At(p, "dtphi")
  BY <1>2, PcServes DEF ServingPc, TransferPc, Commands, At
<1>4. ProcsInv
  BY <1>3 DEF ProcsInv, Sole, Ready, InTouch
<1>5. ConnsInv
  BY <1>2 DEF ConnsInv, Unmade, PiOpen, Ports
<1>6. ClientsInv
  BY <1>2, <1>3, SocketsAssumption DEF ClientsInv, Tied, Owned, Aimed, Aims, Attached, WithData,
     Answered, Greeting, Knocks, Ports
<1> QED
  BY <1>1, <1>4, <1>5, <1>6 DEF PInv

(* and every step keeps it,                                                 *)
LEMMA ServePaired ==
    ASSUME PInv, NEW p \in Procs, Serve(p)
    PROVE  ConnsInv' /\ ProcsInv' /\ ClientsInv'
<1>1. UNCHANGED cl
  BY DEF Serve
<1>2. Handles(p) \/ Accepts(p) \/ Forks(p) \/ (Serving(p) /\ Die(p))
  BY ServeSplit DEF PInv
<1> QED
  BY <1>1, <1>2, HandlesConns, HandlesProcs, HandlesClients, AcceptsKept, ForksKept, DieKept

(* of the server or of a client;                                            *)
LEMMA UsePaired ==
    ASSUME Brief, PInv, IInv', NEW c \in Clients, Use(c) \/ Fail(c)
    PROVE  ConnsInv' /\ ProcsInv' /\ ClientsInv'
<1>1. Tied(c)
  BY DEF PInv, ClientsInv
<1>2. Runs(c) \/ Opens(c) \/ Links(c) \/ Leaves(c)
  BY <1>1, UseSplit DEF PInv
<1> QED
  BY <1>2, RunsConns, RunsProcs, RunsClients, OpensKept, LinksKept, LeavesKept

(* a stuttering step, too;                                                  *)
LEMMA StepPaired == Brief /\ PInv /\ [Next]_vars => PInv'
<1> SUFFICES ASSUME Brief, PInv, [Next]_vars PROVE PInv'
  OBVIOUS
<1>1. IInv'
  BY StepInv DEF PInv
<1>2. CASE Next
  BY <1>1, <1>2, ServePaired, UsePaired DEF Next, PInv
<1>3. CASE UNCHANGED vars
  <2>1. /\ proc' = proc /\ fds' = fds /\ cl' = cl /\ chan' = chan
        /\ \A o : Waiting(o)' = Waiting(o)
    BY <1>3 DEF vars, sockets, serverVars, Waiting
  <2>2. ConnsInv'
    BY <2>1 DEF PInv, ConnsInv, Unmade, PiOpen, Coming, OnWay, Running
  <2>3. ProcsInv'
    <3>1. \A p \in Procs : /\ Serving(p)' <=> Serving(p)
                           /\ Transferring(p)' <=> Transferring(p)
      BY <2>1, PcServes
    <3> QED
      BY <2>1, <3>1 DEF PInv, ProcsInv, Sole, Ready, InTouch, Fresh, OnWay, Ahead, At, Running
  <2>4. ClientsInv'
    <3>1. \A p \in Procs : Serving(p)' <=> Serving(p)
      BY <2>1, PcServes
    <3>2. ASSUME NEW c \in Clients
          PROVE  Tied(c)' /\ Answered(c)' /\ Greeting(c)'
      <4>1. Tied(c) /\ Answered(c) /\ Greeting(c)
        BY DEF PInv, ClientsInv
      <4>2. Tied(c)'
        BY <2>1, <4>1 DEF Tied, Owned, Aimed, Attached
      <4>3. Answered(c)'
        BY <2>1, <3>1, <4>1 DEF Answered, Running, CAt
      <4>4. Greeting(c)'
        BY <2>1, <4>1 DEF Greeting, Knocks, Running, CAt, At
      <4> QED
        BY <4>2, <4>3, <4>4
    <3> QED
      BY <3>2 DEF ClientsInv
  <2> QED
    BY <1>1, <2>2, <2>3, <2>4 DEF PInv
<1> QED
  BY <1>2, <1>3

(* so that it holds throughout.                                             *)
LEMMA PairInvariance ==
    ASSUME Brief
    PROVE  Spec => []PInv
<1>1. Init => PInv
  BY InitPaired
<1>2. PInv /\ [Next]_vars => PInv'
  BY StepPaired
<1> QED
  BY <1>1, <1>2, PTL DEF Spec

-----------------------------------------------------------------------------
(* What a client reads is the answer to what it asked last                  *)
(* (EchoFtpServer.c sends, EchoFtpClient.c receives, line by line): for any *)
(* number of clients and server processes, whoever crashes.                 *)
THEOREM AnswersMatch ==
    ASSUME Brief
    PROVE  Spec => []AnswersInOrder
<1>1. PInv => AnswersInOrder
  <2> SUFFICES ASSUME PInv, NEW c \in Clients, cl[c].pc \in DOMAIN Answer,
                      chan[cl[c].sock].in["c"] # <<>>
               PROVE  Head(chan[cl[c].sock].in["c"]).t = Answer[cl[c].pc]
    BY DEF AnswersInOrder
  <2> DEFINE u == chan[cl[c].sock].in["c"]
  <2>1. cl[c].pc \in {"hi", "userR", "sysyR", "addr", "list150", "listdone", "retrsize",
                      "retrdone", "storok", "stordone", "cwdR", "ok", "textR", "quitR"}
    BY DEF Answer
  <2>2. Running(c) /\ cl[c].sock \in Conns
    BY <2>1 DEF Running, PInv, IInv, Joined
  <2>3. Due(cl[c].pc, u)
    BY <2>2 DEF PInv, ClientsInv, Answered
  <2>4. u \in Seq(Msg)
    BY <2>2 DEF PInv, IInv, TypeOK, SocketsType, Channel, Sides
  <2>5. Head(u) = u[1]
    BY <2>4
  <2> HIDE DEF u
  <2>6. ASSUME NEW t, Is(u, t)
        PROVE  Head(u).t = t
    BY <2>5, <2>6 DEF Is
  <2>7. ASSUME NEW t, NEW t2, Both(u, t, t2)
        PROVE  Head(u).t = t
    BY <2>5, <2>7 DEF Both
  <2>8. u # <<>>
    BY DEF u
  <2>9. /\ Answer["hi"] = "hi" /\ Answer["userR"] = "Get" /\ Answer["sysyR"] = "OS"
        /\ Answer["addr"] = "addr" /\ Answer["list150"] = "150" /\ Answer["listdone"] = "226"
        /\ Answer["retrsize"] = "size" /\ Answer["retrdone"] = "complete"
        /\ Answer["storok"] = "226" /\ Answer["stordone"] = "complete"
        /\ Answer["cwdR"] = "Change" /\ Answer["ok"] = "ok" /\ Answer["textR"] = "text"
        /\ Answer["quitR"] = "221"
    BY DEF Answer
  <2>10. Head(u).t = Answer[cl[c].pc]
    <3>1. ASSUME NEW t \in Texts, Concludes(cl[c].pc, t), Is(u, t)
          PROVE  Head(u).t = Answer[cl[c].pc]
      BY <2>6, <2>9, <3>1 DEF Concludes
    <3> HIDE DEF Answer
    <3> QED
      BY <2>1, <2>3, <2>6, <2>7, <2>8, <2>9, <3>1 DEF Due
  <2> QED
    BY <2>10 DEF u
<1> QED
  BY <1>1, PairInvariance, PTL

(* At a client's prompt, its server there, the control connection is silent *)
(* and one process waits for the next command: no handler of                *)
(* EchoFtpClient.c returns while EchoFtpServer.c is inside the command.     *)
THEOREM PromptIsQuiet ==
    ASSUME Brief
    PROVE  Spec => []PromptQuiet
<1>1. PInv => PromptQuiet
  <2> SUFFICES ASSUME PInv, NEW c \in Clients, CAt(c, "prompt"), cl[c].sock # NoConn,
                      chan[cl[c].sock].end["s"] = "open"
               PROVE  /\ chan[cl[c].sock].in = [s \in Sides |-> <<>>]
                      /\ \E p \in Procs : At(p, "session") /\ proc[p].clntSock = cl[c].sock
    BY DEF PromptQuiet
  <2> DEFINE k == cl[c].sock
  <2>1. k \in Conns /\ Running(c) /\ k[1] = c
    BY DEF PInv, IInv, TypeOK, ClientType, Client, Running, CAt, ClientsInv, Tied, Owned
  <2>2. k \notin Waiting("pi")
    BY <2>1 DEF PInv, ConnsInv, Coming, Arriving, CAt
  <2>3. PICK p \in Procs : Serving(p) /\ proc[p].clntSock = k
    BY <2>1, <2>2 DEF PInv, ClientsInv, Answered, CAt
  <2>4. Paired("prompt", proc[p].pc, chan[k].in["s"], chan[k].in["c"])
    BY <2>1, <2>3 DEF PInv, ProcsInv, InTouch, CAt
  <2>5. proc[p].pc = "session" /\ chan[k].in["s"] = <<>> /\ chan[k].in["c"] = <<>>
    BY <2>4, PairedPrompt
  <2>6. chan[k].in \in [Sides -> Seq(Msg)]
    BY <2>1 DEF PInv, IInv, TypeOK, SocketsType, Channel
  <2>7. chan[k].in = [s \in Sides |-> <<>>]
    BY <2>5, <2>6 DEF Sides
  <2> QED
    BY <2>3, <2>5, <2>7 DEF At
<1> QED
  BY <1>1, PairInvariance, PTL

(* A process transfers on a data connection it has accepted and not closed, *)
(* and no other process on the same: clntDtpSock of EchoFtpServer.c is      *)
(* never the descriptor an earlier transfer closed, nor the parent's.       *)
THEOREM TransfersApart ==
    ASSUME Brief
    PROVE  Spec => []DataApart
<1>1. PInv => DataApart
  BY DEF PInv, ProcsInv, Ready, Fresh, DataApart
<1> QED
  BY <1>1, PairInvariance, PTL

-----------------------------------------------------------------------------
(* What a step of the server does to a process: only CWD gives it another   *)
(* directory, only a command that has arrived another argument.             *)
Obeys(p) ==
    LET u == chan[proc[p].clntSock].in["s"] IN
    /\ proc'[p].cwd = proc[p].cwd \/ (At(p, "CWD") /\ proc'[p].cwd = proc[p].arg)
    /\ At(p, "RETR")' =>
         \/ At(p, "RETR") /\ proc'[p].arg = proc[p].arg
         \/ /\ At(p, "session") /\ u # <<>>
            /\ Head(u).t = "RETR" /\ proc'[p].arg = Head(u).n

(* A step of the server does that to one process, or it starts one by fork. *)
LEMMA ServeObeys ==
    ASSUME ServerType, NEW p \in Procs, ServerStep(p)
    PROVE  \A q \in Procs : \/ q # p /\ proc'[q] = proc[q]
                            \/ At(q, "none") /\ At(q, "session")'
                            \/ q = p /\ Obeys(p)
<1>t. proc \in [Procs -> Process]
  BY DEF ServerType
<1> DEFINE Same == /\ \A q \in Procs \ {p} : proc'[q] = proc[q]
                   /\ Obeys(p)
<1>g. ASSUME NEW pc, pc # "RETR", Goto(p, pc)
      PROVE  Same
  BY <1>t, <1>g DEF Goto, Obeys, At, Process
<1>d. ASSUME Die(p)
      PROVE  Same
  BY <1>t, <1>d DEF Die, Obeys, At, Process
<1>s. ASSUME NEW k, NEW m, NEW pc, pc # "RETR", Send(p, k, m, pc)
      PROVE  Same
  BY <1>g, <1>d, <1>s DEF Send
<1>h. ASSUME NEW k, NEW pc, pc # "RETR", Hello(p, k, pc)
      PROVE  Same
  BY <1>g, <1>d, <1>h DEF Hello
<1>a. ASSUME NEW q, NEW pc, pc # "RETR", Accept(p, q, pc)
      PROVE  Same
  BY <1>t, <1>a DEF Accept, Obeys, At, Process
<1>f. ASSUME Fork(p)
      PROVE  \A q \in Procs : \/ q # p /\ proc'[q] = proc[q]
                              \/ At(q, "none") /\ At(q, "session")'
                              \/ q = p /\ Obeys(p)
  BY <1>t, <1>d, <1>f DEF Fork, Obeys, At, Process
<1>1. CASE AcceptPI(p)
  BY <1>1, <1>a, <1>h, <1>s DEF AcceptPI
<1>2. CASE Session(p)
  <2> DEFINE u == chan[proc[p].clntSock].in["s"]
  <2>1. ASSUME At(p, "session"), NEW j \in 1..Len(u),
               proc' = [proc EXCEPT
                          ![p].pc  = IF Head(u).t \in Commands THEN Head(u).t ELSE @,
                          ![p].arg = IF Head(u).t \in Commands THEN Head(u).n ELSE @,
                          ![p].totalBytes = 0]
        PROVE  Same
    <3>1. u # <<>>
      <4>1. u = <<>> => Len(u) = 0
        OBVIOUS
      <4> QED
        BY <4>1
    <3>2. /\ \A q \in Procs \ {p} : proc'[q] = proc[q]
          /\ proc'[p].cwd = proc[p].cwd
          /\ proc'[p].pc = IF Head(u).t \in Commands THEN Head(u).t ELSE proc[p].pc
          /\ proc'[p].arg = IF Head(u).t \in Commands THEN Head(u).n ELSE proc[p].arg
      BY <1>t, <2>1 DEF Process
    <3> QED
      BY <2>1, <3>1, <3>2 DEF Obeys, At
  <2> QED
    BY <1>2, <2>1, <1>d DEF Session
<1>3. CASE User(p) \/ SYSY(p) \/ QUIT(p)
  BY <1>3, <1>s DEF User, SYSY, QUIT
<1>4. CASE PASV(p)
  BY <1>4, <1>a, <1>h, <1>s, <1>d DEF PASV
<1>5. CASE ECHO(p)
  BY <1>5, <1>s, <1>g, <1>d DEF ECHO
<1>6. CASE STOR(p)
  <2>1. CASE StorSize(p)
    BY <1>t, <2>1, <1>d DEF StorSize, Obeys, At, Process
  <2>2. CASE Download(p)
    BY <1>t, <2>2, <1>g, <1>d DEF Download, Obeys, At, Process
  <2> QED
    BY <1>6, <2>1, <2>2, <1>s, <1>g, <1>d DEF STOR
<1>7. CASE RETR(p)
  <2>1. CASE proc' = [proc EXCEPT ![p].totalBytes = @ + 1] /\ At(p, "RETR")
    BY <1>t, <2>1 DEF Obeys, At, Process
  <2>2. ASSUME NEW n, proc' = [proc EXCEPT ![p].pc = "retrsize", ![p].totalBytes = n]
        PROVE  Same
    BY <1>t, <2>2 DEF Obeys, At, Process
  <2> QED
    BY <1>7, <2>1, <2>2, <1>s, <1>d DEF RETR
<1>8. CASE LIST(p)
  <2>1. CASE proc' = [proc EXCEPT ![p].totalBytes = @ + 1] /\ At(p, "listdata")
    BY <1>t, <2>1 DEF Obeys, At, Process
  <2>2. ASSUME NEW n, proc' = [proc EXCEPT ![p].pc = "listdata", ![p].fileSize = n]
        PROVE  Same
    BY <1>t, <2>2 DEF Obeys, At, Process
  <2> QED
    BY <1>8, <2>1, <2>2, <1>s, <1>g, <1>d DEF LIST
<1>9. CASE CWD(p)
  BY <1>t, <1>9, <1>d DEF CWD, Obeys, At, Process
<1> QED
  BY <1>1, <1>2, <1>3, <1>4, <1>5, <1>6, <1>7, <1>8, <1>9, <1>f DEF ServerStep

(* A process changes its directory only while its own client waits for the  *)
(* answer to rcd, and to what that client named (CWD of EchoFtpServer.c,    *)
(* rcd of EchoFtpClient.c).                                                 *)
THEOREM CwdIsObedient ==
    ASSUME Brief
    PROVE  Spec => CwdByOwnClient
<1> DEFINE A == \A p \in Procs : proc'[p].cwd # proc[p].cwd =>
                  \/ At(p, "none")
                  \/ /\ At(p, "CWD")
                     /\ CAt(ClientOf(p), "cwdR") \/ ~ Running(ClientOf(p))
                     /\ proc'[p].cwd = proc[p].arg
<1>1. PInv /\ [Next]_vars => [A]_vars
  <2> SUFFICES ASSUME PInv, Next, NEW p \in Procs, proc'[p].cwd # proc[p].cwd, ~ At(p, "none")
               PROVE  /\ At(p, "CWD")
                      /\ CAt(ClientOf(p), "cwdR") \/ ~ Running(ClientOf(p))
                      /\ proc'[p].cwd = proc[p].arg
    OBVIOUS
  <2>1. PICK q \in Procs : Serve(q)
    <3>1. \A c \in Clients : Use(c) \/ Fail(c) => proc' = proc
      BY DEF Use, Fail, serverVars
    <3> QED
      BY <3>1 DEF Next
  <2>2. q = p /\ Obeys(p)
    BY <2>1, ServeObeys DEF Serve, PInv, IInv, TypeOK
  <2>3. At(p, "CWD") /\ proc'[p].cwd = proc[p].arg
    BY <2>2 DEF Obeys
  <2>4. Serving(p) /\ InTouch(p)
    BY <2>3, PcServes DEF At, ServingPc, Commands, PInv, ProcsInv
  <2>5. Running(ClientOf(p)) => \E u, w : Paired(cl[ClientOf(p)].pc, "CWD", u, w)
    BY <2>3, <2>4 DEF InTouch, At, ClientOf
  <2>6. Running(ClientOf(p)) => CAt(ClientOf(p), "cwdR")
    BY <2>5 DEF Paired, Meeting, Asking, Asks, Echoing, Joining, Listing, Fetching, Storing, CAt
  <2> QED
    BY <2>3, <2>6
<1> QED
  BY <1>1, PairInvariance, PTL DEF Spec, CwdByOwnClient

-----------------------------------------------------------------------------
(* Where no user names a file that is not there, no RETR does, on its way   *)
(* or in a process.                                                         *)
NamedClients == \A c \in Clients : cl[c].arg # NoFile
NamedConns == \A l \in Conns : chan[l].port = "pi" /\ Is(chan[l].in["s"], "RETR") =>
    chan[l].in["s"][1].n # NoFile
NamedProcs == \A p \in Procs : At(p, "RETR") => proc[p].arg # NoFile
NInv == PInv /\ ("file" \notin Faults => NamedClients /\ NamedConns /\ NamedProcs)

(* A step of the server takes from the control connections, it adds nothing *)
(* to what they bring it.                                                   *)
LEMMA ServeTakes ==
    ASSUME PInv, NEW p \in Procs, Serve(p), NEW l \in Conns
    PROVE  /\ chan'[l].port = chan[l].port
           /\ chan[l].port = "pi" => chan'[l].in["s"] \in {chan[l].in["s"], <<>>}
<1>1. UNCHANGED cl
  BY DEF Serve
<1>2. CASE Handles(p)
  <2> DEFINE k == proc[p].clntSock
  <2>1. chan'[l].port = chan[l].port
    BY <1>2 DEF Handles
  <2>2. CASE l = k
    <3>1. AtMostOne(chan[k].in["s"])
      BY <1>2 DEF Handles, PInv, ProcsInv, Ready
    <3>2. \E live : ServerTalk(live, proc[p].pc, chan[k].in["s"], chan[k].in["c"],
                               proc'[p].pc, chan'[k].in["s"], chan'[k].in["c"])
      BY <1>2 DEF Handles
    <3>3. chan'[k].in["s"] = chan[k].in["s"] \/ chan'[k].in["s"] = <<>>
      BY <3>1, <3>2, TalkTakes
    <3> QED
      BY <2>1, <2>2, <3>3
  <2>3. CASE l # k
    <3>1. chan[l].port # "dtp" => chan'[l] = chan[l]
      BY <1>2, <2>3, HandlesAlone
    <3> QED
      BY <2>1, <3>1
  <2> QED
    BY <2>2, <2>3
<1>3. CASE Accepts(p) \/ Forks(p)
  <2>1. chan' = chan
    BY <1>3 DEF Accepts, Accept, Forks, sockets
  <2> QED
    BY <2>1
<1>4. CASE Serving(p) /\ Die(p)
  <2>1. Shut(chan'[l], chan[l])
    BY <1>4, DieShuts DEF PInv
  <2> QED
    BY <2>1 DEF Shut
<1> QED
  BY <1>2, <1>3, <1>4, ServeSplit DEF PInv

(* A client keeps the file it names, or names another one or none; it       *)
(* counts in the two loops only, and otherwise from 0 again at most.        *)
LEMMA UseArg ==
    ASSUME ClientType, NEW c \in Clients, Use(c) \/ Fail(c)
    PROVE  /\ \A e \in Clients \ {c} : cl'[e] = cl[e]
           /\ cl'[c].arg \in {cl[c].arg, 0, 1} \cup Files
           /\ \/ cl[c].pc \in {"download", "upload"}
              \/ cl'[c].totalBytes \in {cl[c].totalBytes, 0}
<1>t. cl \in [Clients -> Client]
  BY DEF ClientType
<1> DEFINE Ok == /\ \A e \in Clients \ {c} : cl'[e] = cl[e]
                 /\ cl'[c].arg \in {cl[c].arg, 0, 1} \cup Files
                 /\ \/ cl[c].pc \in {"download", "upload"}
                    \/ cl'[c].totalBytes \in {cl[c].totalBytes, 0}
<1>g. ASSUME NEW pc, CGoto(c, pc) PROVE Ok
  BY <1>t, <1>g DEF CGoto, Client
<1>p. ASSUME Prompt(c) PROVE Ok
  BY <1>t, <1>p DEF Prompt, Client
<1>n. ASSUME cl' = [cl EXCEPT ![c].totalBytes = @ + 1], cl[c].pc \in {"download", "upload"}
      PROVE  Ok
  BY <1>t, <1>n DEF Client
<1>s. ASSUME NEW pc, Stop(c, pc) PROVE Ok
  BY <1>g, <1>s DEF Stop
<1>c. ASSUME NEW k, NEW ms, NEW pc, CSend(c, k, ms, pc) PROVE Ok
  BY <1>g, <1>s, <1>c DEF CSend
<1>r. ASSUME NEW k, NEW pc, CRecv(c, k, pc) PROVE Ok
  BY <1>g, <1>s, <1>r DEF CRecv
<1>l. ASSUME NEW k, NEW h, LastRecv(c, k, h) PROVE Ok
  BY <1>p, <1>s, <1>l DEF LastRecv
<1>b. ASSUME NEW what, NEW pc, NEW next, NEW n \in {0, 1} \cup Files,
             Starts(c, what, pc, next, n)
      PROVE  Ok
  <2>1. CASE cl' = [cl EXCEPT ![c].pc = pc, ![c].then = next, ![c].arg = n, ![c].left = @ - 1]
    BY <1>t, <2>1 DEF Client
  <2> QED
    BY <1>b, <1>s, <2>1 DEF Starts
<1> SUFFICES Ok
  OBVIOUS
<1> HIDE DEF Ok
<1>o. ASSUME NEW q, NEW r, r.arg = cl[c].arg, r.totalBytes = cl[c].totalBytes,
             Connect(c, q, r)
      PROVE  Ok
  <2>1. CASE cl' = [cl EXCEPT ![c] = r]
    BY <1>t, <1>o, <2>1 DEF Ok
  <2> QED
    BY <1>o, <1>s, <2>1 DEF Connect
<1>1. CASE openCon(c)
  <2> DEFINE r == [cl[c] EXCEPT !.pc = "hello", !.sock = NewConn(c), !.left = @ - 1]
  <2>1. r.arg = cl[c].arg /\ r.totalBytes = cl[c].totalBytes
    BY <1>t DEF Client
  <2> QED
    BY <1>1, <2>1, <1>o, <1>c, <1>r, <1>l DEF openCon
<1>2. CASE passiveMode(c)
  <2> DEFINE r == [cl[c] EXCEPT !.pc = "dtphello", !.dtpSock = NewConn(c)]
  <2>1. r.arg = cl[c].arg /\ r.totalBytes = cl[c].totalBytes
    BY <1>t DEF Client
  <2> QED
    BY <1>2, <2>1, <1>o, <1>c, <1>r, <1>s DEF passiveMode
<1>3. CASE rlist(c)
  BY <1>3, <1>b, <1>c, <1>r, <1>l DEF rlist
<1>4. CASE get(c)
  <2>1. ASSUME NEW n, cl' = [cl EXCEPT ![c].pc = "download", ![c].fileSize = n]
        PROVE  Ok
    BY <1>t, <2>1 DEF Client, Ok
  <2> QED
    BY <1>4, <2>1, <1>b, <1>c, <1>s, <1>n, <1>g, <1>l DEF get, CAt
<1>5. CASE put(c)
  <2>1. ASSUME NEW n, cl[c].pc = "upload",
               cl' = [cl EXCEPT ![c].pc = "SIZE", ![c].totalBytes = n]
        PROVE  Ok
    BY <1>t, <2>1 DEF Client, Ok
  <2> QED
    BY <1>5, <2>1, <1>b, <1>c, <1>r, <1>s, <1>n, <1>g, <1>l DEF put, CAt
<1>6. CASE rcd(c)
  BY <1>6, <1>b, <1>c, <1>l DEF rcd
<1>7. CASE echo(c)
  BY <1>7, <1>b, <1>c, <1>r, <1>l DEF echo
<1>8. CASE quit(c)
  BY <1>8, <1>c, <1>s, <1>g DEF quit
<1>9. CASE Local(c)
  <2>1. CASE \/ cl' = [cl EXCEPT ![c].ftp = TRUE, ![c].left = @ - 1]
             \/ cl' = [cl EXCEPT ![c].ftp = FALSE]
    BY <1>t, <2>1 DEF Client, Ok
  <2>2. CASE cl' = [cl EXCEPT ![c].hashFlag = ~ @, ![c].left = @ - 1]
    BY <1>t, <2>2 DEF Client, Ok
  <2>3. ASSUME NEW dir, cl' = [cl EXCEPT ![c].cwd = dir, ![c].left = @ - 1]
        PROVE  Ok
    BY <1>t, <2>3 DEF Client, Ok
  <2> QED
    BY <1>9, <2>1, <2>2, <2>3 DEF Local
<1>10. CASE Crash(c)
  BY <1>10, <1>s DEF Crash
<1>11. Ok
  BY <1>1, <1>2, <1>3, <1>4, <1>5, <1>6, <1>7, <1>8, <1>9, <1>10 DEF Use, Fail, ClientStep
<1> QED
  BY <1>11 DEF Ok

(* RETR carries the file the client names.                                  *)
LEMMA RetrNames ==
    ASSUME NEW c \in Clients, CAt(c, "RETR"), Use(c) \/ Fail(c)
    PROVE  \/ SendOn(cl[c].sock, "c", <<With("RETR", cl[c].arg)>>)
           \/ Stop(c, "dead")
<1>1. CASE ClientStep(c)
  <2>1. ~ openCon(c) /\ ~ passiveMode(c)
    BY DEF CAt, openCon, passiveMode, Types
  <2>2. ~ rlist(c) /\ ~ put(c) /\ ~ rcd(c)
    BY DEF CAt, rlist, put, rcd, Starts, Types
  <2>3. ~ echo(c) /\ ~ quit(c) /\ ~ Local(c)
    BY DEF CAt, echo, quit, Local, Starts, Types
  <2>4. CSend(c, cl[c].sock, <<With("RETR", cl[c].arg)>>, "retrsize")
    BY <1>1, <2>1, <2>2, <2>3 DEF ClientStep, get, CAt, Starts, Types
  <2> QED
    BY <2>4 DEF CSend
<1> QED
  BY <1>1 DEF Use, Fail, Crash

(* What waits for the server on a client's own connection is one text.      *)
LEMMA OwnBrief ==
    ASSUME PInv, NEW c \in Clients, Running(c), cl[c].sock \in Conns
    PROVE  AtMostOne(chan[cl[c].sock].in["s"])
<1> DEFINE k == cl[c].sock
<1>1. Answered(c)
  BY DEF PInv, ClientsInv
<1>2. CASE k \in Waiting("pi")
  BY <1>2 DEF PInv, ConnsInv, Coming
<1>3. ASSUME NEW p \in Procs, Serving(p), proc[p].clntSock = k
      PROVE  AtMostOne(chan[k].in["s"])
  BY <1>3 DEF PInv, ProcsInv, Ready
<1>4. CASE chan[k].in["s"] = <<>>
  BY <1>4 DEF AtMostOne
<1> QED
  BY <1>1, <1>2, <1>3, <1>4 DEF Answered

(* A text for a transfer that a move of a client adds is the one it sends.  *)
LEMMA TalkRetr ==
    ASSUME NEW live, NEW cpc, NEW u, NEW w, NEW cpc2, NEW u2, NEW w2,
           ClientTalk(live, cpc, u, w, cpc2, u2, w2), AtMostOne(u), Is(u2, "RETR")
    PROVE  u2 = u \/ (u = <<>> /\ cpc = "RETR")
<1> SUFFICES ASSUME u2 # u PROVE u = <<>> /\ cpc = "RETR"
  OBVIOUS
<1>1. PICK t \in Texts : Requests(cpc, t, cpc2) /\ Grown(u, t, u2)
  BY DEF ClientTalk
<1>2. u = <<>>
  <2>1. ASSUME NEW a \in Texts, Is(u, a) PROVE FALSE
    <3>1. Both(u2, a, t)
      BY <1>1, <2>1 DEF Grown
    <3> QED
      BY <3>1 DEF Both, Is
  <2> QED
    BY <2>1 DEF AtMostOne
<1>3. t = "RETR"
  <2>1. Is(u2, t)
    BY <1>1, <1>2 DEF Grown
  <2> QED
    BY <2>1 DEF Is
<1> QED
  BY <1>1, <1>2, <1>3 DEF Requests

(* A move of a client names the file it was asked for.                      *)
LEMMA RunsNames ==
    ASSUME PInv, NEW c \in Clients, Runs(c), Use(c) \/ Fail(c), NamedClients, NamedConns
    PROVE  NamedConns'
<1> SUFFICES ASSUME NEW l \in Conns, chan'[l].port = "pi", Is(chan'[l].in["s"], "RETR")
             PROVE  chan'[l].in["s"][1].n # NoFile
  BY DEF NamedConns
<1> DEFINE k == cl[c].sock
           u == chan[k].in["s"]
           u2 == chan'[k].in["s"]
<1>1. chan[l].port = "pi"
  BY DEF Runs
<1>2. CASE l # k
  BY <1>1, <1>2, RunsBeside DEF NamedConns
<1>3. CASE l = k
  <2>1. /\ Running(c) /\ cl'[c].pc \notin {"exit", "dead"}
        /\ ClientTalk(chan[k].end["s"] = "open", cl[c].pc, u, chan[k].in["c"],
                      cl'[c].pc, u2, chan'[k].in["c"])
    BY <1>3 DEF Runs
  <2>2. AtMostOne(u)
    BY <1>3, <2>1, OwnBrief
  <2>3. u2 = u \/ (u = <<>> /\ CAt(c, "RETR"))
    <3> HIDE DEF u, u2
    <3> QED
      BY <1>3, <2>1, <2>2, TalkRetr DEF u2, CAt
  <2>4. CASE u2 = u
    BY <1>1, <1>3, <2>4 DEF NamedConns
  <2>5. CASE u = <<>> /\ CAt(c, "RETR") /\ u2 # u
    <3>1. cl \in [Clients -> Client] /\ chan \in [Conns -> Channel]
      BY DEF PInv, IInv, TypeOK, ClientType, SocketsType
    <3>2. ASSUME Stop(c, "dead") PROVE FALSE
      <4>1. cl' = [cl EXCEPT ![c].pc = "dead"]
        BY <3>2 DEF Stop, CGoto
      <4>2. cl'[c].pc = "dead"
        BY <3>1, <4>1
      <4> QED
        BY <2>1, <4>2
    <3>3. SendOn(k, "c", <<With("RETR", cl[c].arg)>>)
      BY <2>5, <3>2, RetrNames
    <3>4. u2 = u \/ u2 = u \o <<With("RETR", cl[c].arg)>>
      BY <1>3, <3>1, <3>3 DEF SendOn, Sent, Channel, Peer, Sides
    <3>5. u2 = <<With("RETR", cl[c].arg)>>
      BY <2>5, <3>4
    <3> QED
      BY <1>3, <3>5 DEF With, NamedClients
  <2> QED
    BY <2>3, <2>4, <2>5
<1> QED
  BY <1>2, <1>3

(* So does every step of a client,                                          *)
LEMMA UseNames ==
    ASSUME Brief, PInv, NEW c \in Clients, Use(c) \/ Fail(c), "file" \notin Faults,
           NamedClients, NamedConns, NamedProcs
    PROVE  NamedClients' /\ NamedConns' /\ NamedProcs'
<1>1. NamedProcs'
  <2>1. proc' = proc
    BY DEF Use, Fail, serverVars
  <2> QED
    BY <2>1 DEF NamedProcs, At
<1>2. NamedClients'
  <2>1. NoFile \notin {0, 1} \cup Files
    BY ProtocolAssumption DEF Files
  <2>2. ClientType
    BY DEF PInv, IInv, TypeOK
  <2>3. /\ \A e \in Clients \ {c} : cl'[e] = cl[e]
        /\ cl'[c].arg \in {cl[c].arg, 0, 1} \cup Files
    BY <2>2, UseArg
  <2> QED
    BY <2>1, <2>3 DEF NamedClients
<1>3. NamedConns'
  <2>1. Runs(c) \/ Opens(c) \/ Links(c) \/ Leaves(c)
    BY UseSplit DEF PInv, ClientsInv
  <2>2. CASE Runs(c)
    BY <2>2, RunsNames
  <2>3. CASE Opens(c) \/ Links(c)
    <3>1. \A e \in Clients \ {c} : cl'[e] = cl[e]
      BY <2>3 DEF Opens, Links, PInv, IInv, TypeOK, ClientType
    <3>2. \E q \in Ports : Makes(c, q)
      BY <2>3, <3>1, NewMakes DEF Opens, Links, Ports
    <3>3. \A l \in Conns : chan'[l] = chan[l] \/ chan'[l].in["s"] = <<>>
      BY <3>2 DEF Makes
    <3> QED
      BY <3>3, EmptyBrief DEF NamedConns
  <2>4. CASE Leaves(c)
    BY <2>4, LeavesShuts DEF NamedConns
  <2> QED
    BY <2>1, <2>2, <2>3, <2>4
<1> QED
  BY <1>1, <1>2, <1>3

(* and a process names the file its client did.                             *)
LEMMA ServeNames ==
    ASSUME PInv, NEW p \in Procs, Serve(p), NamedClients, NamedConns, NamedProcs
    PROVE  NamedClients' /\ NamedConns' /\ NamedProcs'
<1>1. NamedClients'
  BY DEF Serve, NamedClients
<1>2. NamedConns'
  BY ServeTakes, EmptyBrief DEF NamedConns
<1>3. ASSUME NEW q \in Procs, At(q, "RETR")'
      PROVE  proc'[q].arg # NoFile
  <2> DEFINE u == chan[proc[p].clntSock].in["s"]
  <2>1. \/ q # p /\ proc'[q] = proc[q]
        \/ q = p /\ Obeys(p)
    BY <1>3, ServeObeys DEF Serve, PInv, IInv, TypeOK, At
  <2>2. CASE At(q, "RETR") /\ proc'[q].arg = proc[q].arg
    BY <2>2 DEF NamedProcs
  <2>3. CASE q = p /\ At(p, "session") /\ u # <<>> /\ Head(u).t = "RETR" /\ proc'[p].arg = Head(u).n
    <3>1. Serving(p)
      BY <2>3, PcServes DEF At, ServingPc
    <3>2. proc[p].clntSock \in Conns /\ chan[proc[p].clntSock].port = "pi" /\ chan \in [Conns -> Channel]
      BY <3>1, SocksApart DEF PInv
    <3>3. AtMostOne(u)
      BY <3>1 DEF PInv, ProcsInv, Ready
    <3>4. u \in Seq(Msg)
      BY <3>2 DEF Channel, Sides
    <3>5. Head(u) = u[1] /\ Len(u) = 1
      <4> HIDE DEF u
      <4> QED
        BY <2>3, <3>3, <3>4 DEF AtMostOne, Is
    <3>6. Is(u, "RETR")
      BY <2>3, <3>5 DEF Is
    <3> QED
      BY <2>3, <3>2, <3>5, <3>6 DEF NamedConns
  <2> QED
    BY <1>3, <2>1, <2>2, <2>3 DEF Obeys, At
<1> QED
  BY <1>1, <1>2, <1>3 DEF NamedProcs

(* All that holds throughout.                                               *)
LEMMA NamesInvariance ==
    ASSUME Brief
    PROVE  Spec => []NInv
<1>1. Init => NInv
  <2> SUFFICES ASSUME Init PROVE NInv
    OBVIOUS
  <2>1. \A c \in Clients : cl[c].arg = 0
    BY DEF Init, ClientInit
  <2>2. \A l \in Conns : chan[l].port = "none"
    BY DEF Init, SocketsInit
  <2>3. \A p \in Procs : ~ At(p, "RETR")
    BY DEF Init, ServerInit, At
  <2> QED
    BY <2>1, <2>2, <2>3, InitPaired, ProtocolAssumption
       DEF NInv, NamedClients, NamedConns, NamedProcs
<1>2. NInv /\ [Next]_vars => NInv'
  <2> SUFFICES ASSUME NInv, [Next]_vars PROVE NInv'
    OBVIOUS
  <2>1. PInv'
    BY StepPaired DEF NInv
  <2>2. ASSUME "file" \notin Faults
        PROVE  NamedClients' /\ NamedConns' /\ NamedProcs'
    <3>1. CASE Next
      BY <2>2, <3>1, UseNames, ServeNames DEF Next, NInv
    <3>2. CASE UNCHANGED vars
      BY <2>2, <3>2 DEF vars, sockets, serverVars, NInv, NamedClients, NamedConns, NamedProcs, At
    <3> QED
      BY <3>1, <3>2
  <2> QED
    BY <2>1, <2>2 DEF NInv
<1> QED
  BY <1>1, <1>2, PTL DEF Spec

(* A process stands before the file it could not open.                      *)
FileFails(p) == /\ "file" \in Faults /\ proc[p].pc \in {"download", "listdata"}
                /\ proc[p].totalBytes = 0

(* Why a process dies: its control connection has ended, or its data        *)
(* connection where it uses it, or something else than a hello has come, or *)
(* a call failed in it.                                                     *)
LEMMA DieReasons ==
    ASSUME ServerType, NEW p \in Procs, ServerStep(p), Alive(p), At(p, "dead")'
    PROVE  LET k == proc[p].clntSock
               d == proc[p].clntDtpSock
           IN  \/ chan[k].end["c"] # "open"
               \/ At(p, "hello") /\ chan[k].in["s"] # <<>> /\ ~ Greeted(k)
               \/ At(p, "dtphello") /\ chan[d].in["s"] # <<>> /\ ~ Greeted(d)
               \/ /\ proc[p].pc \in {"dtphello", "dtphi", "RETR", "listdata"}
                  /\ chan[d].end["c"] # "open"
               \/ "fork" \in Faults /\ At(p, "fork")
               \/ "accept" \in Faults /\ At(p, "dtpaccept")
               \/ At(p, "RETR") /\ proc[p].arg = NoFile
               \/ FileFails(p)
<1>t. proc \in [Procs -> Process]
  BY DEF ServerType
<1> DEFINE k == proc[p].clntSock
           d == proc[p].clntDtpSock
           Why == \/ chan[k].end["c"] # "open"
                  \/ At(p, "hello") /\ chan[k].in["s"] # <<>> /\ ~ Greeted(k)
                  \/ At(p, "dtphello") /\ chan[d].in["s"] # <<>> /\ ~ Greeted(d)
                  \/ /\ proc[p].pc \in {"dtphello", "dtphi", "RETR", "listdata"}
                     /\ chan[d].end["c"] # "open"
                  \/ "fork" \in Faults /\ At(p, "fork")
                  \/ "accept" \in Faults /\ At(p, "dtpaccept")
                  \/ At(p, "RETR") /\ proc[p].arg = NoFile
                  \/ FileFails(p)
<1>a. proc'[p].pc = "dead"
  BY DEF At
<1>o. \A l : Broken(chan[l], "s") \/ AtEnd(chan[l], "s") \/ Failed(chan[l], "s")
               => chan[l].end["c"] # "open"
  BY DEF Broken, AtEnd, Failed, Peer
<1>g. ASSUME NEW pc, pc # "dead", Goto(p, pc) PROVE FALSE
  BY <1>t, <1>a, <1>g DEF Goto
<1>n. ASSUME ~ At(p, "dead"), proc' = [proc EXCEPT ![p].totalBytes = @ + 1] PROVE FALSE
  BY <1>t, <1>a, <1>n DEF At
<1>s. ASSUME NEW l, NEW m, NEW pc, pc # "dead", Send(p, l, m, pc) PROVE chan[l].end["c"] # "open"
  BY <1>g, <1>o, <1>s DEF Send
<1>h. ASSUME NEW l, NEW pc, pc # "dead", Hello(p, l, pc)
      PROVE  chan[l].end["c"] # "open" \/ (chan[l].in["s"] # <<>> /\ ~ Greeted(l))
  BY <1>g, <1>o, <1>h DEF Hello
<1>c. ASSUME NEW q, NEW pc, pc # "dead", Accept(p, q, pc) PROVE FALSE
  BY <1>t, <1>a, <1>c DEF Accept
<1> SUFFICES Why
  OBVIOUS
<1>1. CASE AcceptPI(p)
  BY <1>1, <1>c, <1>h, <1>s DEF AcceptPI, At
<1>2. CASE Fork(p)
  <2>1. ASSUME NEW q \in Procs, proc' = [proc EXCEPT ![q] = [proc[p] EXCEPT !.pc = "session"],
                                                    ![p].pc = "accept"]
        PROVE  FALSE
    <3>1. proc'[p].pc = "accept"
      BY <1>t, <2>1
    <3> QED
      BY <1>a, <3>1
  <2> QED
    BY <1>2, <2>1 DEF Fork
<1>3. CASE Session(p)
  <2>1. ASSUME NEW m, NEW n, ~ At(p, "dead"),
               proc' = [proc EXCEPT ![p].pc  = IF m \in Commands THEN m ELSE @,
                                    ![p].arg = IF m \in Commands THEN n ELSE @,
                                    ![p].totalBytes = 0]
        PROVE  FALSE
    <3>1. proc'[p].pc = IF m \in Commands THEN m ELSE proc[p].pc
      BY <1>t, <2>1
    <3> QED
      BY <1>a, <2>1, <3>1 DEF At, Commands
  <2> QED
    BY <1>3, <1>o, <2>1 DEF Session, At
<1>4. CASE User(p) \/ SYSY(p) \/ QUIT(p)
  BY <1>4, <1>s DEF User, SYSY, QUIT
<1>5. CASE PASV(p)
  BY <1>5, <1>c, <1>h, <1>s DEF PASV, At
<1>6. CASE ECHO(p)
  BY <1>6, <1>s, <1>g, <1>o DEF ECHO
<1>7. CASE STOR(p)
  <2>1. CASE StorSize(p)
    <3>1. ASSUME NEW z, proc' = [proc EXCEPT ![p].pc = "download", ![p].fileSize = z] PROVE FALSE
      BY <1>t, <1>a, <3>1
    <3> QED
      BY <2>1, <3>1, <1>o DEF StorSize
  <2>2. CASE Download(p)
    BY <2>2, <1>n, <1>g DEF Download, At, FileFails
  <2> QED
    BY <1>7, <2>1, <2>2, <1>s, <1>g, <1>o DEF STOR
<1>8. CASE RETR(p)
  <2>1. ASSUME NEW n, proc' = [proc EXCEPT ![p].pc = "retrsize", ![p].totalBytes = n]
        PROVE  FALSE
    BY <1>t, <1>a, <2>1
  <2> QED
    BY <1>8, <2>1, <1>n, <1>s, <1>o DEF RETR, At
<1>9. CASE LIST(p)
  <2>1. ASSUME NEW n, proc' = [proc EXCEPT ![p].pc = "listdata", ![p].fileSize = n] PROVE FALSE
    BY <1>t, <1>a, <2>1
  <2> QED
    BY <1>9, <2>1, <1>n, <1>s, <1>g, <1>o DEF LIST, At, FileFails
<1>10. CASE CWD(p)
  <2>1. ASSUME NEW dir, proc' = [proc EXCEPT ![p].pc = "session", ![p].cwd = dir] PROVE FALSE
    BY <1>t, <1>a, <2>1
  <2> QED
    BY <1>10, <2>1, <1>o DEF CWD
<1> QED
  BY <1>1, <1>2, <1>3, <1>4, <1>5, <1>6, <1>7, <1>8, <1>9, <1>10 DEF ServerStep

(* Where a process uses its data connection its client, in touch, does.     *)
LEMMA PairedData ==
    ASSUME NEW cpc, NEW spc, NEW u, NEW w, Paired(cpc, spc, u, w), spc \in {"RETR", "listdata"}
    PROVE  cpc \in WithData
BY DEF Paired, Meeting, Asking, Asks, Echoing, Joining, Listing, Fetching, Storing, WithData

(* A process of the server dies at the end of its own client or of a data   *)
(* connection that is not its client's, or because fork, accept or fopen    *)
(* failed in it (DieWithError and SIGPIPE, EchoFtpServer.c): never because  *)
(* of another client.                                                       *)
THEOREM DeathsHaveReasons ==
    ASSUME Brief
    PROVE  Spec => DeathsExplained
<1> DEFINE A == \A p \in Procs : Alive(p) /\ proc'[p].pc = "dead" =>
         \/ ~ Running(ClientOf(p))
         \/ Transferring(p) /\ proc[p].clntDtpSock # cl[ClientOf(p)].dtpSock
         \/ "fork" \in Faults /\ At(p, "fork")
         \/ "accept" \in Faults /\ At(p, "dtpaccept")
         \/ "file" \in Faults /\ At(p, "RETR") /\ proc[p].arg = NoFile
         \/ FileFails(p)
<1>1. NInv /\ [Next]_vars => [A]_vars
  <2> SUFFICES ASSUME NInv, Next, NEW p \in Procs, Alive(p), proc'[p].pc = "dead",
                      Running(ClientOf(p)),
                      Transferring(p) => proc[p].clntDtpSock = cl[ClientOf(p)].dtpSock
               PROVE  \/ "fork" \in Faults /\ At(p, "fork")
                      \/ "accept" \in Faults /\ At(p, "dtpaccept")
                      \/ "file" \in Faults /\ At(p, "RETR") /\ proc[p].arg = NoFile
                      \/ FileFails(p)
    OBVIOUS
  <2> DEFINE k == proc[p].clntSock
             d == proc[p].clntDtpSock
             c == ClientOf(p)
  <2>1. PICK q \in Procs : Serve(q)
    <3>1. \A e \in Clients : Use(e) \/ Fail(e) => proc' = proc
      BY DEF Use, Fail, serverVars
    <3> QED
      BY <3>1 DEF Next, Alive
  <2>2. q = p
    BY <2>1, ServeObeys DEF Serve, NInv, PInv, IInv, TypeOK, At, Alive
  <2>3. \/ chan[k].end["c"] # "open"
        \/ At(p, "hello") /\ chan[k].in["s"] # <<>> /\ ~ Greeted(k)
        \/ At(p, "dtphello") /\ chan[d].in["s"] # <<>> /\ ~ Greeted(d)
        \/ /\ proc[p].pc \in {"dtphello", "dtphi", "RETR", "listdata"}
           /\ chan[d].end["c"] # "open"
        \/ "fork" \in Faults /\ At(p, "fork")
        \/ "accept" \in Faults /\ At(p, "dtpaccept")
        \/ At(p, "RETR") /\ proc[p].arg = NoFile
        \/ FileFails(p)
    BY <2>1, <2>2, DieReasons DEF Serve, NInv, PInv, IInv, TypeOK, At
  <2>4. Serving(p)
    <3>1. Handles(p) \/ Accepts(p) \/ Forks(p) \/ Serving(p)
      BY <2>1, <2>2, ServeSplit DEF NInv, PInv
    <3>2. ~ Accepts(p)
      BY <2>1, AcceptsTakes DEF Serve, NInv, PInv, At
    <3>3. Forks(p) => Serving(p)
      BY DEF Forks, Serving, At
    <3> QED
      BY <3>1, <3>2, <3>3 DEF Handles
  <2>5. k \in Conns /\ chan[k].port = "pi" /\ c = k[1] /\ c \in Clients
    BY <2>4, SocksApart DEF NInv, PInv, ClientOf, Conns
  <2>6. chan[k].end["c"] = "open"
    BY <2>5 DEF NInv, PInv, ConnsInv, PiOpen
  <2>7. Tied(c) /\ Greeting(c) /\ InTouch(p)
    BY <2>5 DEF NInv, PInv, ClientsInv, ProcsInv
  <2>8. ~ At(p, "session") =>
          Paired(cl[c].pc, proc[p].pc, chan[k].in["s"], chan[k].in["c"])
    BY <2>4, <2>5, <2>7 DEF InTouch
  <2>9. At(p, "hello") => chan[k].in["s"] = <<>> \/ Greeted(k)
    <3>1. At(p, "hello") => Arriving(cl[c].pc, chan[k].in["s"], chan[k].in["c"])
      BY <2>8 DEF At, Paired, Meeting, Asking, Echoing, Joining, Listing, Fetching, Storing, Commands
    <3> QED
      BY <3>1 DEF Arriving, Greeted
  <2>10. proc[p].pc \in {"dtphello", "dtphi", "RETR", "listdata"} => d = cl[c].dtpSock
    BY PcServes DEF TransferPc
  <2>11. At(p, "dtphello") =>
           /\ cl[c].pc \in WithData
           /\ chan[d].in["s"] = <<>> \/ Greeted(d)
    BY <2>5, <2>7, <2>10 DEF Greeting, Knocks, At, CAt, WithData, Greeted
  <2>12. At(p, "dtphi") => cl[c].pc \in WithData
    BY <2>5, <2>7, <2>10 DEF Greeting, At, CAt, WithData
  <2>13. proc[p].pc \in {"RETR", "listdata"} => cl[c].pc \in WithData
    BY <2>8, PairedData DEF At
  <2>14. proc[p].pc \in {"dtphello", "dtphi", "RETR", "listdata"} => chan[d].end["c"] = "open"
    BY <2>7, <2>10, <2>11, <2>12, <2>13 DEF Tied, Attached, At
  <2>15. At(p, "RETR") /\ proc[p].arg = NoFile => "file" \in Faults
    BY DEF NInv, NamedProcs
  <2> QED
    BY <2>3, <2>6, <2>9, <2>11, <2>14, <2>15
<1> QED
  BY <1>1, NamesInvariance, PTL DEF Spec, DeathsExplained, FileFails

-----------------------------------------------------------------------------
(* The session, as Session.tla tells it.  One thing can disturb it: that    *)
(* a process takes the data connection of another process' client, whose    *)
(* handler then goes on without its own server.  As long as data            *)
(* connections match, a process that waits for one has a client that has    *)
(* not come as far, or whose connection waits in the queue.                 *)
Awaits(p) == LET k == proc[p].clntSock
                 c == k[1]
             IN
    At(p, "dtpaccept") /\ Running(c) /\ cl[c].sock = k =>
        \/ cl[c].pc \in {"addr", "connect"}
        \/ cl[c].pc \in {"dtphello", "dtphi"} /\ cl[c].dtpSock \in Waiting("dtp")
AllAwait == \A p \in Procs : Awaits(p)

(* The client of a process that waits for a data connection, and goes on.   *)
LEMMA TalkAwaits ==
    ASSUME NEW live, NEW cpc, NEW u, NEW w, NEW cpc2, NEW u2, NEW w2,
           ClientTalk(live, cpc, u, w, cpc2, u2, w2),
           cpc \in {"addr", "dtphello", "dtphi"}
    PROVE  \/ cpc = "addr" /\ cpc2 = "connect"
           \/ cpc = "dtphello" /\ cpc2 = "dtphi"
           \/ cpc = "dtphi" /\ cpc2 \in {"LIST", "RETR", "STOR"}
BY DEF ClientTalk, Requests, Reads, Turns

(* PASV begins so,                                                          *)
LEMMA HandlesAwaits ==
    ASSUME PInv, NEW r \in Procs, Handles(r), AllAwait, NEW p \in Procs
    PROVE  Awaits(p)'
<1> DEFINE k == proc[p].clntSock
           c == k[1]
<1> SUFFICES ASSUME At(p, "dtpaccept")', Running(c)', cl'[c].sock = k, proc'[p].clntSock = k
             PROVE  \/ cl'[c].pc \in {"addr", "connect"}
                    \/ cl'[c].pc \in {"dtphello", "dtphi"} /\ cl'[c].dtpSock \in Waiting("dtp")'
  BY DEF Awaits, Handles
<1>1. cl' = cl /\ Waiting("dtp")' = Waiting("dtp")
  BY DEF Handles, Waiting
<1>2. CASE r = p
  <2> DEFINE spc == proc[p].pc
             u == chan[k].in["s"]
             w == chan[k].in["c"]
             spc2 == proc'[p].pc
             u2 == chan'[k].in["s"]
             w2 == chan'[k].in["c"]
             cpc == cl[c].pc
  <2>1. Paired(cpc, spc, u, w) /\ ServerTalk(TRUE, spc, u, w, spc2, u2, w2) /\ spc2 = "dtpaccept"
    BY <1>1, <1>2, HandlesPair DEF Running, At
  <2> HIDE DEF spc, u, w, spc2, u2, w2, cpc
  <2>2. spc = "PASV"
    BY <2>1 DEF ServerTalk, Replies, Hears, Works, Commands
  <2>3. cpc = "addr"
    BY <2>1, <2>2 DEF Paired, Meeting, Asking, Asks, Echoing, Joining, Listing, Fetching, Storing
  <2> QED
    BY <1>1, <2>3 DEF cpc
<1>3. CASE r # p
  <2>1. proc'[p] = proc[p]
    BY <1>3 DEF Handles
  <2> QED
    BY <1>1, <2>1 DEF AllAwait, Awaits, At, Running
<1> QED
  BY <1>2, <1>3

(* and ends when the connection is accepted, by its own process;            *)
LEMMA AcceptsAwaits ==
    ASSUME PInv, NEW r \in Procs, Accepts(r), UNCHANGED cl, AllAwait, DataConnMatches',
           NEW p \in Procs
    PROVE  Awaits(p)'
<1> DEFINE k == proc[p].clntSock
           c == k[1]
<1>1. PICK l \in Conns :
        \/ /\ Takes(r, "pi", l) /\ At(r, "accept") /\ At(r, "hello")'
           /\ proc'[r].clntSock = l /\ proc'[r].clntDtpSock = proc[r].clntDtpSock
        \/ /\ Takes(r, "dtp", l) /\ At(r, "dtpaccept") /\ At(r, "dtphello")'
           /\ proc'[r].clntSock = proc[r].clntSock /\ proc'[r].clntDtpSock = l
  BY AcceptsTakes DEF PInv
<1> SUFFICES ASSUME At(p, "dtpaccept")', Running(c)', cl'[c].sock = k, p # r, proc'[p] = proc[p]
             PROVE  \/ cl'[c].pc \in {"addr", "connect"}
                    \/ cl'[c].pc \in {"dtphello", "dtphi"} /\ cl'[c].dtpSock \in Waiting("dtp")'
  BY <1>1 DEF Awaits, Takes, At
<1>2. cl' = cl /\ At(p, "dtpaccept") /\ Running(c) /\ cl[c].sock = k
  BY DEF At, Running
<1>3. \/ cl[c].pc \in {"addr", "connect"}
      \/ cl[c].pc \in {"dtphello", "dtphi"} /\ cl[c].dtpSock \in Waiting("dtp")
  BY <1>2 DEF AllAwait, Awaits
<1>4. Serving(p) /\ k \in Conns /\ c \in Clients
  <2>1. Serving(p)
    BY <1>2, PcServes DEF At, ServingPc
  <2> QED
    BY <2>1, SocksApart DEF PInv, Conns
<1>5. ASSUME cl[c].dtpSock \in Waiting("dtp"), cl[c].dtpSock \notin Waiting("dtp")'
      PROVE  FALSE
  <2>1. l = cl[c].dtpSock
    BY <1>1, <1>5 DEF Takes, Ports
  <2>2. chan[l].port = "dtp"
    BY <1>5, <2>1, WaitingConns DEF PInv, Ports
  <2>3. Takes(r, "dtp", l) /\ At(r, "dtpaccept") /\ At(r, "dtphello")'
        /\ proc'[r].clntSock = proc[r].clntSock /\ proc'[r].clntDtpSock = l
    BY <1>1, <2>2 DEF Takes
  <2> DEFINE e == proc[r].clntSock[1]
  <2>4. Serving(r) /\ proc[r].clntSock \in Conns /\ e \in Clients
    <3>1. Serving(r)
      BY <2>3, PcServes DEF At, ServingPc
    <3> QED
      BY <3>1, SocksApart DEF PInv, Conns
  <2>5. l = cl[e].dtpSock
    <3>1. Transferring(r)'
      BY <2>3, PcServes DEF At, TransferPc
    <3> QED
      BY <1>2, <2>3, <3>1 DEF DataConnMatches, ClientOf
  <2>6. e = c
    <3>1. Owned(e) /\ Owned(c)
      BY <1>4, <2>4 DEF PInv, ClientsInv, Tied
    <3> QED
      BY <2>1, <2>5, <3>1 DEF Owned
  <2>7. proc[r].clntSock = k
    <3>1. InTouch(r)
      BY DEF PInv, ProcsInv
    <3> QED
      BY <1>2, <2>3, <2>4, <2>6, <3>1 DEF InTouch, At
  <2> QED
    BY <1>4, <2>4, <2>7 DEF PInv, IInv, Apart, ControlApart
<1> QED
  BY <1>2, <1>3, <1>5

(* fork, and the death of another process, leave the queue alone.           *)
LEMMA OtherAwaits ==
    ASSUME PInv, NEW r \in Procs, Forks(r) \/ (Serving(r) /\ Die(r)), UNCHANGED cl, AllAwait,
           NEW p \in Procs
    PROVE  Awaits(p)'
<1>1. SUFFICES ASSUME At(p, "dtpaccept")'
               PROVE  Awaits(p)'
  BY DEF Awaits
<1>t. proc \in [Procs -> Process]
  BY DEF PInv, IInv, TypeOK, ServerType
<1>2. CASE Forks(r)
  <2>1. PICK q \in Procs :
          /\ At(q, "none") /\ UNCHANGED sockets
          /\ proc' = [proc EXCEPT ![q] = [proc[r] EXCEPT !.pc = "session"], ![r].pc = "accept"]
    BY <1>2 DEF Forks
  <2>2. proc'[p] = proc[p]
    BY <1>1, <1>t, <2>1 DEF At, Process
  <2>3. Waiting("dtp")' = Waiting("dtp")
    BY <2>1 DEF sockets, Waiting
  <2> QED
    BY <2>2, <2>3 DEF AllAwait, Awaits, At, Running
<1>3. CASE Serving(r) /\ Die(r)
  <2>1. p # r /\ proc'[p] = proc[p]
    BY <1>1, <1>3, DieShuts DEF PInv, At
  <2>2. Alive(p)
    BY <1>1, <2>1 DEF Alive, At
  <2>3. backlog' = backlog
    BY <1>3, <2>1, <2>2 DEF Die
  <2>4. Waiting("dtp")' = Waiting("dtp")
    BY <2>3 DEF Waiting
  <2> QED
    BY <2>1, <2>4 DEF AllAwait, Awaits, At, Running
<1> QED
  BY <1>2, <1>3

(* The client makes its data connection; before it was accepted nobody      *)
(* answers it on that.                                                      *)
LEMMA UseAwaits ==
    ASSUME Brief, PInv, NEW e \in Clients, Use(e) \/ Fail(e), AllAwait, NEW p \in Procs
    PROVE  Awaits(p)'
<1> DEFINE k == proc[p].clntSock
           c == k[1]
<1>1. proc' = proc
  BY DEF Use, Fail, serverVars
<1> SUFFICES ASSUME At(p, "dtpaccept"), Running(c)', cl'[c].sock = k
             PROVE  \/ cl'[c].pc \in {"addr", "connect"}
                    \/ cl'[c].pc \in {"dtphello", "dtphi"} /\ cl'[c].dtpSock \in Waiting("dtp")'
  BY <1>1 DEF Awaits, At
<1>2. Serving(p) /\ k \in Conns /\ c \in Clients /\ chan[k].port = "pi"
  <2>1. Serving(p)
    BY PcServes DEF At, ServingPc
  <2> QED
    BY <2>1, SocksApart DEF PInv, Conns
<1>3. Running(c) /\ cl[c].sock = k =>
        \/ cl[c].pc \in {"addr", "connect"}
        \/ cl[c].pc \in {"dtphello", "dtphi"} /\ cl[c].dtpSock \in Waiting("dtp")
  BY DEF AllAwait, Awaits
<1>4. Runs(e) \/ Opens(e) \/ Links(e) \/ Leaves(e)
  BY UseSplit DEF PInv, ClientsInv
<1>5. CASE Runs(e)
  <2>1. /\ Beside(e) /\ Waiting("dtp")' = Waiting("dtp")
        /\ Running(e)
    BY <1>5, RunsBeside
  <2>2. CASE c # e
    BY <1>2, <1>3, <2>1, <2>2 DEF Beside, Running
  <2>3. CASE c = e
    <3> DEFINE d == cl[c].dtpSock
    <3>1. cl[c].sock = k /\ cl'[c].dtpSock = d /\ cl[c].pc # "connect"
      BY <1>5, <2>3 DEF Runs
    <3>2. ClientTalk(chan[k].end["s"] = "open", cl[c].pc, chan[k].in["s"], chan[k].in["c"],
                     cl'[c].pc, chan'[k].in["s"], chan'[k].in["c"])
      BY <1>2, <1>5, <2>3, <3>1 DEF Runs
    <3>3. \/ cl[c].pc = "addr" /\ cl'[c].pc = "connect"
          \/ cl[c].pc = "dtphello" /\ cl'[c].pc = "dtphi"
          \/ cl[c].pc = "dtphi" /\ cl'[c].pc \in {"LIST", "RETR", "STOR"}
      <4>1. cl[c].pc \in {"addr", "dtphello", "dtphi"}
        BY <1>3, <2>1, <2>3, <3>1
      <4> DEFINE live == chan[k].end["s"] = "open"
                 cpc == cl[c].pc
                 u == chan[k].in["s"]
                 w == chan[k].in["c"]
                 cpc2 == cl'[c].pc
                 u2 == chan'[k].in["s"]
                 w2 == chan'[k].in["c"]
      <4>2. ClientTalk(live, cpc, u, w, cpc2, u2, w2)
        BY <3>2
      <4> HIDE DEF live, cpc, u, w, cpc2, u2, w2
      <4>3. cpc \in {"addr", "dtphello", "dtphi"}
        BY <4>1 DEF cpc
      <4>4. \/ cpc = "addr" /\ cpc2 = "connect"
            \/ cpc = "dtphello" /\ cpc2 = "dtphi"
            \/ cpc = "dtphi" /\ cpc2 \in {"LIST", "RETR", "STOR"}
        BY <4>2, <4>3, TalkAwaits
      <4> QED
        BY <4>4 DEF cpc, cpc2
    <3>4. cl[c].pc # "dtphi"
      <4> SUFFICES ASSUME cl[c].pc = "dtphi" PROVE FALSE
        OBVIOUS
      <4>1. d \in Waiting("dtp")
        BY <1>3, <2>1, <2>3, <3>1
      <4>2. chan[d].end["s"] = "open"
        BY <4>1, WaitingConns DEF PInv, Ports
      <4>3. chan[d].in["c"] = <<>>
        BY <1>2, <2>1, <2>3, <4>1 DEF PInv, ClientsInv, Greeting, Knocks
      <4> QED
        BY <1>5, <2>3, <4>2, <4>3 DEF Runs
    <3> QED
      BY <1>3, <2>1, <2>3, <3>1, <3>3, <3>4
  <2> QED
    BY <2>2, <2>3
<1>6. CASE Opens(e) \/ Links(e)
  <2>1. \A a \in Clients \ {e} : cl'[a] = cl[a]
    BY <1>6 DEF Opens, Links, PInv, IInv, TypeOK, ClientType
  <2>2. /\ Waiting("dtp") \subseteq Waiting("dtp")'
        /\ Links(e) => NewConn(e) \in Waiting("dtp")'
    <3>1. Opens(e) => Makes(e, "pi")
      BY <2>1, NewMakes DEF Opens, Ports
    <3>2. Links(e) => Makes(e, "dtp")
      BY <2>1, NewMakes DEF Links, Ports
    <3> QED
      BY <1>6, <3>1, <3>2 DEF Makes, Ports
  <2>3. CASE c # e
    <3>1. cl'[c] = cl[c]
      BY <1>2, <2>1, <2>3
    <3>2. Running(c)
      BY <1>1, <3>1 DEF Running
    <3>3. \/ cl[c].pc \in {"addr", "connect"}
          \/ cl[c].pc \in {"dtphello", "dtphi"} /\ cl[c].dtpSock \in Waiting("dtp")
      BY <1>3, <3>1, <3>2
    <3> QED
      BY <2>2, <3>1, <3>3
  <2>4. CASE c = e /\ Opens(e)
    <3>1. cl'[c].sock = NewConn(c) /\ chan[NewConn(c)].port = "none"
      BY <2>4 DEF Opens, PInv, IInv, TypeOK, ClientType, Client
    <3> QED
      BY <1>2, <3>1
  <2>5. CASE c = e /\ Links(e)
    <3>1. cl'[c].pc = "dtphello" /\ cl'[c].dtpSock = NewConn(c)
      BY <2>5 DEF Links, PInv, IInv, TypeOK, ClientType, Client
    <3> QED
      BY <2>2, <2>5, <3>1
  <2> QED
    BY <1>6, <2>3, <2>4, <2>5
<1>7. CASE Leaves(e)
  <2>1. Beside(e) /\ Waiting("dtp")' = Waiting("dtp") /\ ~ Running(e)'
    BY <1>7, LeavesShuts DEF Running
  <2> QED
    BY <1>2, <1>3, <2>1 DEF Beside, Running
<1> QED
  BY <1>4, <1>5, <1>6, <1>7

(* Every step keeps it so,                                                  *)
LEMMA StepAwaits ==
    ASSUME Brief, PInv, AllAwait, [Next]_vars, DataConnMatches'
    PROVE  AllAwait'
<1> SUFFICES ASSUME NEW p \in Procs
             PROVE  Awaits(p)'
  BY DEF AllAwait
<1>1. CASE UNCHANGED vars
  <2>1. proc' = proc /\ cl' = cl /\ Waiting("dtp")' = Waiting("dtp")
    BY <1>1 DEF vars, sockets, serverVars, Waiting
  <2> QED
    BY <2>1 DEF AllAwait, Awaits, At, Running
<1>2. ASSUME NEW r \in Procs, Serve(r)
      PROVE  Awaits(p)'
  <2>1. UNCHANGED cl
    BY <1>2 DEF Serve
  <2>2. Handles(r) \/ Accepts(r) \/ Forks(r) \/ (Serving(r) /\ Die(r))
    BY <1>2, ServeSplit DEF PInv
  <2> QED
    BY <2>1, <2>2, HandlesAwaits, AcceptsAwaits, OtherAwaits
<1> QED
  BY <1>1, <1>2, UseAwaits DEF Next

(* Nobody waits at the start.                                               *)
LEMMA InitAwaits == Init => AllAwait
BY DEF Init, ServerInit, AllAwait, Awaits, At

(* and so it is throughout.                                                 *)
LEMMA AwaitsInvariance ==
    ASSUME Brief
    PROVE  Spec /\ []DataConnMatches => []AllAwait
<1>1. Brief /\ PInv /\ AllAwait /\ [Next]_vars /\ DataConnMatches' => AllAwait'
  BY StepAwaits
<1> QED
  BY <1>1, InitAwaits, PairInvariance, PTL DEF Spec

(* What Want and Doing show, told of the points of a client and of its      *)
(* process and of what waits for the process.                               *)
Wants(cpc) == IF cpc \in DOMAIN Awaited THEN Awaited[cpc] ELSE "none"
Does(spc, u) ==
    IF spc \in DOMAIN Handler THEN Handler[spc]
    ELSE IF spc \in Commands THEN spc
    ELSE IF u = <<>> THEN "none" ELSE "asked"

(* The command a point of a client's handler belongs to,                    *)
LEMMA WantsIs ==
    ASSUME NEW cpc
    PROVE  /\ cpc = "userR" => Wants(cpc) = "User"
           /\ cpc = "sysyR" => Wants(cpc) = "SYSY"
           /\ cpc \in {"addr", "connect", "dtphello", "dtphi"} => Wants(cpc) = "PASV"
           /\ cpc \in {"list150", "listdata", "listdone"} => Wants(cpc) = "LIST"
           /\ cpc \in {"retrsize", "download", "retrdone"} => Wants(cpc) = "RETR"
           /\ cpc \in {"storok", "upload", "SIZE", "stordone"} => Wants(cpc) = "STOR"
           /\ cpc = "cwdR" => Wants(cpc) = "CWD"
           /\ cpc \in {"ok", "text", "textR"} => Wants(cpc) = "ECHO"
           /\ cpc = "quitR" => Wants(cpc) = "QUIT"
           /\ cpc \in {"prompt", "hello", "hi", "User", "SYSY", "PASV", "LIST", "RETR", "STOR",
                       "CWD", "ECHO", "QUIT"} => Wants(cpc) = "none"
BY DEF Wants, Awaited

(* and that of a server's.                                                  *)
LEMMA DoesIs ==
    ASSUME NEW spc, NEW u
    PROVE  /\ spc \in Commands => Does(spc, u) = spc
           /\ spc \in {"dtpaccept", "dtphello", "dtphi"} => Does(spc, u) = "PASV"
           /\ spc \in {"echotext", "echoback"} => Does(spc, u) = "ECHO"
           /\ spc \in {"storsize", "download", "stordone"} => Does(spc, u) = "STOR"
           /\ spc \in {"retrsize", "retrdone"} => Does(spc, u) = "RETR"
           /\ spc \in {"listdata", "listdone"} => Does(spc, u) = "LIST"
           /\ spc \in {"fork", "session"} => Does(spc, u) = IF u = <<>> THEN "none" ELSE "asked"
BY DEF Does, Handler, Commands

(* In a session, and the points from PASV to its data connection.           *)
SessionPc == ServingPc \ {"hello", "hi"}
PasvPc == {"dtpaccept", "dtphello", "dtphi"}
ComingPc == {"addr", "connect", "dtphello", "dtphi"}

(* A move of the server begins the command its client waits for, ends the   *)
(* one it is at, or goes on with it.                                        *)
LEMMA ServerShows ==
    ASSUME NEW cpc, NEW spc, NEW u, NEW w, NEW spc2, NEW u2, NEW w2,
           Paired(cpc, spc, u, w), ServerTalk(TRUE, spc, u, w, spc2, u2, w2),
           spc \in SessionPc, spc2 # "accept", spc \in PasvPc => cpc \in ComingPc
    PROVE  \/ Does(spc2, u2) = Does(spc, u)
           \/ Does(spc, u) = "asked" /\ Does(spc2, u2) = Wants(cpc)
           \/ Does(spc, u) \in Commands /\ Does(spc2, u2) = "none"
<1>1. CASE u2 = u /\ \E t \in Texts : Replies(spc, t, spc2)
  <2>1. PICK t \in Texts : Replies(spc, t, spc2)
    BY <1>1
  <2>2. spc2 = "session" => u = <<>>
    BY <2>1 DEF Replies, Paired, Meeting, Arriving, Silent, Asking, Asks, Echoing, Joining, Listing,
       Fetching, Storing, Commands
  <2>3. spc \in {"User", "SYSY", "PASV", "ECHO", "echoback", "STOR", "stordone", "retrsize",
                 "retrdone", "LIST", "listdone", "CWD"}
    BY <2>1 DEF Replies, SessionPc
  <2>4. spc2 # "session" => Does(spc2, u) = Does(spc, u)
    BY <2>1, DoesIs DEF Replies, SessionPc, Commands
  <2>5. Does(spc, u) \in Commands
    BY <2>3, DoesIs DEF Commands
  <2>6. spc2 = "session" => Does(spc2, u2) = "none"
    BY <1>1, <2>2, DoesIs
  <2> QED
    BY <1>1, <2>4, <2>5, <2>6
<1>2. CASE Hears(spc, u, spc2) /\ Shrunk(u, u2)
  <2>1. CASE spc = "session"
    <3>1. PICK t \in Texts : Is(u, t)
      BY <1>2, PairedDue DEF Shrunk
    <3>2. u[1].t = t /\ u2 = <<>> /\ u # <<>>
      BY <1>2, <3>1 DEF Is, Shrunk
    <3>3. t \in Commands /\ t = Wants(cpc)
      <4>1. \/ t \in Commands /\ (Asks(cpc, t) \/ Orders(cpc, t))
            \/ t = "User" /\ cpc = "userR"
        BY <2>1, <3>1, <3>2 DEF Paired, Meeting, Arriving, Silent, Asking, Echoing, Joining, Listing,
           Fetching, Storing, Is, Commands
      <4> QED
        BY <4>1, WantsIs DEF Asks, Orders, Commands
    <3>4. spc2 = t
      BY <1>2, <2>1, <3>2, <3>3 DEF Hears
    <3> QED
      BY <2>1, <3>2, <3>3, <3>4, DoesIs
  <2>2. CASE spc # "session"
    BY <1>2, <2>2, DoesIs DEF Hears, SessionPc
  <2> QED
    BY <2>1, <2>2
<1>3. CASE Works(spc, spc2) /\ u2 = u
  <2>1. CASE spc = "dtphi"
    <3>1. u = <<>>
      BY <2>1 DEF Paired, Meeting, Arriving, Silent, Asking, Echoing, Joining, Orders, Listing,
         Fetching, Storing, PasvPc, ComingPc, Commands
    <3> QED
      BY <1>3, <2>1, <3>1, DoesIs DEF Works, Commands
  <2>2. CASE spc # "dtphi"
    BY <1>3, <2>2, DoesIs DEF Works, Commands
  <2> QED
    BY <2>1, <2>2
<1> QED
  BY <1>1, <1>2, <1>3 DEF ServerTalk

(* A move of the client asks for a command where nothing is asked or done,  *)
(* returns from one that is done, or neither.                               *)
LEMMA ClientShows ==
    ASSUME NEW cpc, NEW spc, NEW u, NEW w, NEW cpc2, NEW u2, NEW w2,
           Paired(cpc, spc, u, w), ClientTalk(TRUE, cpc, u, w, cpc2, u2, w2),
           spc \in SessionPc, spc \in PasvPc => cpc2 \in ComingPc
    PROVE  \/ Wants(cpc2) = Wants(cpc) /\ Does(spc, u2) = Does(spc, u)
           \/ /\ Wants(cpc) = "none" /\ Does(spc, u) = "none"
              /\ Wants(cpc2) \in Commands /\ Does(spc, u2) = "asked"
           \/ /\ Wants(cpc) # "none" /\ Does(spc, u) = "none"
              /\ Wants(cpc2) = "none" /\ Does(spc, u2) = "none"
<1>1. CASE \E t \in Texts : Requests(cpc, t, cpc2) /\ Grown(u, t, u2)
  <2>1. PICK t \in Texts : Requests(cpc, t, cpc2) /\ Grown(u, t, u2)
    BY <1>1
  <2>2. CASE cpc \in {"User", "SYSY", "PASV", "LIST", "RETR", "STOR", "CWD", "ECHO", "QUIT"}
    <3>1. spc \in {"fork", "session"} /\ u = <<>>
      BY <2>1, <2>2 DEF Requests, Paired, Meeting, Arriving, Silent, Asking, Asks, Concludes, Echoing,
         Joining, Orders, Listing, Fetching, Storing, Commands, PasvPc, ComingPc, SessionPc
    <3>2. u2 # <<>>
      BY <2>1, <3>1, IsOne DEF Grown
    <3>3. Wants(cpc) = "none" /\ Wants(cpc2) \in Commands
      BY <2>1, <2>2, WantsIs DEF Requests, Commands
    <3> QED
      BY <3>1, <3>2, <3>3, DoesIs
  <2>3. CASE cpc \in {"hello", "SIZE", "text"}
    <3>1. spc \in {"storsize", "echotext"} /\ cpc # "hello"
      BY <2>3 DEF Paired, Meeting, Arriving, Silent, Asking, Asks, Concludes, Echoing,
         Joining, Orders, Listing, Fetching, Storing, Commands, SessionPc
    <3> QED
      BY <2>1, <2>3, <3>1, WantsIs, DoesIs DEF Requests
  <2> QED
    BY <2>1, <2>2, <2>3 DEF Requests
<1>2. CASE Reads(cpc, cpc2) /\ Shrunk(w, w2) /\ u2 = u
  <2>1. w # <<>>
    BY <1>2 DEF Shrunk
  <2>2. CASE cpc \in {"hi", "addr", "list150", "retrsize", "storok", "ok"}
    BY <1>2, <2>2, WantsIs DEF Reads
  <2>3. CASE cpc \in {"userR", "sysyR", "listdone", "retrdone", "stordone", "cwdR", "textR"}
    <3>1. spc = "session" /\ u = <<>>
      BY <2>1, <2>3 DEF Paired, Meeting, Arriving, Silent, Asking, Asks, Concludes, Echoing,
         Joining, Orders, Listing, Fetching, Storing, Commands, SessionPc
    <3>2. Wants(cpc) # "none" /\ Wants(cpc2) = "none"
      BY <1>2, <2>3, WantsIs DEF Reads
    <3> QED
      BY <1>2, <3>1, <3>2, DoesIs
  <2> QED
    BY <1>2, <2>2, <2>3 DEF Reads
<1>3. CASE Turns(cpc, cpc2) /\ u2 = u
  <2>1. CASE cpc = "dtphi"
    <3>1. spc = "session" /\ u = <<>>
      BY <1>3, <2>1 DEF Turns, Paired, Meeting, Arriving, Silent, Asking, Asks, Concludes, Echoing,
         Joining, Orders, Listing, Fetching, Storing, Commands, SessionPc, PasvPc, ComingPc
    <3>2. Wants(cpc) # "none" /\ Wants(cpc2) = "none"
      BY <1>3, <2>1, WantsIs DEF Turns
    <3> QED
      BY <1>3, <3>1, <3>2, DoesIs
  <2>2. CASE cpc # "dtphi"
    BY <1>3, <2>2, WantsIs DEF Turns
  <2> QED
    BY <2>1, <2>2
<1> QED
  BY <1>1, <1>2, <1>3 DEF ClientTalk

(* The processes in a session or before its fork.                           *)
LEMMA ServersAre ==
    ASSUME NEW c
    PROVE  /\ Servers(c) = {p \in Procs : /\ proc[p].pc \in SessionPc
                                          /\ proc[p].clntSock = cl[c].sock}
           /\ Servers(c)' = {p \in Procs : /\ proc'[p].pc \in SessionPc
                                           /\ proc'[p].clntSock = cl'[c].sock}
<1>1. \A p : InSession(p) \/ At(p, "fork") <=> proc[p].pc \in SessionPc
  BY DEF InSession, At, SessionPc, ServingPc, Commands
<1>2. \A p : (InSession(p) \/ At(p, "fork"))' <=> proc'[p].pc \in SessionPc
  BY DEF InSession, At, SessionPc, ServingPc, Commands
<1> QED
  BY <1>1, <1>2 DEF Servers

(* A client has one of them at most.                                        *)
LEMMA OneServer ==
    ASSUME IInv, IInv', NEW c
    PROVE  /\ \A p, q \in Servers(c) : p = q
           /\ \A p, q \in Servers(c)' : p = q
<1>1. /\ \A p \in Procs : proc[p].pc \in SessionPc => Serving(p)
      /\ \A p \in Procs : proc'[p].pc \in SessionPc => Serving(p)'
  BY PcServes DEF SessionPc
<1> QED
  BY <1>1, ServersAre DEF IInv, Apart, ControlApart

(* What the session shows of a client that is served,                       *)
LEMMA ShownServed ==
    ASSUME NEW c, Running(c), NEW p \in Servers(c), \A q \in Servers(c) : q = p
    PROVE  /\ Want(c) = Wants(cl[c].pc)
           /\ Doing(c) = Does(proc[p].pc, chan[cl[c].sock].in["s"])
<1> DEFINE r == CHOOSE q \in Servers(c) : TRUE
<1>1. r = p /\ Served(c)
  BY DEF Served
<1>2. Doing(c) = Does(proc[r].pc, chan[cl[c].sock].in["s"])
  <2> HIDE DEF r
  <2>1. Doing(c) = (CASE proc[r].pc \in DOMAIN Handler -> Handler[proc[r].pc]
                      [] proc[r].pc \in Commands -> proc[r].pc
                      [] proc[r].pc \in {"fork", "session"} ->
                            IF chan[cl[c].sock].in["s"] = <<>> THEN "none" ELSE "asked")
    BY <1>1 DEF Doing, r
  <2>2. /\ DOMAIN Handler \cap Commands = {}
        /\ DOMAIN Handler \cap {"fork", "session"} = {}
        /\ Commands \cap {"fork", "session"} = {}
        /\ SessionPc \subseteq DOMAIN Handler \cup Commands \cup {"fork", "session"}
    BY DEF Handler, Commands, SessionPc, ServingPc
  <2>3. proc[r].pc \in SessionPc
    BY <1>1, ServersAre
  <2> QED
    BY <2>1, <2>2, <2>3 DEF Does
<1> QED
  BY <1>1, <1>2 DEF Want, Wants

(* so in the next state;                                                    *)
LEMMA ShownNext ==
    ASSUME NEW c, Running(c)', NEW p \in Servers(c)', \A q \in Servers(c)' : q = p
    PROVE  /\ Want(c)' = Wants(cl'[c].pc)
           /\ Doing(c)' = Does(proc'[p].pc, chan'[cl'[c].sock].in["s"])
<1> DEFINE r == CHOOSE q \in Servers(c)' : TRUE
           u == chan'[cl'[c].sock].in["s"]
<1>1. r = p /\ Served(c)'
  BY DEF Served
<1>2. Doing(c)' = Does(proc'[r].pc, u)
  <2> HIDE DEF r
  <2>1. Doing(c)' = (CASE proc'[r].pc \in DOMAIN Handler -> Handler[proc'[r].pc]
                       [] proc'[r].pc \in Commands -> proc'[r].pc
                       [] proc'[r].pc \in {"fork", "session"} ->
                             IF u = <<>> THEN "none" ELSE "asked")
    BY <1>1 DEF Doing, r, Handler, Commands
  <2>2. /\ DOMAIN Handler \cap Commands = {}
        /\ DOMAIN Handler \cap {"fork", "session"} = {}
        /\ Commands \cap {"fork", "session"} = {}
        /\ SessionPc \subseteq DOMAIN Handler \cup Commands \cup {"fork", "session"}
    BY DEF Handler, Commands, SessionPc, ServingPc
  <2>3. proc'[r].pc \in SessionPc
    BY <1>1, ServersAre
  <2> HIDE DEF u
  <2> QED
    BY <2>1, <2>2, <2>3 DEF Does
<1> QED
  BY <1>1, <1>2 DEF Want, Wants, Awaited

(* and of one that is not.                                                  *)
LEMMA ShownAlone ==
    ASSUME NEW c
    PROVE  /\ ~ Served(c) => Want(c) = "none" /\ Doing(c) = "out"
           /\ ~ Served(c)' => Want(c)' = "none" /\ Doing(c)' = "out"
BY DEF Want, Doing

(* It shows the same where client and process say the same.                 *)
LEMMA SameShown ==
    ASSUME IInv, IInv', NEW c, Running(c)' <=> Running(c),
           Running(c) =>
               /\ cl'[c].sock = cl[c].sock /\ Wants(cl'[c].pc) = Wants(cl[c].pc)
               /\ Servers(c)' = Servers(c)
               /\ \A q \in Servers(c) : Does(proc'[q].pc, chan'[cl[c].sock].in["s"])
                                        = Does(proc[q].pc, chan[cl[c].sock].in["s"])
    PROVE  Want(c)' = Want(c) /\ Doing(c)' = Doing(c)
<1>1. CASE ~ Served(c)
  <2>1. ~ Served(c)'
    BY <1>1 DEF Served
  <2> QED
    BY <1>1, <2>1, ShownAlone
<1>2. CASE Served(c)
  <2>1. Running(c) /\ Running(c)' /\ Servers(c)' = Servers(c)
    BY <1>2 DEF Served
  <2>2. PICK p \in Servers(c) : TRUE
    BY <1>2 DEF Served
  <2>3. p \in Servers(c)' /\ (\A q \in Servers(c) : q = p) /\ (\A q \in Servers(c)' : q = p)
    BY <2>1, OneServer
  <2>4. Want(c) = Wants(cl[c].pc) /\ Doing(c) = Does(proc[p].pc, chan[cl[c].sock].in["s"])
    BY <2>1, <2>3, ShownServed
  <2>5. Want(c)' = Wants(cl'[c].pc) /\ Doing(c)' = Does(proc'[p].pc, chan'[cl'[c].sock].in["s"])
    BY <2>1, <2>3, ShownNext
  <2> QED
    BY <2>1, <2>4, <2>5
<1> QED
  BY <1>1, <1>2

(* A move of the session, as the abstract one makes it.                     *)
Shifts(c) ==
    \/ Want(c)' = Want(c) /\ Doing(c)' = Doing(c)
    \/ Doing(c) = "out" /\ Doing(c)' = "none" /\ Want(c)' = Want(c)
    \/ /\ Want(c) = "none" /\ Doing(c) = "none"
       /\ Want(c)' \in Commands /\ Doing(c)' = "asked"
    \/ Doing(c) = "asked" /\ Doing(c)' = Want(c) /\ Want(c)' = Want(c)
    \/ Doing(c) \in Commands /\ Doing(c)' = "none" /\ Want(c)' = Want(c)
    \/ Want(c) # "none" /\ Doing(c) = "none" /\ Want(c)' = "none" /\ Doing(c)' = "none"
    \/ Want(c)' = "none" /\ Doing(c)' = "out"

(* One client moves, the others stay.                                       *)
LEMMA DialogueStep ==
    ASSUME NEW c \in Clients, Shifts(c),
           \A e \in Clients \ {c} : Want(e)' = Want(e) /\ Doing(e)' = Doing(e)
    PROVE  [Dialogue!Next]_(Dialogue!sessionVars)
<1> DEFINE wants == [e \in Clients |-> Want(e)]
           does == [e \in Clients |-> Doing(e)]
           wants2 == [e \in Clients |-> Want(e)']
           does2 == [e \in Clients |-> Doing(e)']
<1>1. wants' = wants2 /\ does' = does2
  OBVIOUS
<1>2. /\ wants2 = [wants EXCEPT ![c] = Want(c)']
      /\ does2 = [does EXCEPT ![c] = Doing(c)']
  OBVIOUS
<1>3. /\ wants[c] = Want(c) /\ does[c] = Doing(c)
      /\ Want(c)' = Want(c) => wants2 = wants
      /\ Doing(c)' = Doing(c) => does2 = does
  OBVIOUS
<1> HIDE DEF wants, does, wants2, does2
<1>4. \/ wants' = wants /\ does' = does
      \/ does[c] = "out" /\ does' = [does EXCEPT ![c] = "none"] /\ wants' = wants
      \/ \E m \in Commands :
            /\ wants[c] = "none" /\ does[c] = "none"
            /\ wants' = [wants EXCEPT ![c] = m] /\ does' = [does EXCEPT ![c] = "asked"]
      \/ does[c] = "asked" /\ does' = [does EXCEPT ![c] = wants[c]] /\ wants' = wants
      \/ does[c] \in Commands /\ does' = [does EXCEPT ![c] = "none"] /\ wants' = wants
      \/ wants[c] # "none" /\ does[c] = "none" /\ wants' = [wants EXCEPT ![c] = "none"] /\ does' = does
      \/ wants' = [wants EXCEPT ![c] = "none"] /\ does' = [does EXCEPT ![c] = "out"]
  BY <1>1, <1>2, <1>3 DEF Shifts
<1> QED
  BY <1>4 DEF wants, does, Dialogue!Next, Dialogue!Open, Dialogue!Ask, Dialogue!Begin,
     Dialogue!Finish, Dialogue!Return, Dialogue!Leave, Dialogue!sessionVars

(* A process that was told to open a data connection has a client that is   *)
(* at the same, if it runs.                                                 *)
Comes(p) == LET k == proc[p].clntSock
                c == k[1]
            IN
    proc[p].pc \in PasvPc /\ Running(c) /\ cl[c].sock = k => cl[c].pc \in ComingPc
AllCome == \A p \in Procs : Comes(p)

(* It is so wherever data connections match.                                *)
LEMMA AllComing == PInv /\ DataConnMatches /\ AllAwait => AllCome
<1> SUFFICES ASSUME PInv, DataConnMatches, AllAwait, NEW p \in Procs
             PROVE  Comes(p)
  BY DEF AllCome
<1> DEFINE k == proc[p].clntSock
           c == k[1]
<1> SUFFICES ASSUME proc[p].pc \in PasvPc, Running(c), cl[c].sock = k
             PROVE  cl[c].pc \in ComingPc
  BY DEF Comes
<1>1. k \in Conns /\ c \in Clients
  <2>1. Serving(p)
    BY PcServes DEF ServingPc, PasvPc
  <2> QED
    BY <2>1, SocksApart DEF PInv, Conns
<1>2. CASE At(p, "dtpaccept")
  BY <1>2 DEF AllAwait, Awaits, ComingPc
<1>3. CASE proc[p].pc \in {"dtphello", "dtphi"}
  <2>1. proc[p].clntDtpSock = cl[c].dtpSock
    BY <1>3, PcServes DEF DataConnMatches, ClientOf, TransferPc
  <2>2. Greeting(c)
    BY <1>1 DEF PInv, ClientsInv
  <2> QED
    BY <1>3, <2>1, <2>2 DEF Greeting, Knocks, At, CAt, ComingPc
<1> QED
  BY <1>2, <1>3 DEF PasvPc, At

(* Who of the processes and connections is concerned when one of them is    *)
(* served.                                                                  *)
LEMMA ServersOwn ==
    ASSUME PInv, NEW p \in Procs, Serving(p)
    PROVE  LET k == proc[p].clntSock IN
           /\ k \in Conns /\ k[1] \in Clients
           /\ \A e \in Clients \ {k[1]} : cl[e].sock # k
           /\ \A q \in Procs : Serving(q) /\ proc[q].clntSock = k => q = p
<1>1. proc[p].clntSock \in Conns /\ proc[p].clntSock[1] \in Clients
  BY SocksApart DEF PInv, Conns
<1>2. \A e \in Clients : Owned(e)
  BY DEF PInv, ClientsInv, Tied
<1> QED
  BY <1>1, <1>2 DEF Owned, PInv, IInv, Apart, ControlApart

(* A process at work shows in the session of its client only,               *)
LEMMA HandlesElsewhere ==
    ASSUME PInv, IInv', NEW p \in Procs, Handles(p), NEW e, cl[e].sock # proc[p].clntSock
    PROVE  Want(e)' = Want(e) /\ Doing(e)' = Doing(e)
<1> DEFINE l == cl[e].sock
<1>1. /\ cl' = cl /\ proc'[p].clntSock = proc[p].clntSock
      /\ \A q \in Procs \ {p} : proc'[q] = proc[q]
  BY DEF Handles
<1>2. Servers(e)' = Servers(e) /\ p \notin Servers(e)
  <2>1. \A q \in Procs : q # p => proc'[q] = proc[q]
    BY <1>1
  <2>4. proc[p].clntSock # cl[e].sock /\ proc'[p].clntSock # cl[e].sock
    BY <1>1
  <2> DEFINE A == {q \in Procs : proc[q].pc \in SessionPc /\ proc[q].clntSock = cl[e].sock}
             B == {q \in Procs : proc'[q].pc \in SessionPc /\ proc'[q].clntSock = cl'[e].sock}
  <2>2. A = B /\ p \notin A
    BY <1>1, <2>1, <2>4
  <2>3. Servers(e) = A /\ Servers(e)' = B
    BY ServersAre
  <2> QED
    BY <2>2, <2>3
<1>3. ASSUME NEW q \in Servers(e)
      PROVE  chan'[l] = chan[l] /\ proc'[q] = proc[q]
  <2>1. q \in Procs \ {p} /\ proc[q].pc \in ServingPc /\ proc[q].clntSock = l
    BY <1>2, ServersAre DEF SessionPc
  <2>2. Serving(q)
    BY <2>1, PcServes
  <2> QED
    BY <1>1, <2>1, <2>2, HandlesAlone
<1> QED
  BY <1>1, <1>2, <1>3, SameShown DEF PInv, Running

(* where it begins a command, ends one, says hello or good-bye.             *)
LEMMA HandlesShown ==
    ASSUME PInv, PInv', AllCome, NEW p \in Procs, Handles(p),
           NEW k, k = proc[p].clntSock, NEW c, c = k[1]
    PROVE  [Dialogue!Next]_(Dialogue!sessionVars)
<1> DEFINE cpc == cl[c].pc
           spc == proc[p].pc
           spc2 == proc'[p].pc
           u == chan[k].in["s"]
           w == chan[k].in["c"]
           u2 == chan'[k].in["s"]
           w2 == chan'[k].in["c"]
<1>0. IInv /\ IInv'
  BY DEF PInv
<1>1. /\ Serving(p) /\ cl' = cl /\ proc'[p].clntSock = k
      /\ \A q \in Procs \ {p} : proc'[q] = proc[q]
  BY DEF Handles
<1>2. /\ k \in Conns /\ c \in Clients
      /\ \A e \in Clients \ {c} : cl[e].sock # k
      /\ \A q \in Procs : Serving(q) /\ proc[q].clntSock = k => q = p
  BY <1>1, ServersOwn
<1>3. \A e \in Clients \ {c} : Want(e)' = Want(e) /\ Doing(e)' = Doing(e)
  BY <1>0, <1>2, HandlesElsewhere
<1>4. Shifts(c)
  <2>1. CASE ~ Running(c)
    <3>1. ~ Served(c) /\ ~ Served(c)'
      BY <1>1, <2>1 DEF Served, Running
    <3> QED
      BY <3>1, ShownAlone DEF Shifts
  <2>2. CASE cl[c].sock # k
    BY <1>0, <2>2, HandlesElsewhere DEF Shifts
  <2>3. CASE Running(c) /\ cl[c].sock = k
    <3>1. /\ Paired(cpc, spc, u, w) /\ ServerTalk(TRUE, spc, u, w, spc2, u2, w2)
          /\ \/ Paired(cpc, spc2, u2, w2)
             \/ spc2 = "accept"
      BY <2>3, HandlesPair
    <3>2. Running(c)' /\ cl'[c] = cl[c] /\ cl'[c].sock = k
      BY <1>1, <2>3 DEF Running
    <3>3. /\ \A q \in Servers(c) : q = p
          /\ \A q \in Servers(c)' : q = p
          /\ spc \in SessionPc => p \in Servers(c)
          /\ spc2 \in SessionPc => p \in Servers(c)'
          /\ spc \notin SessionPc => Servers(c) = {}
          /\ spc2 \notin SessionPc => Servers(c)' = {}
      <4>1. \A q \in Procs : proc[q].pc \in SessionPc => Serving(q)
        BY PcServes DEF SessionPc
      <4>2. \A q \in Servers(c) : q = p
        BY <1>2, <2>3, <4>1, ServersAre
      <4>3. \A q \in Servers(c)' : q = p
        <5> SUFFICES ASSUME NEW q \in Servers(c)', q # p PROVE FALSE
          OBVIOUS
        <5>1. q \in Procs /\ proc'[q] = proc[q] /\ proc'[q].pc \in SessionPc /\ proc'[q].clntSock = k
          BY <1>1, <3>2, ServersAre
        <5> QED
          BY <1>2, <4>1, <5>1
      <4> QED
        BY <1>1, <2>3, <3>2, <4>2, <4>3, ServersAre
    <3>4. /\ spc \in SessionPc => Want(c) = Wants(cpc) /\ Doing(c) = Does(spc, u)
          /\ spc \notin SessionPc => Want(c) = "none" /\ Doing(c) = "out"
      <4>1. ASSUME spc \in SessionPc
            PROVE  Want(c) = Wants(cpc) /\ Doing(c) = Does(spc, u)
        BY <2>3, <3>3, <4>1, ShownServed
      <4>2. ASSUME spc \notin SessionPc
            PROVE  Want(c) = "none" /\ Doing(c) = "out"
        BY <3>3, <4>2, ShownAlone DEF Served
      <4> QED
        BY <4>1, <4>2
    <3>5. /\ spc2 \in SessionPc => Want(c)' = Wants(cpc) /\ Doing(c)' = Does(spc2, u2)
          /\ spc2 \notin SessionPc => Want(c)' = "none" /\ Doing(c)' = "out"
      <4>1. ASSUME spc2 \in SessionPc
            PROVE  Want(c)' = Wants(cpc) /\ Doing(c)' = Does(spc2, u2)
        BY <3>2, <3>3, <4>1, ShownNext
      <4>2. ASSUME spc2 \notin SessionPc
            PROVE  Want(c)' = "none" /\ Doing(c)' = "out"
        BY <3>3, <4>2, ShownAlone DEF Served
      <4> QED
        BY <4>1, <4>2
    <3>6. spc \in ServingPc /\ (spc \in PasvPc => cpc \in ComingPc)
      BY <1>1, <2>3, PcServes DEF AllCome, Comes
    <3>7. \/ spc \notin SessionPc /\ spc2 \notin SessionPc
          \/ spc \notin SessionPc /\ Does(spc2, u2) = "none" /\ Wants(cpc) = "none" /\ spc2 \in SessionPc
          \/ spc \in SessionPc /\ spc2 \notin SessionPc
          \/ /\ spc \in SessionPc /\ spc2 \in SessionPc
             /\ \/ Does(spc2, u2) = Does(spc, u)
                \/ Does(spc, u) = "asked" /\ Does(spc2, u2) = Wants(cpc)
                \/ Does(spc, u) \in Commands /\ Does(spc2, u2) = "none"
      <4> HIDE DEF cpc, spc, spc2, u, w, u2, w2
      <4>1. CASE spc \in SessionPc
        <5>1. CASE spc2 \in SessionPc
          <6>1. spc2 # "accept"
            BY <5>1 DEF SessionPc, ServingPc, Commands
          <6> QED
            BY <3>1, <3>6, <4>1, <5>1, <6>1, ServerShows
        <5> QED
          BY <4>1, <5>1
      <4>2. CASE spc = "hello"
        BY <3>1, <4>2 DEF ServerTalk, Replies, Hears, Works, SessionPc, ServingPc, Commands
      <4>3. CASE spc = "hi"
        <5>1. spc2 = "fork" /\ u2 = u
          BY <3>1, <4>3 DEF ServerTalk, Replies, Hears, Works
        <5>2. cpc = "hi" /\ u = <<>>
          BY <3>1, <4>3 DEF Paired, Meeting, Silent, Asking, Echoing, Joining, Listing,
             Fetching, Storing, Commands
        <5>3. Does(spc2, u2) = "none" /\ Wants(cpc) = "none"
          BY <5>1, <5>2, DoesIs, WantsIs
        <5> QED
          BY <4>3, <5>1, <5>3 DEF SessionPc, ServingPc
      <4> QED
        BY <3>6, <4>1, <4>2, <4>3 DEF SessionPc
    <3> HIDE DEF cpc, spc, spc2, u, u2
    <3> QED
      BY <3>4, <3>5, <3>7 DEF Shifts
  <2> QED
    BY <2>1, <2>2, <2>3
<1> QED
  BY <1>2, <1>3, <1>4, DialogueStep

(* Nothing moves for the session;                                           *)
LEMMA NothingMoves ==
    ASSUME \A e \in Clients : Want(e)' = Want(e) /\ Doing(e)' = Doing(e)
    PROVE  [Dialogue!Next]_(Dialogue!sessionVars)
<1>1. /\ [e \in Clients |-> Want(e)'] = [e \in Clients |-> Want(e)]
      /\ [e \in Clients |-> Doing(e)'] = [e \in Clients |-> Doing(e)]
  OBVIOUS
<1> QED
  BY <1>1 DEF Dialogue!sessionVars

(* so when a connection is accepted,                                        *)
LEMMA AcceptsShown ==
    ASSUME PInv, PInv', NEW r \in Procs, Accepts(r), UNCHANGED cl
    PROVE  [Dialogue!Next]_(Dialogue!sessionVars)
<1>1. PICK l \in Conns :
        \/ /\ Takes(r, "pi", l) /\ At(r, "accept") /\ At(r, "hello")'
           /\ proc'[r].clntSock = l /\ proc'[r].clntDtpSock = proc[r].clntDtpSock
        \/ /\ Takes(r, "dtp", l) /\ At(r, "dtpaccept") /\ At(r, "dtphello")'
           /\ proc'[r].clntSock = proc[r].clntSock /\ proc'[r].clntDtpSock = l
  BY AcceptsTakes DEF PInv
<1>2. cl' = cl /\ chan' = chan /\ \A q \in Procs : q # r => proc'[q] = proc[q]
  BY <1>1 DEF Takes
<1>3. \/ proc[r].pc \notin SessionPc /\ proc'[r].pc \notin SessionPc
      \/ /\ proc[r].pc \in SessionPc /\ proc'[r].pc \in SessionPc
         /\ proc[r].clntSock = proc'[r].clntSock
         /\ \A u : Does(proc[r].pc, u) = "PASV" /\ Does(proc'[r].pc, u) = "PASV"
  BY <1>1, DoesIs DEF At, SessionPc, ServingPc, Commands
<1>4. ASSUME NEW e \in Clients
      PROVE  Want(e)' = Want(e) /\ Doing(e)' = Doing(e)
  <2> DEFINE A == {q \in Procs : proc[q].pc \in SessionPc /\ proc[q].clntSock = cl[e].sock}
             B == {q \in Procs : proc'[q].pc \in SessionPc /\ proc'[q].clntSock = cl'[e].sock}
  <2>1. Servers(e) = A /\ Servers(e)' = B
    BY ServersAre
  <2>2. A = B
    BY <1>2, <1>3
  <2>3. \A q \in A : \A u : Does(proc'[q].pc, u) = Does(proc[q].pc, u)
    BY <1>2, <1>3
  <2>4. Servers(e)' = Servers(e) /\ \A q \in Servers(e) : \A u : Does(proc'[q].pc, u) = Does(proc[q].pc, u)
    BY <2>1, <2>2, <2>3
  <2> QED
    BY <1>2, <2>4, SameShown DEF PInv, Running
<1> QED
  BY <1>4, NothingMoves

(* and when the child of fork takes over;                                   *)
LEMMA ForksShown ==
    ASSUME PInv, PInv', NEW p \in Procs, Forks(p), UNCHANGED cl
    PROVE  [Dialogue!Next]_(Dialogue!sessionVars)
<1>1. PICK q \in Procs :
        /\ At(p, "fork") /\ At(q, "none") /\ chan' = chan
        /\ proc' = [proc EXCEPT ![q] = [proc[p] EXCEPT !.pc = "session"], ![p].pc = "accept"]
  BY DEF Forks, sockets
<1>2. proc \in [Procs -> Process] /\ q # p
  BY <1>1 DEF PInv, IInv, TypeOK, ServerType, At
<1>3. /\ proc'[q].pc = "session" /\ proc'[q].clntSock = proc[p].clntSock
      /\ proc'[p].pc = "accept"
      /\ \A o \in Procs : o # p /\ o # q => proc'[o] = proc[o]
  BY <1>1, <1>2 DEF Process
<1>4. /\ proc[p].pc = "fork" /\ proc[q].pc = "none"
      /\ "fork" \in SessionPc /\ "session" \in SessionPc
      /\ "none" \notin SessionPc /\ "accept" \notin SessionPc
  BY <1>1 DEF At, SessionPc, ServingPc, Commands
<1>5. ASSUME NEW e \in Clients
      PROVE  Want(e)' = Want(e) /\ Doing(e)' = Doing(e)
  <2> DEFINE A == {o \in Procs : proc[o].pc \in SessionPc /\ proc[o].clntSock = cl[e].sock}
             B == {o \in Procs : proc'[o].pc \in SessionPc /\ proc'[o].clntSock = cl'[e].sock}
  <2>1. Servers(e) = A /\ Servers(e)' = B
    BY ServersAre
  <2>2. cl' = cl /\ (Running(e)' <=> Running(e))
    BY DEF Running
  <2>3. CASE proc[p].clntSock # cl[e].sock
    <3>1. A = B /\ p \notin A /\ q \notin A
      BY <1>3, <1>4, <2>2, <2>3
    <3>2. Servers(e)' = Servers(e) /\ \A o \in Servers(e) : proc'[o] = proc[o]
      BY <1>3, <2>1, <3>1
    <3> QED
      BY <1>1, <2>2, <3>2, SameShown DEF PInv
  <2>4. CASE ~ Running(e)
    <3>1. ~ Served(e) /\ ~ Served(e)'
      BY <2>2, <2>4 DEF Served
    <3> QED
      BY <3>1, ShownAlone
  <2>5. CASE Running(e) /\ proc[p].clntSock = cl[e].sock
    <3>1. p \in A /\ q \in B
      BY <1>3, <1>4, <2>2, <2>5
    <3>2. p \in Servers(e) /\ q \in Servers(e)'
      BY <2>1, <3>1
    <3>3. (\A o \in Servers(e) : o = p) /\ (\A o \in Servers(e)' : o = q)
      BY <3>2, OneServer DEF PInv
    <3>4. Want(e) = Wants(cl[e].pc) /\ Doing(e) = Does("fork", chan[cl[e].sock].in["s"])
      BY <1>4, <2>5, <3>2, <3>3, ShownServed
    <3>5. Want(e)' = Wants(cl'[e].pc) /\ Doing(e)' = Does("session", chan'[cl'[e].sock].in["s"])
      BY <1>3, <2>2, <2>5, <3>2, <3>3, ShownNext
    <3> QED
      BY <1>1, <2>2, <3>4, <3>5, DoesIs
  <2> QED
    BY <2>3, <2>4, <2>5
<1> QED
  BY <1>5, NothingMoves

(* the death of a process ends the session of its client.                   *)
LEMMA DieShown ==
    ASSUME PInv, PInv', NEW p \in Procs, Serving(p), Die(p), UNCHANGED cl,
           NEW k, k = proc[p].clntSock, NEW c, c = k[1]
    PROVE  [Dialogue!Next]_(Dialogue!sessionVars)
<1>1. /\ proc'[p].pc = "dead"
      /\ \A q \in Procs : q # p => proc'[q] = proc[q]
      /\ \A q \in Procs : q # p => \A l \in fds[q] : chan'[l] = chan[l]
  BY DieShuts DEF PInv
<1>2. /\ k \in Conns /\ c \in Clients
      /\ \A e \in Clients \ {c} : cl[e].sock # k
      /\ \A q \in Procs : Serving(q) /\ proc[q].clntSock = k => q = p
  BY ServersOwn
<1>3. \A q \in Procs : proc[q].pc \in SessionPc => Serving(q)
  BY PcServes DEF SessionPc
<1>4. "dead" \notin SessionPc
  BY DEF SessionPc, ServingPc, Commands
<1>5. ASSUME NEW e \in Clients, cl[e].sock # k \/ proc[p].pc \notin SessionPc
      PROVE  Want(e)' = Want(e) /\ Doing(e)' = Doing(e)
  <2> DEFINE A == {o \in Procs : proc[o].pc \in SessionPc /\ proc[o].clntSock = cl[e].sock}
             B == {o \in Procs : proc'[o].pc \in SessionPc /\ proc'[o].clntSock = cl'[e].sock}
  <2>1. Servers(e) = A /\ Servers(e)' = B
    BY ServersAre
  <2>2. A = B /\ p \notin A
    BY <1>1, <1>4, <1>5
  <2>3. Servers(e)' = Servers(e) /\ p \notin Servers(e)
    BY <2>1, <2>2
  <2>4. ASSUME NEW q \in Servers(e)
        PROVE  proc'[q] = proc[q] /\ chan'[cl[e].sock] = chan[cl[e].sock]
    <3>1. q \in Procs /\ q # p /\ Serving(q) /\ proc[q].clntSock = cl[e].sock
      BY <1>3, <2>3, ServersAre
    <3>2. cl[e].sock \in fds[q]
      BY <3>1, SocksApart DEF PInv
    <3> QED
      BY <1>1, <3>1, <3>2
  <2> QED
    BY <2>3, <2>4, SameShown DEF PInv, Running
<1>6. CASE cl[c].sock # k \/ proc[p].pc \notin SessionPc
  <2>1. \A e \in Clients : Want(e)' = Want(e) /\ Doing(e)' = Doing(e)
    BY <1>2, <1>5, <1>6
  <2> QED
    BY <2>1, NothingMoves
<1>7. CASE cl[c].sock = k /\ proc[p].pc \in SessionPc
  <2>1. Servers(c)' = {}
    <3> SUFFICES ASSUME NEW q \in Servers(c)' PROVE FALSE
      OBVIOUS
    <3>1. q \in Procs /\ proc'[q].pc \in SessionPc /\ proc'[q].clntSock = k
      BY <1>7, ServersAre
    <3>2. q # p /\ proc'[q] = proc[q]
      BY <1>1, <1>4, <3>1
    <3> QED
      BY <1>2, <1>3, <3>1, <3>2
  <2>2. Shifts(c)
    BY <2>1, ShownAlone DEF Served, Shifts
  <2>3. \A e \in Clients \ {c} : Want(e)' = Want(e) /\ Doing(e)' = Doing(e)
    BY <1>2, <1>5
  <2> QED
    BY <1>2, <2>2, <2>3, DialogueStep
<1> QED
  BY <1>6, <1>7

(* What a client does shows in its own session only,                        *)
LEMMA BesideShown ==
    ASSUME PInv, PInv', NEW c \in Clients, Beside(c), NEW e \in Clients, e # c
    PROVE  Want(e)' = Want(e) /\ Doing(e)' = Doing(e)
<1>1. proc' = proc /\ cl'[e] = cl[e]
  BY DEF Beside
<1>2. Servers(e)' = Servers(e)
  BY <1>1, ServersAre
<1>3. ASSUME NEW q \in Servers(e)
      PROVE  chan'[cl[e].sock] = chan[cl[e].sock]
  <2>1. q \in Procs /\ proc[q].pc \in ServingPc /\ proc[q].clntSock = cl[e].sock
    BY ServersAre DEF SessionPc
  <2>2. cl[e].sock \in Conns
    BY <2>1, PcServes, SocksApart DEF PInv
  <2>3. cl[e].sock[1] # c
    BY <2>2 DEF PInv, ClientsInv, Tied, Owned
  <2> QED
    BY <2>2, <2>3 DEF Beside
<1> QED
  BY <1>1, <1>2, <1>3, SameShown DEF PInv, Running

(* where it asks for a command and returns from one.                        *)
LEMMA RunsShown ==
    ASSUME PInv, PInv', AllCome', NEW c \in Clients, Runs(c)
    PROVE  Shifts(c)
<1> DEFINE k == cl[c].sock
           cpc == cl[c].pc
           cpc2 == cl'[c].pc
           u == chan[k].in["s"]
           w == chan[k].in["c"]
           u2 == chan'[k].in["s"]
           w2 == chan'[k].in["c"]
<1>1. proc' = proc /\ cl'[c].sock = k
  BY DEF Runs
<1>2. Running(c) /\ Running(c)'
  BY RunsBeside
<1>3. Servers(c)' = Servers(c)
  BY <1>1, ServersAre
<1>4. CASE Servers(c) = {}
  <2>1. ~ Served(c) /\ ~ Served(c)'
    BY <1>3, <1>4 DEF Served
  <2> QED
    BY <2>1, ShownAlone DEF Shifts
<1>5. ASSUME NEW p \in Servers(c)
      PROVE  Shifts(c)
  <2> DEFINE spc == proc[p].pc
  <2>1. p \in Procs /\ spc \in SessionPc /\ proc[p].clntSock = k /\ Serving(p)
    <3>1. p \in Procs /\ spc \in SessionPc /\ proc[p].clntSock = k
      BY ServersAre
    <3> QED
      BY <3>1, PcServes DEF SessionPc
  <2>2. k \in Conns /\ chan[k].end["s"] = "open"
    BY <2>1, SocksApart DEF PInv
  <2>3. k[1] = c
    BY <2>2 DEF PInv, ClientsInv, Tied, Owned
  <2>4. Paired(cpc, spc, u, w)
    BY <1>2, <2>1, <2>3 DEF PInv, ProcsInv, InTouch
  <2>5. ClientTalk(TRUE, cpc, u, w, cpc2, u2, w2)
    <3>1. (chan[k].end["s"] = "open") = TRUE
      BY <2>2
    <3> QED
      BY <2>2, <3>1 DEF Runs
  <2>6. spc \in PasvPc => cpc2 \in ComingPc
    <3>1. Comes(p)'
      BY <2>1 DEF AllCome
    <3> QED
      BY <1>1, <1>2, <2>1, <2>3, <3>1 DEF Comes
  <2>7. (\A q \in Servers(c) : q = p) /\ (\A q \in Servers(c)' : q = p) /\ p \in Servers(c)'
    BY <1>3, OneServer DEF PInv
  <2>8. Want(c) = Wants(cpc) /\ Doing(c) = Does(spc, u)
    BY <1>2, <2>7, ShownServed
  <2>9. Want(c)' = Wants(cpc2) /\ Doing(c)' = Does(spc, u2)
    BY <1>1, <1>2, <2>7, ShownNext
  <2>10. \/ Wants(cpc2) = Wants(cpc) /\ Does(spc, u2) = Does(spc, u)
         \/ /\ Wants(cpc) = "none" /\ Does(spc, u) = "none"
            /\ Wants(cpc2) \in Commands /\ Does(spc, u2) = "asked"
         \/ /\ Wants(cpc) # "none" /\ Does(spc, u) = "none"
            /\ Wants(cpc2) = "none" /\ Does(spc, u2) = "none"
    <3> HIDE DEF cpc, spc, cpc2, u, w, u2, w2
    <3> QED
      BY <2>1, <2>4, <2>5, <2>6, ClientShows
  <2> HIDE DEF cpc, spc, cpc2, u, w, u2, w2
  <2> QED
    BY <2>8, <2>9, <2>10 DEF Shifts
<1> QED
  BY <1>4, <1>5

(* A new connection is no session yet; a data connection belongs to PASV;   *)
(* a client that ends has no session any more.                              *)
LEMMA OtherShown ==
    ASSUME PInv, PInv', NEW c \in Clients, Opens(c) \/ Links(c) \/ Leaves(c)
    PROVE  Beside(c) /\ Shifts(c)
<1>1. CASE Opens(c) \/ Links(c)
  <2>1. \A e \in Clients \ {c} : cl'[e] = cl[e]
    BY <1>1 DEF Opens, Links, PInv, IInv, TypeOK, ClientType
  <2>2. \E o \in Ports : Makes(c, o)
    BY <1>1, <2>1, NewMakes DEF Opens, Links, Ports
  <2>3. Beside(c)
    BY <2>2 DEF Makes
  <2>4. CASE Opens(c)
    <3>1. cl'[c].sock = NewConn(c) /\ chan[NewConn(c)].port = "none" /\ proc' = proc
      BY <2>4 DEF Opens, PInv, IInv, TypeOK, ClientType, Client
    <3>2. Servers(c)' = {}
      <4> SUFFICES ASSUME NEW q \in Servers(c)' PROVE FALSE
        OBVIOUS
      <4>1. q \in Procs /\ proc[q].pc \in ServingPc /\ proc[q].clntSock = NewConn(c)
        BY <3>1, ServersAre DEF SessionPc
      <4> QED
        BY <3>1, <4>1, PcServes, SocksApart DEF PInv
    <3> QED
      BY <2>3, <3>2, ShownAlone DEF Shifts, Served
  <2>5. CASE Links(c)
    <3>1. /\ cl[c].pc = "connect" /\ cl'[c].pc = "dtphello" /\ cl'[c].sock = cl[c].sock
          /\ proc' = proc
          /\ \A l \in Conns : chan'[l].in = chan[l].in
      BY <2>5 DEF Links, CAt, PInv, IInv, TypeOK, ClientType, Client, SocketsType, Channel
    <3>2. (Running(c)' <=> Running(c)) /\ Wants(cl[c].pc) = "PASV" /\ Wants(cl'[c].pc) = "PASV"
      BY <3>1, WantsIs DEF Running
    <3>3. Servers(c)' = Servers(c)
      BY <3>1, ServersAre
    <3>4. ASSUME NEW q \in Servers(c)
          PROVE  chan'[cl[c].sock].in = chan[cl[c].sock].in
      <4>1. q \in Procs /\ proc[q].pc \in ServingPc /\ proc[q].clntSock = cl[c].sock
        BY ServersAre DEF SessionPc
      <4> QED
        BY <3>1, <4>1, PcServes, SocksApart DEF PInv
    <3>5. Want(c)' = Want(c) /\ Doing(c)' = Doing(c)
      BY <3>1, <3>2, <3>3, <3>4, SameShown DEF PInv
    <3> QED
      BY <2>3, <3>5 DEF Shifts
  <2> QED
    BY <1>1, <2>4, <2>5
<1>2. CASE Leaves(c)
  <2>1. Beside(c) /\ ~ Running(c)'
    BY <1>2, LeavesShuts DEF Running
  <2> QED
    BY <2>1, ShownAlone DEF Shifts, Served
<1> QED
  BY <1>1, <1>2

(* Every step of the two programs is one of the session, or none.           *)
LEMMA StepShown ==
    ASSUME Brief, PInv, PInv', AllCome, AllCome', [Next]_vars
    PROVE  [Dialogue!Next]_(Dialogue!sessionVars)
<1>1. CASE UNCHANGED vars
  <2>1. proc' = proc /\ cl' = cl /\ chan' = chan
    BY <1>1 DEF vars, sockets, serverVars
  <2>2. \A e \in Clients : Want(e)' = Want(e) /\ Doing(e)' = Doing(e)
    <3> TAKE e \in Clients
    <3>1. Servers(e)' = Servers(e) /\ (Running(e)' <=> Running(e))
      BY <2>1, ServersAre DEF Running
    <3> QED
      BY <2>1, <3>1, SameShown DEF PInv
  <2> QED
    BY <2>2, NothingMoves
<1>2. ASSUME NEW r \in Procs, Serve(r)
      PROVE  [Dialogue!Next]_(Dialogue!sessionVars)
  <2>1. UNCHANGED cl
    BY <1>2 DEF Serve
  <2>2. Handles(r) \/ Accepts(r) \/ Forks(r) \/ (Serving(r) /\ Die(r))
    BY <1>2, ServeSplit DEF PInv
  <2> QED
    BY <2>1, <2>2, HandlesShown, AcceptsShown, ForksShown, DieShown
<1>3. ASSUME NEW c \in Clients, Use(c) \/ Fail(c)
      PROVE  [Dialogue!Next]_(Dialogue!sessionVars)
  <2>1. Runs(c) \/ Opens(c) \/ Links(c) \/ Leaves(c)
    BY <1>3, UseSplit DEF PInv, ClientsInv
  <2>2. Beside(c) /\ Shifts(c)
    BY <2>1, RunsBeside, RunsShown, OtherShown
  <2> QED
    BY <2>2, BesideShown, DialogueStep
<1> QED
  BY <1>1, <1>2, <1>3 DEF Next

(* At the start nobody is served.                                           *)
LEMMA InitShown == Init => Dialogue!Init
<1> SUFFICES ASSUME Init PROVE Dialogue!Init
  OBVIOUS
<1>1. \A e \in Clients : Want(e) = "none" /\ Doing(e) = "out"
  <2> TAKE e \in Clients
  <2>1. Servers(e) = {}
    BY ServersAre DEF Init, ServerInit, SessionPc, ServingPc, Commands
  <2> QED
    BY <2>1, ShownAlone DEF Served
<1> QED
  BY <1>1 DEF Dialogue!Init

(* As long as data connections match, the two programs carry out the        *)
(* abstract session.                                                        *)
THEOREM SessionsCarriedOut ==
    ASSUME Brief
    PROVE  Spec /\ []DataConnMatches => SessionSpec
<1>1. Brief /\ PInv /\ PInv' /\ AllCome /\ AllCome' /\ [Next]_vars
        => [Dialogue!Next]_(Dialogue!sessionVars)
  BY StepShown
<1> QED
  BY <1>1, InitShown, AllComing, PairInvariance, AwaitsInvariance, PTL
     DEF Spec, SessionSpec, Dialogue!Spec

-----------------------------------------------------------------------------
(* With one client nothing can be taken by another, however often it comes  *)
(* back: what waits on the data port is the connection it made last, and a  *)
(* process that is in a transfer, or will be with the next command, has it. *)
Alone == \A a, b \in Clients : a = b
Mine(p) == proc[p].clntDtpSock = cl[proc[p].clntSock[1]].dtpSock
Early(k) == LET c == k[1] IN
    /\ Running(c) /\ cl[c].sock = k
    /\ \/ cl[c].pc \in {"connect", "dtphello"}
       \/ cl[c].pc = "addr" /\ chan[k].in["c"] # <<>>
Bound(p) == LET k == proc[p].clntSock IN
    /\ Transferring(p) => Mine(p)
    /\ At(p, "session") /\ (OnWay(k) \/ Ahead(k)) => Mine(p)
    /\ At(p, "session") => ~ Early(k)
Current == \A l \in Waiting("dtp") : l = cl[l[1]].dtpSock
OwnInv == Current /\ AllAwait /\ \A p \in Procs : Bound(p)

(* Then data connections match.                                             *)
LEMMA BoundMatches ==
    /\ (\A p \in Procs : Bound(p)) => DataConnMatches
    /\ (\A p \in Procs : Bound(p))' => DataConnMatches'
BY DEF Bound, Mine, DataConnMatches, ClientOf

(* A process whose record, client and connection stay is bound as before.   *)
LEMMA BoundStays ==
    ASSUME NEW p \in Procs, Bound(p), proc'[p] = proc[p],
           Serving(p) => /\ chan'[proc[p].clntSock] = chan[proc[p].clntSock]
                         /\ cl'[proc[p].clntSock[1]] = cl[proc[p].clntSock[1]]
    PROVE  Bound(p)'
<1>1. /\ Transferring(p)' <=> Transferring(p)
      /\ At(p, "session") \/ Transferring(p) => Serving(p)
  BY PcServes DEF At, ServingPc, TransferPc, Commands
<1> QED
  BY <1>1 DEF Bound, Mine, Early, OnWay, Ahead, At, Running

(* Into a session early comes nobody but from the end of PASV.              *)
LEMMA TalkEarly ==
    ASSUME NEW cpc, NEW spc, NEW u, NEW w, NEW spc2, NEW u2, NEW w2,
           Paired(cpc, spc, u, w), ServerTalk(TRUE, spc, u, w, spc2, u2, w2),
           spc2 = "session", cpc \in {"connect", "dtphello"} \/ (cpc = "addr" /\ w2 # <<>>)
    PROVE  spc = "dtphi"
BY TalkAhead

(* A process at work,                                                       *)
LEMMA HandlesBound ==
    ASSUME PInv, AllAwait, \A q \in Procs : Bound(q), NEW r \in Procs, Handles(r),
           NEW p \in Procs
    PROVE  Bound(p)'
<1>1. /\ cl' = cl /\ \A q \in Procs \ {r} : proc'[q] = proc[q]
      /\ proc'[r].clntSock = proc[r].clntSock /\ proc'[r].clntDtpSock = proc[r].clntDtpSock
  BY DEF Handles
<1>2. CASE p # r
  <2>1. Serving(p) => chan'[proc[p].clntSock] = chan[proc[p].clntSock]
    BY <1>2, HandlesAlone
  <2> QED
    BY <1>1, <1>2, <2>1, BoundStays
<1>3. CASE p = r
  <2> DEFINE k == proc[p].clntSock
  <2>1. /\ Transferring(p)' => Transferring(p) \/ (At(p, "session") /\ OnWay(k))
        /\ At(p, "session")' /\ (OnWay(k)' \/ Ahead(k)') => At(p, "dtphi")
    BY <1>3, HandlesEnters
  <2>2. At(p, "dtphi") => Transferring(p)
    BY PcServes DEF At, TransferPc
  <2>3. Mine(p) => Mine(p)'
    BY <1>1, <1>3 DEF Mine
  <2>4. ASSUME At(p, "session")', Early(k)'
        PROVE  FALSE
    <3> DEFINE c == k[1]
    <3>1. /\ Running(c) /\ cl[c].sock = k
          /\ \/ cl[c].pc \in {"connect", "dtphello"}
             \/ cl[c].pc = "addr" /\ chan'[k].in["c"] # <<>>
      BY <1>1, <1>3, <2>4 DEF Early, Running
    <3>2. Ahead(k)'
      BY <2>4 DEF Early, Ahead
    <3>3. At(p, "dtphi")
      BY <2>1, <2>4, <3>2
    <3>4. Mine(p) /\ c \in Clients
      <4>1. Serving(p)
        BY <3>3, PcServes DEF At, ServingPc
      <4> QED
        BY <2>2, <3>3, <4>1, SocksApart DEF Bound, PInv, Conns
    <3>5. CAt(c, "dtphi")
      BY <3>1, <3>3, <3>4 DEF Mine, PInv, ClientsInv, Greeting
    <3> QED
      BY <3>1, <3>5 DEF CAt
  <2> QED
    BY <1>1, <1>3, <2>1, <2>2, <2>3, <2>4 DEF Bound
<1> QED
  BY <1>2, <1>3

(* one that takes a connection,                                             *)
LEMMA AcceptsBound ==
    ASSUME Alone, PInv, Current, \A q \in Procs : Bound(q), NEW r \in Procs, Accepts(r),
           UNCHANGED cl, NEW p \in Procs
    PROVE  Bound(p)'
<1>1. PICK l \in Conns :
        \/ /\ Takes(r, "pi", l) /\ At(r, "accept") /\ At(r, "hello")'
           /\ proc'[r].clntSock = l /\ proc'[r].clntDtpSock = proc[r].clntDtpSock
        \/ /\ Takes(r, "dtp", l) /\ At(r, "dtpaccept") /\ At(r, "dtphello")'
           /\ proc'[r].clntSock = proc[r].clntSock /\ proc'[r].clntDtpSock = l
  BY AcceptsTakes DEF PInv
<1>2. chan' = chan /\ cl' = cl /\ \A q \in Procs \ {r} : proc'[q] = proc[q]
  BY <1>1 DEF Takes
<1>3. CASE p # r
  BY <1>2, <1>3, BoundStays
<1>4. CASE p = r /\ At(r, "hello")'
  <2>1. ~ Transferring(p)' /\ ~ At(p, "session")'
    BY <1>4, PcServes DEF At, TransferPc
  <2> QED
    BY <2>1 DEF Bound
<1>5. CASE p = r /\ Takes(r, "dtp", l) /\ At(r, "dtpaccept") /\ At(r, "dtphello")'
           /\ proc'[r].clntSock = proc[r].clntSock /\ proc'[r].clntDtpSock = l
  <2>1. ~ At(p, "session")'
    BY <1>5 DEF At
  <2>2. l[1] \in Clients /\ l = cl[l[1]].dtpSock
    BY <1>5 DEF Takes, Current, Conns
  <2>3. proc[r].clntSock[1] \in Clients
    <3>1. Serving(r)
      BY <1>5, PcServes DEF At, ServingPc
    <3> QED
      BY <3>1, SocksApart DEF PInv, Conns
  <2>4. l[1] = proc[r].clntSock[1]
    BY <2>2, <2>3 DEF Alone
  <2>5. Mine(p)'
    BY <1>2, <1>5, <2>2, <2>4 DEF Mine
  <2> QED
    BY <2>1, <2>5 DEF Bound
<1> QED
  BY <1>1, <1>3, <1>4, <1>5

(* the child of fork, and those a dead process leaves.                      *)
LEMMA OtherBound ==
    ASSUME PInv, \A q \in Procs : Bound(q), NEW r \in Procs, Forks(r) \/ (Serving(r) /\ Die(r)),
           UNCHANGED cl, NEW p \in Procs
    PROVE  Bound(p)'
<1>1. CASE Forks(r)
  <2>1. PICK q \in Procs :
          /\ At(r, "fork") /\ At(q, "none") /\ chan' = chan
          /\ proc' = [proc EXCEPT ![q] = [proc[r] EXCEPT !.pc = "session"], ![r].pc = "accept"]
    BY <1>1 DEF Forks, sockets
  <2>2. proc \in [Procs -> Process] /\ q # r
    BY <2>1 DEF PInv, IInv, TypeOK, ServerType, At
  <2>3. /\ proc'[q].pc = "session" /\ proc'[q].clntSock = proc[r].clntSock
        /\ proc'[r].pc = "accept"
        /\ \A o \in Procs : o # r /\ o # q => proc'[o] = proc[o]
    BY <2>1, <2>2 DEF Process
  <2>4. CASE p # r /\ p # q
    BY <2>1, <2>3, <2>4, BoundStays
  <2>5. CASE p = r
    <3>1. ~ Transferring(p)' /\ ~ At(p, "session")'
      BY <2>3, <2>5, PcServes DEF At, TransferPc
    <3> QED
      BY <3>1 DEF Bound
  <2>6. CASE p = q
    <3> DEFINE k == proc[r].clntSock
    <3>1. Serving(r) /\ proc[r].pc = "fork"
      BY <2>1, PcServes DEF At, ServingPc
    <3>2. ~ OnWay(k)
      BY <3>1 DEF PInv, ProcsInv, Ready
    <3>3. ~ Ahead(k) /\ ~ Early(k)
      <4>1. ASSUME Running(k[1]), cl[k[1]].sock = k
            PROVE  cl[k[1]].pc \in {"hi", "User", "userR"}
        <5>1. Paired(cl[k[1]].pc, "fork", chan[k].in["s"], chan[k].in["c"])
          BY <3>1, <4>1 DEF PInv, ProcsInv, InTouch
        <5> QED
          BY <5>1, PairedFork
      <4> QED
        BY <4>1 DEF Ahead, Early
    <3>4. proc'[p].clntSock = k /\ ~ Transferring(p)' /\ cl' = cl
      BY <2>3, <2>6, PcServes DEF TransferPc
    <3> QED
      BY <2>1, <3>2, <3>3, <3>4 DEF Bound, OnWay, Ahead, Early, Running
  <2> QED
    BY <2>4, <2>5, <2>6
<1>2. CASE Serving(r) /\ Die(r)
  <2>1. /\ proc'[r].pc = "dead"
        /\ \A q \in Procs \ {r} : proc'[q] = proc[q]
        /\ \A q \in Procs \ {r} : \A l \in fds[q] : chan'[l] = chan[l]
    BY <1>2, DieShuts DEF PInv
  <2>2. CASE p = r
    <3>1. ~ Transferring(p)' /\ ~ At(p, "session")'
      BY <2>1, <2>2, PcServes DEF At, TransferPc
    <3> QED
      BY <3>1 DEF Bound
  <2>3. CASE p # r
    <3>1. Serving(p) => chan'[proc[p].clntSock] = chan[proc[p].clntSock]
      BY <2>1, <2>3, SocksApart DEF PInv
    <3> QED
      BY <2>1, <2>3, <3>1, BoundStays
  <2> QED
    BY <2>2, <2>3
<1> QED
  BY <1>1, <1>2

(* A client that has not done PASV gets no nearer to it in a session.       *)
LEMMA ClientEarly ==
    ASSUME NEW cpc, NEW u, NEW w, NEW cpc2, NEW u2, NEW w2,
           Paired(cpc, "session", u, w), ClientTalk(TRUE, cpc, u, w, cpc2, u2, w2),
           cpc2 \in {"connect", "dtphello"} \/ (cpc2 = "addr" /\ w2 # <<>>)
    PROVE  cpc \in {"connect", "dtphello"} \/ (cpc = "addr" /\ w # <<>>)
<1>1. cpc = "PASV" => w = <<>>
  BY DEF Paired, Meeting, Arriving, Asking, Asks, Concludes, Echoing, Joining, Orders, Listing,
     Fetching, Storing, Silent, Commands
<1> QED
  BY <1>1 DEF ClientTalk, Requests, Reads, Turns, Shrunk

(* A client at work binds nobody,                                           *)
LEMMA RunsBound ==
    ASSUME PInv, \A q \in Procs : Bound(q), NEW c \in Clients, Runs(c), NEW p \in Procs
    PROVE  Bound(p)'
<1> DEFINE k == cl[c].sock
           l == proc[p].clntSock
           cpc == cl[c].pc
           cpc2 == cl'[c].pc
           u == chan[k].in["s"]
           w == chan[k].in["c"]
           u2 == chan'[k].in["s"]
           w2 == chan'[k].in["c"]
<1>1. /\ Beside(c) /\ Running(c) /\ Running(c)'
      /\ k \in Conns => k[1] = c /\ chan[k].port = "pi"
      /\ \A m \in Conns : m # k /\ chan[m].port # "dtp" => chan'[m] = chan[m]
  BY RunsBeside
<1>2. cl'[c].sock = k /\ cl'[c].dtpSock = cl[c].dtpSock /\ proc' = proc
  BY DEF Runs
<1>3. /\ Transferring(p)' <=> Transferring(p)
      /\ At(p, "session") \/ Transferring(p) => Serving(p)
  BY <1>2, PcServes DEF At, ServingPc, TransferPc, Commands
<1>4. Serving(p) => l \in Conns /\ l[1] \in Clients /\ chan[l].port = "pi"
  BY SocksApart DEF PInv, Conns
<1>5. CASE ~ Serving(p) \/ l[1] # c
  BY <1>1, <1>2, <1>4, <1>5, BoundStays DEF Beside
<1>6. CASE Serving(p) /\ l[1] = c /\ l # k
  <2>1. chan'[l] = chan[l]
    BY <1>1, <1>4, <1>6
  <2> QED
    BY <1>2, <1>3, <1>6, <2>1 DEF Bound, Mine, OnWay, Ahead, Early, At
<1>7. CASE Serving(p) /\ l = k
  <2>1. k \in Conns /\ k[1] = c /\ chan[k].end["s"] = "open"
    BY <1>1, <1>7, SocksApart DEF PInv
  <2>2. Mine(p)' <=> Mine(p)
    BY <1>2, <1>7, <2>1 DEF Mine
  <2>3. CASE At(p, "session")
    <3>1. Paired(cpc, "session", u, w)
      BY <1>1, <1>7, <2>1, <2>3 DEF PInv, ProcsInv, InTouch, At
    <3>2. ClientTalk(TRUE, cpc, u, w, cpc2, u2, w2)
      <4>1. (chan[k].end["s"] = "open") = TRUE
        BY <2>1
      <4> QED
        BY <2>1, <4>1 DEF Runs
    <3>3. (OnWay(k) \/ Ahead(k))' => OnWay(k) \/ Ahead(k)
      <4> SUFFICES ASSUME (OnWay(k) \/ Ahead(k))'
                   PROVE  OnWay(k) \/ Ahead(k)
        OBVIOUS
      <4>1. \/ \E t \in Transfers : Is(u2, t)
            \/ cpc2 \in {"connect", "dtphello", "dtphi", "LIST", "RETR", "STOR"}
            \/ cpc2 = "addr" /\ w2 # <<>>
        BY <1>2, <2>1 DEF OnWay, Ahead
      <4>2. \/ \E t \in Transfers : Is(u, t)
            \/ cpc \in {"connect", "dtphello", "dtphi", "LIST", "RETR", "STOR"}
            \/ cpc = "addr" /\ w # <<>>
        <5> HIDE DEF cpc, cpc2, u, w, u2, w2
        <5> QED
          BY <3>1, <3>2, <4>1, ClientAhead
      <4> QED
        BY <1>1, <2>1, <4>2 DEF OnWay, Ahead
    <3>4. Early(k)' => Early(k)
      <4> SUFFICES ASSUME Early(k)'
                   PROVE  Early(k)
        OBVIOUS
      <4>1. cpc2 \in {"connect", "dtphello"} \/ (cpc2 = "addr" /\ w2 # <<>>)
        BY <1>2, <2>1 DEF Early
      <4>2. cpc \in {"connect", "dtphello"} \/ (cpc = "addr" /\ w # <<>>)
        <5> HIDE DEF cpc, cpc2, u, w, u2, w2
        <5> QED
          BY <3>1, <3>2, <4>1, ClientEarly
      <4> QED
        BY <1>1, <2>1, <4>2 DEF Early
    <3> QED
      BY <1>2, <1>3, <1>7, <2>2, <2>3, <3>3, <3>4 DEF Bound, At
  <2>4. CASE ~ At(p, "session")
    BY <1>2, <1>3, <1>7, <2>2, <2>4 DEF Bound, At
  <2> QED
    BY <2>3, <2>4
<1> QED
  BY <1>5, <1>6, <1>7

(* nor does one that opens a connection or leaves; and a data connection is *)
(* made when no process of the client has one.                              *)
LEMMA UseBound ==
    ASSUME Brief, PInv, AllAwait, \A q \in Procs : Bound(q), NEW c \in Clients, Use(c) \/ Fail(c),
           NEW p \in Procs
    PROVE  Bound(p)'
<1> DEFINE l == proc[p].clntSock
<1>1. Runs(c) \/ Opens(c) \/ Links(c) \/ Leaves(c)
  BY UseSplit DEF PInv, ClientsInv
<1>2. proc' = proc
  BY DEF Use, Fail, serverVars
<1>3. /\ Transferring(p)' <=> Transferring(p)
      /\ At(p, "session") \/ Transferring(p) => Serving(p)
  BY <1>2, PcServes DEF At, ServingPc, TransferPc, Commands
<1>4. Serving(p) => l \in Conns /\ l[1] \in Clients /\ chan[l].port = "pi"
  BY SocksApart DEF PInv, Conns
<1>5. ASSUME Opens(c) \/ Links(c) \/ Leaves(c)
      PROVE  Beside(c) /\ (Serving(p) => chan'[l].in["s"] = chan[l].in["s"])
  <2>1. CASE Opens(c) \/ Links(c)
    <3>1. \A e \in Clients \ {c} : cl'[e] = cl[e]
      BY <2>1 DEF Opens, Links, PInv, IInv, TypeOK, ClientType
    <3>2. \E o \in Ports : Makes(c, o)
      BY <2>1, <3>1, NewMakes DEF Opens, Links, Ports
    <3> QED
      BY <1>4, <3>2 DEF Makes
  <2>2. CASE Leaves(c)
    BY <1>4, <2>2, LeavesShuts
  <2> QED
    BY <1>5, <2>1, <2>2
<1>6. CASE Runs(c)
  BY <1>6, RunsBound
<1>7. CASE (~ Serving(p) \/ l[1] # c) /\ (Opens(c) \/ Links(c) \/ Leaves(c))
  BY <1>2, <1>4, <1>5, <1>7, BoundStays DEF Beside
<1>8. CASE Serving(p) /\ l[1] = c /\ (Opens(c) \/ Leaves(c))
  <2>1. /\ cl'[c].dtpSock = cl[c].dtpSock
        /\ Running(c)' => cl'[c].sock # l
    <3>1. CASE Opens(c)
      <4>1. /\ cl'[c].sock = NewConn(c) /\ cl'[c].dtpSock = cl[c].dtpSock
            /\ chan[NewConn(c)].port = "none"
        BY <3>1 DEF Opens, PInv, IInv, TypeOK, ClientType, Client
      <4> QED
        BY <1>4, <1>8, <4>1
    <3>2. CASE Leaves(c)
      BY <3>2, LeavesShuts DEF Running
    <3> QED
      BY <1>8, <3>1, <3>2
  <2> QED
    BY <1>2, <1>3, <1>5, <1>8, <2>1 DEF Bound, Mine, OnWay, Ahead, Early, At
<1>9. CASE Serving(p) /\ l[1] = c /\ Links(c)
  <2>1. CAt(c, "connect") /\ Running(c) /\ cl'[c].sock = cl[c].sock
    BY <1>9 DEF Links, CAt, Running, PInv, IInv, TypeOK, ClientType, Client
  <2>2. CASE cl[c].sock = l
    <3>1. Paired("connect", proc[p].pc, chan[l].in["s"], chan[l].in["c"])
      BY <1>9, <2>1, <2>2 DEF PInv, ProcsInv, InTouch, CAt
    <3>2. proc[p].pc \in {"dtpaccept", "dtphello", "dtphi", "session"}
      BY <3>1 DEF Paired, Meeting, Arriving, Asking, Asks, Concludes, Echoing, Joining, Orders,
         Listing, Fetching, Storing
    <3>3. ~ At(p, "session")
      BY <1>9, <2>1, <2>2 DEF Bound, Early, CAt
    <3>4. proc[p].pc \notin {"dtphello", "dtphi"}
      <4> SUFFICES ASSUME proc[p].pc \in {"dtphello", "dtphi"} PROVE FALSE
        OBVIOUS
      <4>1. proc[p].clntDtpSock = cl[c].dtpSock
        BY <1>9, PcServes DEF Bound, Mine, TransferPc
      <4> QED
        BY <2>1, <4>1 DEF PInv, ClientsInv, Greeting, Knocks, At, CAt
    <3>5. ~ Transferring(p)' /\ ~ At(p, "session")'
      BY <1>2, <3>2, <3>3, <3>4, PcServes DEF At, TransferPc
    <3> QED
      BY <3>5 DEF Bound
  <2>3. CASE cl[c].sock # l
    <3>1. At(p, "session") /\ Silent(chan[l].in["s"], chan[l].in["c"])
      BY <1>9, <2>1, <2>3 DEF PInv, ProcsInv, InTouch
    <3>2. ~ Transferring(p)
      BY <3>1, PcServes DEF At, TransferPc
    <3>3. ~ OnWay(l)'
      BY <1>2, <1>5, <1>9, <3>1, EmptyIsNone DEF OnWay, Silent
    <3>4. ~ Ahead(l)' /\ ~ Early(l)'
      BY <1>2, <1>9, <2>1, <2>3 DEF Ahead, Early
    <3> QED
      BY <1>2, <1>3, <3>2, <3>3, <3>4 DEF Bound
  <2> QED
    BY <2>2, <2>3
<1> QED
  BY <1>1, <1>6, <1>7, <1>8, <1>9

(* What waits on the data port is what its client made last.                *)
LEMMA CurrentKept ==
    ASSUME Brief, PInv, Current, [Next]_vars
    PROVE  Current'
<1>1. CASE cl' = cl /\ Waiting("dtp")' \subseteq Waiting("dtp")
  BY <1>1 DEF Current
<1>2. CASE UNCHANGED vars
  BY <1>1, <1>2 DEF vars, sockets, serverVars, Waiting
<1>3. ASSUME NEW r \in Procs, Serve(r)
      PROVE  Current'
  <2>1. cl' = cl
    BY <1>3 DEF Serve
  <2>2. CASE Handles(r)
    BY <1>1, <2>1, <2>2, HandlesAlone DEF Ports
  <2>3. CASE Accepts(r)
    <3>1. Waiting("dtp")' \subseteq Waiting("dtp")
      BY <2>1, <2>3, AcceptsTakes DEF PInv, Takes, Ports
    <3> QED
      BY <1>1, <2>1, <3>1
  <2>4. CASE Forks(r)
    BY <1>1, <2>1, <2>4 DEF Forks, sockets, Waiting
  <2>5. CASE Serving(r) /\ Die(r)
    <3>1. Waiting("dtp")' \subseteq Waiting("dtp")
      BY <2>5, DieShuts DEF PInv, Ports
    <3> QED
      BY <1>1, <2>1, <3>1
  <2> QED
    BY <1>3, <2>2, <2>3, <2>4, <2>5, ServeSplit DEF PInv
<1>4. ASSUME NEW c \in Clients, Use(c) \/ Fail(c)
      PROVE  Current'
  <2>1. Runs(c) \/ Opens(c) \/ Links(c) \/ Leaves(c)
    BY <1>4, UseSplit DEF PInv, ClientsInv
  <2>2. \A l \in Waiting("dtp") : l \in Conns /\ l[1] \in Clients
    BY WaitingConns DEF PInv, Ports, Conns
  <2>3. CASE Runs(c) \/ Leaves(c)
    <3>1. Waiting("dtp")' = Waiting("dtp") /\ Beside(c)
      BY <2>3, RunsBeside, LeavesShuts
    <3>2. cl'[c].dtpSock = cl[c].dtpSock
      BY <2>3, LeavesShuts DEF Runs
    <3> QED
      BY <2>2, <3>1, <3>2 DEF Current, Beside
  <2>4. CASE Opens(c) \/ Links(c)
    <3>1. \A e \in Clients \ {c} : cl'[e] = cl[e]
      BY <2>4 DEF Opens, Links, PInv, IInv, TypeOK, ClientType
    <3>2. CASE Opens(c)
      <4>1. Makes(c, "pi") /\ cl'[c].dtpSock = cl[c].dtpSock
        BY <3>1, <3>2, NewMakes DEF Opens, Ports, PInv, IInv, TypeOK, ClientType, Client
      <4> QED
        BY <2>2, <3>1, <4>1 DEF Current, Makes, Ports
    <3>3. CASE Links(c)
      <4>1. Makes(c, "dtp") /\ cl'[c].dtpSock = NewConn(c) /\ CAt(c, "connect")
        BY <3>1, <3>3, NewMakes DEF Links, Ports, PInv, IInv, TypeOK, ClientType, Client
      <4>2. \A l \in Waiting("dtp") : l[1] # c
        <5> SUFFICES ASSUME NEW l \in Waiting("dtp"), l[1] = c PROVE FALSE
          OBVIOUS
        <5>1. Knocks(cl[c].dtpSock) /\ Running(c)
          BY <4>1 DEF Current, Knocks, CAt, Running
        <5> QED
          BY <4>1, <5>1 DEF PInv, ClientsInv, Greeting, CAt
      <4> QED
        BY <2>2, <3>1, <4>1, <4>2 DEF Current, Makes, Ports
    <3> QED
      BY <2>4, <3>2, <3>3
  <2> QED
    BY <2>1, <2>3, <2>4
<1> QED
  BY <1>2, <1>3, <1>4 DEF Next

(* Every step of one client and its server keeps it so.                     *)
LEMMA StepOwn ==
    ASSUME Brief, Alone, PInv, OwnInv, [Next]_vars
    PROVE  OwnInv'
<1>1. \A p \in Procs : Bound(p)'
  <2> SUFFICES ASSUME NEW p \in Procs PROVE Bound(p)'
    OBVIOUS
  <2>1. Bound(p) /\ Current /\ AllAwait /\ \A q \in Procs : Bound(q)
    BY DEF OwnInv
  <2>2. CASE UNCHANGED vars
    <3>1. proc' = proc /\ cl' = cl /\ chan' = chan
      BY <2>2 DEF vars, sockets, serverVars
    <3> QED
      BY <2>1, <3>1, BoundStays
  <2>3. ASSUME NEW r \in Procs, Serve(r)
        PROVE  Bound(p)'
    <3>1. UNCHANGED cl
      BY <2>3 DEF Serve
    <3>2. Handles(r) \/ Accepts(r) \/ Forks(r) \/ (Serving(r) /\ Die(r))
      BY <2>3, ServeSplit DEF PInv
    <3> QED
      BY <2>1, <3>1, <3>2, HandlesBound, AcceptsBound, OtherBound
  <2> QED
    BY <2>1, <2>2, <2>3, UseBound DEF Next
<1>2. DataConnMatches'
  BY <1>1, BoundMatches
<1> QED
  BY <1>1, <1>2, CurrentKept, StepAwaits DEF OwnInv

(* At the start nobody waits or is served.                                  *)
LEMMA InitOwn == Init => OwnInv
<1> SUFFICES ASSUME Init PROVE OwnInv
  OBVIOUS
<1>1. Current
  <2>1. backlog["dtp"] = <<>>
    BY DEF Init, SocketsInit, Ports
  <2> QED
    BY <2>1 DEF Current, Waiting
<1>2. \A p \in Procs : proc[p].pc \in {"none", "accept"}
  BY DEF Init, ServerInit
<1>3. \A p \in Procs : Bound(p)
  BY <1>2, PcServes DEF Bound, At, TransferPc
<1> QED
  BY <1>1, <1>3, InitAwaits DEF OwnInv

(* One client of the server gets its own data connections, whatever either  *)
(* program does, and whenever one of them is interrupted: the port that two *)
(* clients can take from each other it shares with itself only.             *)
THEOREM OneClientOwnsData ==
    ASSUME Brief, Alone
    PROVE  Spec => []DataConnMatches
<1>1. Brief /\ Alone /\ PInv /\ OwnInv /\ [Next]_vars => OwnInv'
  BY StepOwn
<1>2. OwnInv => DataConnMatches
  BY BoundMatches DEF OwnInv
<1> QED
  BY <1>1, <1>2, InitOwn, PairInvariance, PTL DEF Spec

(* So client and server carry out the abstract session, command by command. *)
THEOREM OneClientsSession ==
    ASSUME Brief, Alone
    PROVE  Spec => SessionSpec
BY OneClientOwnsData, SessionsCarriedOut, PTL

-----------------------------------------------------------------------------
(* The files that get and put move, while data connections match.  In what  *)
(* follows me is the record of a client, s that of the process that serves  *)
(* it, u and w what waits for the server and for the client on the control  *)
(* connection as before; x and y are how many units wait for them on the    *)
(* data connection, whose server's side has the end e; h are connections.   *)
Units(h, d, side) == IF d \in Conns THEN Len(h[d].in[side]) ELSE 0

(* What the client knows: its count starts from 0, its data connection is   *)
(* empty before the first unit of the file, and carries the rest of it when *)
(* the size has come; RETR and the size name the file's length, and SIZE   *)
(* does when the server has not closed its end under the file.              *)
Filed(me, u, w, x, y, e) ==
    /\ me.pc \notin {"download", "retrdone", "upload", "SIZE", "stordone"} =>
         me.totalBytes = 0
    /\ me.pc \in {"dtphello", "LIST", "RETR", "STOR", "storok"} => x = 0 /\ y = 0
    /\ me.pc = "dtphi" => /\ y <= 1
                          /\ y # 0 \/ e # "open" => x = 0
    /\ me.pc = "retrsize" => /\ u # <<>> => u[1].n = me.arg /\ y = 0
                             /\ w # <<>> => w[1].n = me.arg /\ y = me.arg
    /\ me.pc = "download" => me.fileSize = me.arg /\ me.totalBytes + y = me.arg
    /\ me.pc = "retrdone" => me.fileSize = me.arg /\ me.totalBytes = me.arg
    /\ me.pc \in {"SIZE", "stordone"} /\ e = "open" =>
         /\ me.totalBytes = me.arg
         /\ me.pc = "stordone" /\ u # <<>> => u[1].n = me.arg

(* What the process knows: it has counted what it has sent of the file, or  *)
(* what it has read of what the client counted.                             *)
Carried(me, s, x, y) ==
    /\ s.pc = "dtphi" => x = 0
    /\ s.pc = "RETR" => s.arg = me.arg /\ s.totalBytes = y
    /\ s.pc = "retrsize" => s.totalBytes = me.arg /\ y = me.arg
    /\ s.pc = "STOR" => s.totalBytes = 0
    /\ s.pc = "storsize" =>
         /\ s.totalBytes = 0
         /\ me.pc \in {"upload", "SIZE", "stordone"} => me.totalBytes = x
    /\ s.pc = "download" => s.fileSize = me.arg /\ s.totalBytes + x = me.arg
    /\ s.pc = "stordone" => s.fileSize = me.arg /\ s.totalBytes = me.arg

(* What a step of the process does to that.  Only the steps that hand a     *)
(* count on, or a unit, are told apart.                                     *)
Elsewhere == {"hello", "hi", "fork", "User", "SYSY", "PASV", "ECHO", "echotext", "echoback",
    "stordone", "LIST", "listdata", "listdone", "CWD", "QUIT"}
Counting == {"dtphi", "RETR", "retrsize", "STOR", "storsize", "download", "stordone"}
ServerDeed(s, u, w, x, y, s2, u2, w2, x2, y2) ==
    \/ /\ s.pc \in Elsewhere /\ s2.pc \notin Counting /\ u2 \in {u, <<>>}
       /\ s.pc \notin {"LIST", "listdata"} => x2 \in {0, x} /\ y2 = y
    \/ /\ s.pc = "session" /\ u # <<>> /\ u2 = <<>> /\ w2 = w /\ x2 = x /\ y2 = y
       /\ s2.pc = IF u[1].t \in Commands THEN u[1].t ELSE "session"
       /\ s2.totalBytes = 0
       /\ u[1].t \in Commands => s2.arg = u[1].n
    \/ /\ s.pc = "dtphello" /\ s2.pc = "dtphi" /\ u2 = u /\ w2 = w
       /\ x2 = 0 /\ y2 = y
    \/ /\ s.pc = "dtphi" /\ s2.pc = "session" /\ u2 = u /\ w2 = w
       /\ x2 = x /\ y2 \in {y, y + 1}
    \/ /\ s.pc = "STOR" /\ s2.pc = "storsize" /\ s2.totalBytes = s.totalBytes
       /\ u2 = u /\ x2 = x /\ y2 = y
    \/ /\ s.pc = "storsize" /\ s2.pc = "download" /\ s2.totalBytes = s.totalBytes
       /\ u # <<>> /\ (u[1].t = "SIZE" => s2.fileSize = u[1].n)
       /\ u2 = <<>> /\ x2 = x /\ y2 = y
    \/ /\ s.pc = "download" /\ s2.fileSize = s.fileSize /\ u2 = u /\ y2 = y
       /\ \/ /\ s2.pc = "download" /\ s2.totalBytes = s.totalBytes + 1
             /\ x2 = x - 1
          \/ /\ s2.pc = "stordone" /\ s2.totalBytes = s.totalBytes
             /\ s.totalBytes >= s.fileSize \/ x = 0
             /\ x2 = x
    \/ /\ s.pc = "RETR" /\ s2.arg = s.arg /\ u2 = u /\ w2 = w /\ x2 = x
       /\ \/ s2.pc = "RETR" /\ s2.totalBytes = s.totalBytes + 1 /\ y2 = y + 1
          \/ /\ s2.pc = "retrsize" /\ s2.totalBytes = s.totalBytes
             /\ s.totalBytes = s.arg /\ y2 = y
    \/ /\ s.pc = "retrsize" /\ s2.pc = "retrdone" /\ u2 = u /\ x2 = x /\ y2 = y
       /\ w = <<>> => w2[1].n = s.totalBytes
    \/ /\ s.pc = "retrdone" /\ s2.pc = "session" /\ u2 = u /\ x2 = x /\ y2 = y
       /\ w # <<>> => w2[1] = w[1]

(* Such a step at work on a client: the process greets the data connection  *)
(* while its client waits for that, and shuts its end of it after a listing *)
(* and after a file it has received.                                        *)
Serves(me, s, u, w, x, y, e, s2, u2, w2, x2, y2, e2) ==
    /\ x \in Nat /\ y \in Nat /\ x2 \in Nat /\ y2 \in Nat
    /\ me.totalBytes \in Nat /\ me.arg \in Int /\ s.totalBytes \in Nat
    /\ s.pc \in {"dtphello", "dtphi"} => me.pc = "dtphi" /\ y = 0
    /\ s.pc \notin {"stordone", "listdata"} => (e2 = "open" <=> e = "open")
    /\ s.pc \in {"storsize", "stordone", "listdata"} => e = "open"
    /\ Paired(me.pc, s.pc, u, w) /\ Filed(me, u, w, x, y, e) /\ Carried(me, s, x, y)
    /\ ServerDeed(s, u, w, x, y, s2, u2, w2, x2, y2)

(* It keeps both,                                                           *)
LEMMA DeedKeeps ==
    ASSUME NEW me, NEW s, NEW u, NEW w, NEW x, NEW y, NEW e,
           NEW s2, NEW u2, NEW w2, NEW x2, NEW y2, NEW e2,
           Serves(me, s, u, w, x, y, e, s2, u2, w2, x2, y2, e2)
    PROVE  Filed(me, u2, w2, x2, y2, e2) /\ Carried(me, s2, x2, y2)
<1>0. /\ x \in Nat /\ y \in Nat /\ x2 \in Nat /\ y2 \in Nat
      /\ me.totalBytes \in Nat /\ me.arg \in Int /\ s.totalBytes \in Nat
      /\ s.pc \in {"dtphello", "dtphi"} => me.pc = "dtphi" /\ y = 0
      /\ s.pc \notin {"stordone", "listdata"} => (e2 = "open" <=> e = "open")
      /\ s.pc \in {"storsize", "stordone", "listdata"} => e = "open"
      /\ Paired(me.pc, s.pc, u, w) /\ Filed(me, u, w, x, y, e) /\ Carried(me, s, x, y)
      /\ ServerDeed(s, u, w, x, y, s2, u2, w2, x2, y2)
  BY DEF Serves
<1> USE <1>0
<1> USE DEF Silent
<1>1. /\ \A t \in Texts : Is(u, t) => u # <<>> /\ u[1].t = t
      /\ \A t \in Texts : Is(w, t) => w # <<>> /\ w[1].t = t
  BY IsOne
<1>2. Commands \subseteq Texts /\ {"SIZE", "size", "text"} \subseteq Texts
  BY DEF Texts
<1>3. CASE /\ s.pc \in Elsewhere /\ s2.pc \notin Counting /\ u2 \in {u, <<>>}
           /\ s.pc \notin {"LIST", "listdata"} => x2 \in {0, x} /\ y2 = y
  <2>1. /\ me.pc # "retrsize" /\ (me.pc = "dtphi" => (e2 = "open" <=> e = "open"))
        /\ s.pc \in {"LIST", "listdata"} => me.pc \in {"list150", "listdata", "listdone"}
    BY <1>3 DEF Elsewhere, Paired, Meeting, Arriving, Asking, Asks, Concludes, Echoing, Joining, Orders,
       Listing, Fetching, Storing, Commands
  <2>2. Carried(me, s2, x2, y2)
    BY <1>3 DEF Carried, Counting
  <2>3. me.pc \notin {"list150", "listdata", "listdone"} => x2 \in {0, x} /\ y2 = y
    BY <1>3, <2>1
  <2>4. Filed(me, u2, w2, x2, y2, e2)
    BY <1>3, <2>1, <2>3 DEF Filed
  <2> QED
    BY <2>2, <2>4
<1>4. CASE /\ s.pc = "session" /\ u # <<>> /\ u2 = <<>> /\ w2 = w /\ x2 = x /\ y2 = y
           /\ s2.pc = IF u[1].t \in Commands THEN u[1].t ELSE "session"
           /\ s2.totalBytes = 0
           /\ u[1].t \in Commands => s2.arg = u[1].n
  <2>1. s2.pc = "RETR" => me.pc = "retrsize"
    BY <1>1, <1>2, <1>4 DEF Paired, Meeting, Arriving, Asking, Asks, Concludes, Echoing, Joining, Orders,
       Listing, Fetching, Storing, Commands
  <2>2. Filed(me, u2, w2, x2, y2, e2)
    BY <1>4 DEF Filed
  <2>3. s2.pc = "RETR" => s2.arg = me.arg /\ s2.totalBytes = y
    BY <1>4, <2>1 DEF Filed, Commands
  <2>4. s2.pc \in Commands \cup {"session"}
    BY <1>4
  <2> QED
    BY <1>4, <2>2, <2>3, <2>4 DEF Carried, Commands
<1>5. CASE s.pc \in {"dtphello", "dtphi"}
  <2>1. me.pc = "dtphi" /\ y = 0 /\ (e2 = "open" <=> e = "open") /\ u2 = u /\ w2 = w
    BY <1>5 DEF ServerDeed, Elsewhere
  <2>2. /\ x2 = 0 \/ x2 = x
        /\ s.pc = "dtphello" => s2.pc = "dtphi" /\ x2 = 0 /\ y2 = y
        /\ s.pc = "dtphi" => s2.pc = "session" /\ x2 = x /\ y2 \in {y, y + 1}
    BY <1>5 DEF ServerDeed, Elsewhere
  <2>3. Filed(me, u2, w2, x2, y2, e2)
    BY <1>5, <2>1, <2>2 DEF Filed, Carried
  <2>4. Carried(me, s2, x2, y2)
    BY <1>5, <2>2 DEF Carried
  <2> QED
    BY <2>3, <2>4
<1>6. CASE s.pc = "STOR"
  <2>1. me.pc = "storok"
    BY <1>6 DEF Paired, Meeting, Asking, Asks, Echoing, Joining, Listing, Fetching, Storing, Commands
  <2> QED
    BY <1>6, <2>1 DEF ServerDeed, Filed, Carried, Elsewhere
<1>7. CASE s.pc = "storsize"
  <2>1. u # <<>> => me.pc = "stordone" /\ Is(u, "SIZE")
    BY <1>7 DEF Paired, Meeting, Asking, Asks, Echoing, Joining, Listing, Fetching, Storing, Commands
  <2>2. /\ s2.pc = "download" /\ s2.totalBytes = s.totalBytes
        /\ u # <<>> /\ (u[1].t = "SIZE" => s2.fileSize = u[1].n)
        /\ u2 = <<>> /\ x2 = x /\ y2 = y
    BY <1>7 DEF ServerDeed, Elsewhere
  <2> QED
    BY <1>1, <1>2, <1>7, <2>1, <2>2 DEF Filed, Carried
<1>8. CASE s.pc = "download"
  <2>1. me.pc = "stordone" /\ u = <<>>
    BY <1>8 DEF Paired, Meeting, Asking, Asks, Echoing, Joining, Listing, Fetching, Storing, Commands
  <2> QED
    BY <1>8, <2>1 DEF ServerDeed, Filed, Carried, Elsewhere
<1>9. CASE s.pc = "RETR"
  <2>1. me.pc = "retrsize" /\ u = <<>> /\ w = <<>>
    BY <1>9 DEF Paired, Meeting, Asking, Asks, Echoing, Joining, Listing, Fetching, Storing, Commands
  <2> QED
    BY <1>9, <2>1 DEF ServerDeed, Filed, Carried, Elsewhere
<1>10. CASE s.pc = "retrsize"
  <2>1. me.pc = "retrsize" /\ u = <<>> /\ w = <<>>
    BY <1>10 DEF Paired, Meeting, Asking, Asks, Echoing, Joining, Listing, Fetching, Storing, Commands
  <2> QED
    BY <1>10, <2>1 DEF ServerDeed, Filed, Carried, Elsewhere
<1>11. CASE s.pc = "retrdone"
  <2>1. (me.pc = "retrsize" /\ u = <<>> /\ w # <<>>) \/ me.pc \in {"download", "retrdone"}
    BY <1>1, <1>2, <1>11 DEF Paired, Meeting, Asking, Asks, Echoing, Joining, Listing, Fetching, Storing, Commands
  <2> QED
    BY <1>11, <2>1 DEF ServerDeed, Filed, Carried, Elsewhere
<1> QED
  BY <1>3, <1>4, <1>5, <1>6, <1>7, <1>8, <1>9, <1>10, <1>11 DEF ServerDeed

(* What a step of the client does, with me2 the record it leaves.           *)
Busy == {"dtphello", "dtphi", "RETR", "retrsize", "download", "retrdone",
    "STOR", "storok", "upload", "SIZE", "stordone"}
Kept(me, me2) == me2.arg = me.arg /\ me2.totalBytes = me.totalBytes
ClientDeed(me, u, w, x, y, e, me2, u2, w2, x2, y2) ==
    \/ /\ me.pc \notin Busy /\ me2.pc \notin Busy \cup {"LIST"}
       /\ me2.totalBytes \in {0, me.totalBytes}
    \/ /\ me.pc = "dtphello" /\ me2.pc = "dtphi" /\ Kept(me, me2) /\ y2 = y
       /\ e # "open" => x2 = x
    \/ /\ me.pc = "dtphi" /\ me2.pc \in {"LIST", "RETR", "STOR"} /\ Kept(me, me2) /\ x2 = x
       /\ y2 < y \/ (y = 0 /\ e # "open" /\ y2 = y)
    \/ /\ me.pc = "RETR" /\ me2.pc = "retrsize" /\ Kept(me, me2) /\ x2 = x /\ y2 = y
       /\ w2 = w /\ (u = <<>> => u2 = <<>> \/ u2[1].n = me.arg)
    \/ /\ me.pc = "retrsize" /\ me2.pc = "download" /\ Kept(me, me2) /\ y2 = y
       /\ w # <<>> /\ me2.fileSize = w[1].n
    \/ /\ me.pc = "download" /\ me2.arg = me.arg /\ me2.fileSize = me.fileSize
       /\ \/ /\ me2.pc = "download" /\ me2.totalBytes = me.totalBytes + 1
             /\ y2 = y - 1
          \/ /\ me2.pc = "retrdone" /\ me2.totalBytes = me.totalBytes
             /\ me.totalBytes >= me.fileSize \/ y = 0
    \/ /\ me.pc \in {"retrdone", "stordone"} /\ me2.pc = "prompt" /\ me2.totalBytes = 0
    \/ /\ me.pc = "STOR" /\ me2.pc = "storok" /\ Kept(me, me2) /\ x2 = x /\ y2 = y
    \/ /\ me.pc = "storok" /\ me2.pc = "upload" /\ Kept(me, me2) /\ x2 = x
    \/ /\ me.pc = "upload" /\ me2.arg = me.arg
       /\ \/ /\ me2.pc = "upload" /\ me2.totalBytes = me.totalBytes + 1
             /\ e = "open" => x2 = x + 1
          \/ /\ me2.pc = "SIZE" /\ x2 = x
             /\ e = "open" => /\ me2.totalBytes = me.totalBytes
                              /\ me.totalBytes = me.arg
    \/ /\ me.pc = "SIZE" /\ me2.pc = "stordone" /\ Kept(me, me2) /\ x2 = x
       /\ u = <<>> => u2 = <<>> \/ u2[1].n = me.totalBytes

(* It keeps what the client knows,                                          *)
LEMMA MoveFiled ==
    ASSUME NEW me, NEW u, NEW w, NEW x \in Nat, NEW y \in Nat, NEW e,
           NEW me2, NEW u2, NEW w2, NEW x2 \in Nat, NEW y2 \in Nat, NEW e2,
           me.totalBytes \in Nat, me.arg \in Int, me.fileSize \in Int,
           e2 = "open" <=> e = "open",
           me.pc \in {"RETR", "SIZE"} => u = <<>> /\ w = <<>>,
           Filed(me, u, w, x, y, e),
           ClientDeed(me, u, w, x, y, e, me2, u2, w2, x2, y2)
    PROVE  Filed(me2, u2, w2, x2, y2, e2)
<1> USE DEF ClientDeed, Filed, Kept, Busy
<1>1. CASE me.pc \notin Busy
  BY <1>1
<1>2. CASE me.pc \in {"dtphello", "dtphi"}
  BY <1>2
<1>3. CASE me.pc \in {"RETR", "retrsize"}
  <2>1. CASE me.pc = "RETR"
    <3>1. /\ me2.pc = "retrsize" /\ Kept(me, me2) /\ x2 = x /\ y2 = y
          /\ w2 = w /\ (u = <<>> => u2 = <<>> \/ u2[1].n = me.arg)
      BY <2>1
    <3>2. x = 0 /\ y = 0 /\ u = <<>> /\ w = <<>> /\ me.totalBytes = 0
      BY <2>1
    <3> QED
      BY <3>1, <3>2
  <2>2. CASE me.pc = "retrsize"
    <3>1. /\ me2.pc = "download" /\ Kept(me, me2) /\ y2 = y
          /\ w # <<>> /\ me2.fileSize = w[1].n
      BY <2>2
    <3> QED
      BY <2>2, <3>1
  <2> QED
    BY <1>3, <2>1, <2>2
<1>4. CASE me.pc \in {"download", "retrdone", "stordone"}
  BY <1>4
<1>5. CASE me.pc \in {"STOR", "storok", "upload", "SIZE"}
  BY <1>5
<1> QED
  BY <1>1, <1>2, <1>3, <1>4, <1>5

(* and what its process does, which has its end of the data connection open *)
(* as long as it uses it.                                                   *)
LEMMA MoveCarried ==
    ASSUME NEW me, NEW s, NEW u, NEW w, NEW x \in Nat, NEW y \in Nat, NEW e,
           NEW me2, NEW u2, NEW w2, NEW x2 \in Nat, NEW y2 \in Nat,
           me.totalBytes \in Nat, me.arg \in Int, s.totalBytes \in Nat,
           s.pc = "dtphi" => me.pc = "dtphi" /\ y = 0 /\ e = "open",
           s.pc = "storsize" => e = "open",
           Paired(me.pc, s.pc, u, w), Filed(me, u, w, x, y, e), Carried(me, s, x, y),
           Paired(me2.pc, s.pc, u2, w2),
           ClientDeed(me, u, w, x, y, e, me2, u2, w2, x2, y2)
    PROVE  Carried(me2, s, x2, y2)
<1> USE DEF Silent
<1>1. /\ s.pc \in {"RETR", "retrsize"} => me.pc = "retrsize" /\ me2.pc = "retrsize" /\ w = <<>>
      /\ s.pc \in {"download", "stordone"} => me.pc = "stordone" /\ me2.pc = "stordone"
      /\ s.pc = "storsize" => /\ me.pc \in {"storok", "upload", "SIZE", "stordone"}
                              /\ me2.pc \in {"storok", "upload", "SIZE", "stordone"}
  BY DEF Paired, Meeting, Asking, Asks, Echoing, Joining, Listing, Fetching, Storing, Commands
<1>2. CASE s.pc \in {"RETR", "retrsize", "download", "stordone", "dtphi"}
  BY <1>1, <1>2 DEF ClientDeed, Busy
<1>3. CASE s.pc = "storsize"
  BY <1>1, <1>3 DEF ClientDeed, Busy, Carried, Filed, Kept
<1>4. CASE s.pc \notin {"RETR", "retrsize", "download", "stordone", "dtphi", "storsize"}
  BY <1>4 DEF Carried
<1> QED
  BY <1>2, <1>3, <1>4

-----------------------------------------------------------------------------
(* Which of its calls a process makes at the points that matter here.       *)
LEMMA ServerDoes ==
    ASSUME NEW p, ServerStep(p)
    PROVE  LET k == proc[p].clntSock
               d == proc[p].clntDtpSock
           IN
           /\ At(p, "session") => Session(p)
           /\ At(p, "dtphello") => Hello(p, d, "dtphi")
           /\ At(p, "dtphi") => Send(p, d, Word("hi"), "session")
           /\ At(p, "STOR") => Send(p, k, Word("226"), "storsize")
           /\ At(p, "storsize") => StorSize(p)
           /\ At(p, "download") => Download(p)
           /\ At(p, "stordone") =>
                \/ CloseIn([chan EXCEPT ![k] = Sent(@, "s", <<Word("complete")>>)], p, d)
                \/ Die(p)
           /\ At(p, "RETR") =>
                \/ /\ Room(chan[d], "s") /\ SendOn(d, "s", <<Word("data")>>)
                   /\ proc' = [proc EXCEPT ![p].totalBytes = @ + 1]
                \/ /\ \E n \in Uploaded(chan[d], "s", proc[p].totalBytes, proc[p].arg) :
                        proc' = [proc EXCEPT ![p].pc = "retrsize", ![p].totalBytes = n]
                   /\ UNCHANGED <<sockets, fds>>
                \/ Die(p)
           /\ At(p, "retrsize") => Send(p, k, With("size", proc[p].totalBytes), "retrdone")
           /\ At(p, "retrdone") => Send(p, k, Word("complete"), "session")
<1> USE DEF At
<1>1. AcceptPI(p) => proc[p].pc \in {"accept", "hello", "hi"}
  BY DEF AcceptPI
<1>2. Fork(p) => proc[p].pc = "fork"
  BY DEF Fork
<1>3. Session(p) => proc[p].pc = "session"
  BY DEF Session
<1>4. User(p) \/ SYSY(p) \/ CWD(p) \/ QUIT(p) => proc[p].pc \in {"User", "SYSY", "CWD", "QUIT"}
  BY DEF User, SYSY, CWD, QUIT
<1>5. PASV(p) => proc[p].pc \in {"PASV", "dtpaccept", "dtphello", "dtphi"}
  BY DEF PASV
<1>6. ECHO(p) => proc[p].pc \in {"ECHO", "echotext", "echoback"}
  BY DEF ECHO
<1>7. STOR(p) => proc[p].pc \in {"STOR", "storsize", "download", "stordone"}
  BY DEF STOR, StorSize, Download
<1>8. RETR(p) => proc[p].pc \in {"RETR", "retrsize", "retrdone"}
  BY DEF RETR
<1>9. LIST(p) => proc[p].pc \in {"LIST", "listdata", "listdone"}
  BY DEF LIST
<1>10. /\ proc[p].pc = "session" => Session(p)
       /\ proc[p].pc \in {"dtphello", "dtphi"} => PASV(p)
       /\ proc[p].pc \in {"STOR", "storsize", "download", "stordone"} => STOR(p)
       /\ proc[p].pc \in {"RETR", "retrsize", "retrdone"} => RETR(p)
  BY <1>1, <1>2, <1>3, <1>4, <1>5, <1>6, <1>7, <1>8, <1>9 DEF ServerStep
<1>11. proc[p].pc = "session" => Session(p)
  BY <1>10
<1>12. CASE proc[p].pc \in {"dtphello", "dtphi"}
  BY <1>10, <1>12 DEF PASV
<1>13. CASE proc[p].pc \in {"STOR", "storsize", "download", "stordone"}
  BY <1>10, <1>13 DEF STOR, StorSize, Download
<1>14. CASE proc[p].pc \in {"RETR", "retrsize", "retrdone"}
  BY <1>10, <1>14 DEF RETR
<1> QED
  BY <1>11, <1>12, <1>13, <1>14

(* The process of a running client, in touch with it, and its connections.  *)
Touches(p) == LET k == proc[p].clntSock IN
    Serving(p) /\ Running(k[1]) /\ cl[k[1]].sock = k

(* What is known of them.                                                   *)
LEMMA TouchConns ==
    ASSUME PInv, DataConnMatches, NEW p \in Procs, Touches(p)
    PROVE  LET k == proc[p].clntSock
               c == k[1]
               d == cl[c].dtpSock
           IN  /\ k \in Conns /\ c \in Clients /\ d # k
               /\ chan \in [Conns -> Channel] /\ proc \in [Procs -> Process] /\ cl[c] \in Client
               /\ chan[k].end["c"] = "open" /\ chan[k].end["s"] = "open"
               /\ Paired(cl[c].pc, proc[p].pc, chan[k].in["s"], chan[k].in["c"])
               /\ AtMostOne(chan[k].in["s"])
               /\ Transferring(p) => /\ d = proc[p].clntDtpSock /\ d \in Conns
                                     /\ chan[d].end["s"] = "open"
               /\ cl[c].pc \in WithData => d \in Conns /\ chan[d].end["c"] = "open"
               /\ At(p, "dtphello") => /\ CAt(c, "dtphi") \/ chan[d].in["s"] = <<>>
                                       /\ chan[d].in["c"] = <<>>
               /\ At(p, "dtphi") => CAt(c, "dtphi") /\ chan[d].in["c"] = <<>>
<1> DEFINE k == proc[p].clntSock
           c == k[1]
           d == cl[c].dtpSock
<1>1. /\ k \in Conns /\ c \in Clients /\ chan[k].port = "pi" /\ chan[k].end["s"] = "open"
      /\ Serving(p) /\ Running(c) /\ cl[c].sock = k
  BY SocksApart DEF Touches, PInv, Conns
<1>2. /\ chan \in [Conns -> Channel] /\ proc \in [Procs -> Process] /\ cl \in [Clients -> Client]
  BY DEF PInv, IInv, TypeOK, ServerType, ClientType, SocketsType
<1>3. /\ Tied(c) /\ Greeting(c)
      /\ Ready(p) /\ InTouch(p) /\ PiOpen(k)
  BY <1>1 DEF PInv, ClientsInv, ProcsInv, ConnsInv
<1>4. d # k /\ (cl[c].pc \in WithData => d \in Conns /\ chan[d].end["c"] = "open")
  BY <1>1, <1>3 DEF Tied, Owned, Attached
<1>5. chan[k].end["c"] = "open"
  BY <1>1, <1>3 DEF PiOpen
<1>6. Paired(cl[c].pc, proc[p].pc, chan[k].in["s"], chan[k].in["c"]) /\ AtMostOne(chan[k].in["s"])
  BY <1>1, <1>3 DEF InTouch, Ready
<1>7. Transferring(p) => d = proc[p].clntDtpSock /\ d \in Conns /\ chan[d].end["s"] = "open"
  <2> SUFFICES ASSUME Transferring(p)
               PROVE  d = proc[p].clntDtpSock /\ d \in Conns /\ chan[d].end["s"] = "open"
    OBVIOUS
  <2>1. d = proc[p].clntDtpSock /\ d \in fds[p]
    BY <1>3 DEF Ready, Fresh, DataConnMatches, ClientOf
  <2>2. d \in Conns
    BY <2>1 DEF PInv, IInv, TypeOK, ServerType
  <2> QED
    BY <2>1, <2>2 DEF PInv, IInv, Held
<1>8. /\ At(p, "dtphello") => (CAt(c, "dtphi") \/ chan[d].in["s"] = <<>>) /\ chan[d].in["c"] = <<>>
      /\ At(p, "dtphi") => CAt(c, "dtphi") /\ chan[d].in["c"] = <<>>
  <2>1. At(p, "dtphello") \/ At(p, "dtphi") => Transferring(p)
    BY PcServes DEF At, TransferPc
  <2> QED
    BY <1>1, <1>3, <1>7, <2>1 DEF Greeting, Knocks
<1> QED
  BY <1>1, <1>2, <1>4, <1>5, <1>6, <1>7, <1>8

(* How many units wait, before and after one is sent or read.               *)
LEMMA UnitsAre ==
    ASSUME NEW h \in [Conns -> Channel], NEW side \in Sides, NEW d
    PROVE  /\ Units(h, d, side) \in Nat
           /\ d \in Conns => (Units(h, d, side) = 0 <=> h[d].in[side] = <<>>)
<1>1. d \in Conns => h[d].in[side] \in Seq(Msg)
  BY DEF Channel
<1>2. \A q \in Seq(Msg) : Len(q) \in Nat /\ (Len(q) = 0 <=> q = <<>>)
  OBVIOUS
<1> QED
  BY <1>1, <1>2 DEF Units

(* One that is sent comes after those that wait, if the other side reads.   *)
LEMMA UnitsSent ==
    ASSUME chan \in [Conns -> Channel], NEW d \in Conns, NEW s \in Sides, NEW m \in Msg,
           SendOn(d, s, <<m>>)
    PROVE  /\ Units(chan', d, Peer(s)) =
                Units(chan, d, Peer(s)) + (IF chan[d].end[Peer(s)] = "open" THEN 1 ELSE 0)
           /\ Units(chan', d, s) = Units(chan, d, s) /\ chan'[d].in[s] = chan[d].in[s]
           /\ \A l \in Conns \ {d} : chan'[l] = chan[l]
           /\ chan[d].end[Peer(s)] = "open" =>
                chan'[d].in[Peer(s)] = chan[d].in[Peer(s)] \o <<m>>
           /\ chan[d].end[Peer(s)] # "open" => chan'[d].in[Peer(s)] = chan[d].in[Peer(s)]
<1>1. chan[d] \in Channel /\ chan'[d] = Sent(chan[d], s, <<m>>)
      /\ \A l \in Conns \ {d} : chan'[l] = chan[l]
  BY DEF SendOn
<1> DEFINE r == Peer(s)
           u == chan[d].in[r]
<1>2. r \in Sides /\ r # s /\ u \in Seq(Msg) /\ <<m>> \in Seq(Msg)
  BY <1>1, PeerSide DEF Channel
<1>3. u \o <<m>> \in Seq(Msg) /\ Len(u \o <<m>>) = Len(u) + 1 /\ Len(u) \in Nat
  BY <1>2
<1>4. chan'[d].in[s] = chan[d].in[s]
  <2>1. chan'[d] = [chan[d] EXCEPT !.in[r] = u \o <<m>>] => chan'[d].in[s] = chan[d].in[s]
    BY <1>1, <1>2 DEF Channel
  <2>2. chan'[d] # [chan[d] EXCEPT !.in[r] = u \o <<m>>] => chan'[d].in = chan[d].in
    BY <1>1 DEF Sent, Channel
  <2> QED
    BY <2>1, <2>2
<1>5. CASE chan[d].end[r] = "open"
  <2>1. chan'[d] = [chan[d] EXCEPT !.in[r] = u \o <<m>>]
    BY <1>1, <1>5 DEF Sent
  <2>2. chan'[d].in[r] = u \o <<m>>
    BY <1>1, <1>2, <2>1 DEF Channel
  <2> QED
    BY <1>1, <1>3, <1>4, <1>5, <2>2 DEF Units
<1>6. CASE chan[d].end[r] # "open"
  <2>1. chan'[d].in = chan[d].in
    BY <1>1, <1>6 DEF Sent, Channel
  <2> QED
    BY <1>1, <1>3, <1>4, <1>6, <2>1 DEF Units
<1> QED
  BY <1>5, <1>6

(* Those that are read wait no longer.                                      *)
LEMMA UnitsRead ==
    ASSUME chan \in [Conns -> Channel], NEW d \in Conns, NEW s \in Sides, NEW j, RecvOn(d, s, j)
    PROVE  /\ Units(chan', d, s) = Units(chan, d, s) - j
           /\ j \in 1..Units(chan, d, s)
           /\ Units(chan', d, Peer(s)) = Units(chan, d, Peer(s))
           /\ chan'[d].in[Peer(s)] = chan[d].in[Peer(s)]
           /\ \A l \in Conns \ {d} : chan'[l] = chan[l]
<1>1. chan[d] \in Channel /\ chan'[d] = Taken(chan[d], s, j) /\ j \in 1..Len(chan[d].in[s])
      /\ \A l \in Conns \ {d} : chan'[l] = chan[l]
  BY DEF RecvOn
<1> DEFINE u == chan[d].in[s]
           v == SubSeq(u, j + 1, Len(u))
<1>2. Peer(s) \in Sides /\ Peer(s) # s /\ u \in Seq(Msg)
  BY <1>1, PeerSide DEF Channel
<1>3. v \in Seq(Msg) /\ Len(v) = Len(u) - j
  BY <1>1, <1>2
<1>4. chan'[d] = [chan[d] EXCEPT !.in[s] = v]
  BY <1>1 DEF Taken
<1> HIDE DEF v
<1>5. chan'[d].in[s] = v /\ chan'[d].in[Peer(s)] = chan[d].in[Peer(s)]
  BY <1>1, <1>2, <1>4 DEF Channel
<1> QED
  BY <1>1, <1>3, <1>5 DEF Units

(* A step of a process in touch is one of its deeds, with its client's data *)
(* connection.                                                              *)
LEMMA HandlesDeed ==
    ASSUME PInv, TypeOK', DataConnMatches, NEW p \in Procs, Handles(p), ServerStep(p), Touches(p)
    PROVE  LET k == proc[p].clntSock
               d == cl[k[1]].dtpSock
           IN  ServerDeed(proc[p], chan[k].in["s"], chan[k].in["c"],
                          Units(chan, d, "s"), Units(chan, d, "c"),
                          proc'[p], chan'[k].in["s"], chan'[k].in["c"],
                          Units(chan', d, "s"), Units(chan', d, "c"))
<1> DEFINE k == proc[p].clntSock
           c == k[1]
           d == cl[c].dtpSock
           s == proc[p]
           s2 == proc'[p]
           u == chan[k].in["s"]
           w == chan[k].in["c"]
           u2 == chan'[k].in["s"]
           w2 == chan'[k].in["c"]
           x == Units(chan, d, "s")
           y == Units(chan, d, "c")
           x2 == Units(chan', d, "s")
           y2 == Units(chan', d, "c")
           Deed == ServerDeed(s, u, w, x, y, s2, u2, w2, x2, y2)
<1>1. /\ k \in Conns /\ c \in Clients /\ d # k
      /\ chan \in [Conns -> Channel] /\ proc \in [Procs -> Process]
      /\ chan[k].end["c"] = "open" /\ Paired(cl[c].pc, s.pc, u, w) /\ AtMostOne(u)
      /\ Transferring(p) => d = proc[p].clntDtpSock /\ d \in Conns /\ chan[d].end["s"] = "open"
      /\ cl[c].pc \in WithData => d \in Conns /\ chan[d].end["c"] = "open"
  BY TouchConns
<1>2. /\ chan' \in [Conns -> Channel] /\ "s" \in Sides /\ "c" \in Sides
      /\ Peer("s") = "c" /\ Peer("c") = "s"
  BY DEF TypeOK, SocketsType, Sides, Peer
<1>3. /\ ServerTalk(TRUE, s.pc, u, w, s2.pc, u2, w2)
      /\ s2.pc # "dead" /\ s.pc \in ServingPc
  <2>1. /\ ServerTalk(TRUE, s.pc, u, w, s2.pc, u2, w2)
        /\ Paired(cl[c].pc, s2.pc, u2, w2) \/ s2.pc = "accept"
    BY HandlesPair DEF Touches
  <2>2. s2.pc # "dead"
    BY <2>1, PairedServes DEF ServingPc, Commands
  <2> QED
    BY <1>1, <2>1, <2>2, PairedServes
<1>4. ~ Die(p)
  <2>1. Die(p) => proc' = [proc EXCEPT ![p].pc = "dead"]
    BY DEF Die
  <2> QED
    BY <1>1, <1>3, <2>1 DEF Process
<1>5. u2 \in {u, <<>>}
  BY <1>1, <1>3, TalkTakes
<1>6. (d \in Conns => chan'[d] = chan[d]) => x2 = x /\ y2 = y
  BY DEF Units
<1>7. (\A l \in Conns \ {k} : chan'[l] = chan[l]) => x2 = x /\ y2 = y
  BY <1>1, <1>6
<1>8. s.pc \notin TransferPc => x2 = x /\ y2 = y
  <2>1. \A l \in Conns \ {k} : (Transferring(p) => l # proc[p].clntDtpSock) => chan'[l] = chan[l]
    BY DEF Handles
  <2> QED
    BY <1>7, <2>1, PcServes
<1>g. ASSUME NEW pc, Goto(p, pc)
      PROVE  s2.pc = pc /\ proc'[p].totalBytes = proc[p].totalBytes
             /\ proc'[p].fileSize = proc[p].fileSize /\ proc'[p].arg = proc[p].arg
  BY <1>1, <1>g DEF Goto, Process
<1>s. ASSUME NEW l, NEW m, NEW pc, Send(p, l, m, pc)
      PROVE  SendOn(l, "s", <<m>>) /\ Goto(p, pc)
  BY <1>4, <1>s DEF Send
<1>t. s.totalBytes \in Nat
  BY <1>1 DEF Process
<1>w. \A t \in {"hi", "226", "data", "complete"} : Word(t) \in Msg
  BY DEF Word, Msg, Texts
<1>n. With("size", s.totalBytes) \in Msg
  BY <1>t DEF With, Msg, Texts
<1>k. ASSUME NEW m \in Msg, SendOn(k, "s", <<m>>)
      PROVE  w2 = w \o <<m>> /\ u2 = u /\ x2 = x /\ y2 = y
  <2>1. \A l \in Conns \ {k} : chan'[l] = chan[l]
    BY <1>k DEF SendOn
  <2>2. w2 = w \o <<m>>
    <3>1. Peer("s") = "c" /\ "s" \in Sides /\ chan \in [Conns -> Channel] /\ k \in Conns
      BY <1>1, <1>2 DEF Peer, Sides
    <3>2. chan[k].end["c"] = "open" => chan'[k].in["c"] = chan[k].in["c"] \o <<m>>
      BY <1>k, <3>1, UnitsSent
    <3> QED
      BY <1>1, <1>2, <3>2
  <2>3. u2 = u
    BY <1>1, <1>2, <1>k DEF SendOn, Sent, Channel
  <2> QED
    BY <1>7, <2>1, <2>2, <2>3
<1>v. w \in Seq(Msg) /\ u \in Seq(Msg)
  BY <1>1, <1>2 DEF Channel
<1>x. x \in Nat /\ y \in Nat /\ x2 \in Nat /\ y2 \in Nat
  BY <1>1, <1>2, UnitsAre
<1> SUFFICES Deed
  OBVIOUS
<1>10. CASE s.pc \in Elsewhere
  <2>1. s2.pc \notin Counting
    BY <1>3, <1>10 DEF ServerTalk, Replies, Hears, Works, Elsewhere, Counting
  <2>2. s.pc \notin {"LIST", "listdata"} => x2 \in {0, x} /\ y2 = y
    <3>1. CASE s.pc = "stordone"
      <4>1. CloseIn([chan EXCEPT ![k] = Sent(@, "s", <<Word("complete")>>)], p, proc[p].clntDtpSock)
        BY <1>4, <3>1, ServerDoes DEF At
      <4>2. d = proc[p].clntDtpSock /\ d \in Conns
        BY <1>1, <3>1, PcServes DEF TransferPc
      <4>3. chan'[d] = chan[d] \/ \E how \in Hows : chan'[d] = Closed(chan[d], "s", how)
        <5> DEFINE h == [chan EXCEPT ![k] = Sent(@, "s", <<Word("complete")>>)]
        <5>1. h[d] = chan[d] /\ d \in DOMAIN h
          BY <1>1, <4>2
        <5>2. CloseIn(h, p, d)
          BY <4>1, <4>2
        <5> HIDE DEF h, d
        <5> QED
          BY <5>1, <5>2 DEF CloseIn
      <4>4. \A how \in Hows : /\ Closed(chan[d], "s", how).in["s"] = <<>>
                              /\ Closed(chan[d], "s", how).in["c"] = chan[d].in["c"]
        BY <1>1, <1>2, <4>2, ClosedEnd
      <4>5. chan'[d].in["s"] \in {chan[d].in["s"], <<>>} /\ chan'[d].in["c"] = chan[d].in["c"]
        BY <4>3, <4>4
      <4>6. Len(<<>>) = 0
        OBVIOUS
      <4> QED
        BY <4>2, <4>5, <4>6 DEF Units
    <3>2. CASE s.pc # "stordone"
      BY <1>8, <1>10, <3>2 DEF Elsewhere, TransferPc
    <3> QED
      BY <3>1, <3>2
  <2> HIDE DEF x, y, x2, y2, d, k, u, w, u2, w2, s, s2
  <2> QED
    BY <1>5, <1>10, <2>1, <2>2 DEF ServerDeed
<1>11. CASE s.pc = "session"
  <2>1. u # <<>> /\ Shrunk(u, u2) /\ w2 = w
    BY <1>3, <1>11 DEF ServerTalk, Replies, Hears, Works, Shrunk
  <2>2. u2 = <<>>
    BY <1>1, <2>1 DEF AtMostOne, Shrunk
  <2>3. Head(u) = u[1]
    BY <1>v, <2>1
  <2>4. Session(p)
    BY <1>11, ServerDoes DEF At
  <2>5. proc' = [proc EXCEPT
                   ![p].pc  = IF Head(u).t \in Commands THEN Head(u).t ELSE @,
                   ![p].arg = IF Head(u).t \in Commands THEN Head(u).n ELSE @,
                   ![p].totalBytes = 0]
    BY <1>4, <2>4 DEF Session
  <2>6. /\ s2.pc = IF u[1].t \in Commands THEN u[1].t ELSE "session"
        /\ s2.totalBytes = 0
        /\ u[1].t \in Commands => s2.arg = u[1].n
    BY <1>1, <1>11, <2>3, <2>5 DEF Process
  <2>7. x2 = x /\ y2 = y
    BY <1>8, <1>11 DEF TransferPc
  <2> HIDE DEF x, y, x2, y2, d, k, u, w, u2, w2, s, s2
  <2> QED
    BY <1>11, <2>1, <2>2, <2>6, <2>7 DEF ServerDeed
<1>12. CASE s.pc = "dtphello"
  <2>1. d = proc[p].clntDtpSock /\ d \in Conns
    BY <1>1, <1>12, PcServes DEF TransferPc
  <2>2. Greeted(d) /\ RecvOn(d, "s", 1) /\ Goto(p, "dtphi")
    BY <1>4, <1>12, <2>1, ServerDoes DEF At, Hello
  <2>3. Len(<<Word("hello")>>) = 1
    OBVIOUS
  <2>4. x = 1
    BY <2>1, <2>2, <2>3 DEF Greeted, Units
  <2>5. x2 = x - 1 /\ y2 = y /\ \A l \in Conns \ {d} : chan'[l] = chan[l]
    BY <1>1, <1>2, <2>1, <2>2, UnitsRead
  <2>6. u2 = u /\ w2 = w
    BY <1>1, <2>5
  <2>7. s2.pc = "dtphi"
    BY <2>2, <1>g
  <2> HIDE DEF x, y, x2, y2, d, k, u, w, u2, w2, s, s2
  <2> QED
    BY <1>12, <2>4, <2>5, <2>6, <2>7 DEF ServerDeed
<1>13. CASE s.pc = "dtphi"
  <2>1. d = proc[p].clntDtpSock /\ d \in Conns
    BY <1>1, <1>13, PcServes DEF TransferPc
  <2>2. SendOn(d, "s", <<Word("hi")>>) /\ Goto(p, "session")
    BY <1>s, <1>13, <2>1, ServerDoes DEF At
  <2>3. y2 \in {y, y + 1} /\ x2 = x /\ \A l \in Conns \ {d} : chan'[l] = chan[l]
    BY <1>1, <1>2, <1>w, <1>x, <2>1, <2>2, UnitsSent
  <2>4. u2 = u /\ w2 = w
    BY <1>1, <2>3
  <2>5. s2.pc = "session"
    BY <2>2, <1>g
  <2> HIDE DEF x, y, x2, y2, d, k, u, w, u2, w2, s, s2
  <2> QED
    BY <1>13, <2>3, <2>4, <2>5 DEF ServerDeed
<1>14. CASE s.pc = "STOR"
  <2>1. SendOn(k, "s", <<Word("226")>>) /\ Goto(p, "storsize")
    BY <1>s, <1>14, ServerDoes DEF At
  <2>2. u2 = u /\ x2 = x /\ y2 = y
    BY <1>k, <1>w, <2>1
  <2>3. s2.pc = "storsize" /\ s2.totalBytes = s.totalBytes
    BY <2>1, <1>g
  <2> HIDE DEF x, y, x2, y2, d, k, u, w, u2, w2, s, s2
  <2> QED
    BY <1>14, <2>2, <2>3 DEF ServerDeed
<1>15. CASE s.pc = "storsize"
  <2>1. StorSize(p)
    BY <1>15, ServerDoes DEF At
  <2>2. ~ AtEnd(chan[k], "s")
    BY <1>1, <1>2 DEF AtEnd
  <2>3. PICK j \in 1..Len(u), z \in 0..Wrapped :
          /\ Head(u).t = "SIZE" => z = Head(u).n
          /\ RecvOn(k, "s", j)
          /\ proc' = [proc EXCEPT ![p].pc = "download", ![p].fileSize = z]
    BY <1>4, <2>1, <2>2 DEF StorSize
  <2>4. s2.pc = "download" /\ s2.totalBytes = s.totalBytes /\ s2.fileSize = z
    BY <1>1, <2>3 DEF Process
  <2>5. \A l \in Conns \ {k} : chan'[l] = chan[l]
    BY <2>3 DEF RecvOn
  <2>6. x2 = x /\ y2 = y
    BY <1>7, <2>5
  <2>7. u # <<>>
    <3>1. Len(u) # 0
      BY <1>v, <2>3
    <3> QED
      BY <3>1
  <2>8. Head(u) = u[1]
    BY <1>v, <2>7
  <2>9. Shrunk(u, u2)
    <3>1. Gets(k, "s")
      BY <1>1, <1>2, <2>3, RecvGets
    <3> QED
      BY <3>1 DEF Gets
  <2>10. u2 = <<>>
    BY <1>1, <2>7, <2>9 DEF AtMostOne, Shrunk
  <2> HIDE DEF x, y, x2, y2, d, k, u, w, u2, w2, s, s2
  <2> QED
    BY <1>15, <2>3, <2>4, <2>6, <2>7, <2>8, <2>10 DEF ServerDeed
<1>16. CASE s.pc = "download"
  <2>1. d = proc[p].clntDtpSock /\ d \in Conns
    BY <1>1, <1>16, PcServes DEF TransferPc
  <2>2. Download(p)
    BY <1>16, ServerDoes DEF At
  <2>3. CASE RecvOn(d, "s", 1) /\ proc' = [proc EXCEPT ![p].totalBytes = @ + 1]
    <3>1. s2.pc = "download" /\ s2.totalBytes = s.totalBytes + 1 /\ s2.fileSize = s.fileSize
      BY <1>1, <1>16, <2>3 DEF Process
    <3>2. x2 = x - 1 /\ y2 = y /\ \A l \in Conns \ {d} : chan'[l] = chan[l]
      BY <1>1, <1>2, <2>1, <2>3, UnitsRead
    <3>3. u2 = u
      BY <1>1, <3>2
    <3> HIDE DEF x, y, x2, y2, d, k, u, w, u2, w2, s, s2
    <3> QED
      BY <1>16, <3>1, <3>2, <3>3 DEF ServerDeed
  <2>4. CASE /\ proc[p].totalBytes >= proc[p].fileSize \/ chan[d].in["s"] = <<>>
             /\ Goto(p, "stordone") /\ UNCHANGED <<sockets, fds>>
    <3>1. s2.pc = "stordone" /\ s2.totalBytes = s.totalBytes /\ s2.fileSize = s.fileSize
      BY <1>g, <2>4
    <3>2. s.totalBytes >= s.fileSize \/ x = 0
      BY <1>1, <1>2, <2>1, <2>4, UnitsAre
    <3>3. x2 = x /\ y2 = y /\ u2 = u
      BY <2>4, <1>7 DEF sockets
    <3> HIDE DEF x, y, x2, y2, d, k, u, w, u2, w2, s, s2
    <3> QED
      BY <1>16, <3>1, <3>2, <3>3 DEF ServerDeed
  <2> QED
    BY <1>4, <2>1, <2>2, <2>3, <2>4 DEF Download, AtEnd, Failed
<1>17. CASE s.pc = "RETR"
  <2>1. d = proc[p].clntDtpSock /\ d \in Conns
    BY <1>1, <1>17, PcServes DEF TransferPc
  <2>2. chan[d].end["c"] = "open"
    <3>1. cl[c].pc = "retrsize"
      BY <1>1, <1>17 DEF Paired, Meeting, Asking, Asks, Echoing, Joining, Listing, Fetching, Storing, Commands
    <3> QED
      BY <1>1, <3>1 DEF WithData
  <2>3. CASE SendOn(d, "s", <<Word("data")>>) /\ proc' = [proc EXCEPT ![p].totalBytes = @ + 1]
    <3>1. s2.pc = "RETR" /\ s2.totalBytes = s.totalBytes + 1 /\ s2.arg = s.arg
      BY <1>1, <1>17, <2>3 DEF Process
    <3>2. y2 = y + 1 /\ x2 = x /\ \A l \in Conns \ {d} : chan'[l] = chan[l]
      BY <1>1, <1>2, <1>w, <2>1, <2>2, <2>3, UnitsSent
    <3>3. u2 = u /\ w2 = w
      BY <1>1, <3>2
    <3> HIDE DEF x, y, x2, y2, d, k, u, w, u2, w2, s, s2
    <3> QED
      BY <1>17, <3>1, <3>2, <3>3 DEF ServerDeed
  <2>4. ASSUME NEW n \in Uploaded(chan[d], "s", proc[p].totalBytes, proc[p].arg),
               proc' = [proc EXCEPT ![p].pc = "retrsize", ![p].totalBytes = n],
               UNCHANGED <<sockets, fds>>
        PROVE  Deed
    <3>0. n = s.totalBytes /\ s.totalBytes = s.arg
      BY <1>2, <2>2, <2>4 DEF Uploaded
    <3>1. s2.pc = "retrsize" /\ s2.totalBytes = s.totalBytes /\ s2.arg = s.arg
      BY <1>1, <2>4, <3>0 DEF Process
    <3>2. x2 = x /\ y2 = y /\ u2 = u /\ w2 = w
      BY <2>4, <1>7 DEF sockets
    <3>3. s.totalBytes = s.arg
      BY <3>0
    <3> HIDE DEF x, y, x2, y2, d, k, u, w, u2, w2, s, s2
    <3> QED
      BY <1>17, <3>1, <3>2, <3>3 DEF ServerDeed
  <2> QED
    BY <1>4, <1>17, <2>1, <2>3, <2>4, ServerDoes DEF At
<1>18. CASE s.pc \in {"retrsize", "retrdone"}
  <2> DEFINE m == IF s.pc = "retrsize" THEN With("size", s.totalBytes) ELSE Word("complete")
             pc == IF s.pc = "retrsize" THEN "retrdone" ELSE "session"
  <2>1. SendOn(k, "s", <<m>>) /\ Goto(p, pc)
    BY <1>s, <1>18, ServerDoes DEF At
  <2>2. m \in Msg
    BY <1>w, <1>n
  <2>3. w2 = w \o <<m>> /\ u2 = u /\ x2 = x /\ y2 = y
    BY <1>k, <2>1, <2>2
  <2>4. (w = <<>> => w2[1] = m) /\ (w # <<>> => w2[1] = w[1])
    <3> HIDE DEF m, w, w2
    <3>1. CASE w = <<>>
      BY <2>2, <2>3, <3>1
    <3>2. CASE w # <<>>
      <4>1. Len(w) \in Nat /\ Len(w) # 0
        BY <1>v, <3>2
      <4>2. 1 \in 1..Len(w)
        BY <4>1
      <4> QED
        BY <1>v, <2>2, <2>3, <3>2, <4>2
    <3> QED
      BY <3>1, <3>2
  <2>5. s2.pc = pc
    BY <1>g, <2>1
  <2>6. s.pc = "retrsize" => m.n = s.totalBytes
    BY DEF With
  <2> HIDE DEF x, y, x2, y2, d, k, u, w, u2, w2, s, s2, m
  <2> QED
    BY <1>18, <2>3, <2>4, <2>5, <2>6 DEF ServerDeed
<1> QED
  <2>1. \/ s.pc \in Elsewhere \/ s.pc = "session" \/ s.pc = "dtphello" \/ s.pc = "dtphi"
        \/ s.pc = "STOR" \/ s.pc = "storsize" \/ s.pc = "download" \/ s.pc = "RETR"
        \/ s.pc \in {"retrsize", "retrdone"}
    <3>1. s.pc # "dtpaccept"
      BY <1>3 DEF ServerTalk, Replies, Hears, Works
    <3> QED
      BY <1>3, <3>1 DEF ServingPc, Elsewhere, Commands
  <2> QED
    BY <2>1, <1>10, <1>11, <1>12, <1>13, <1>14, <1>15, <1>16, <1>17, <1>18

-----------------------------------------------------------------------------
(* The calls a client makes at the points where it moves a file.            *)
LEMMA ClientDoes ==
    ASSUME NEW c, ClientStep(c)
    PROVE  LET k == cl[c].sock
               d == cl[c].dtpSock
               me == cl[c]
               w == chan[k].in["c"]
           IN
           /\ CAt(c, "dtphello") => CSend(c, d, <<Word("hello")>>, "dtphi")
           /\ CAt(c, "dtphi") => CRecv(c, d, me.then)
           /\ CAt(c, "RETR") => CSend(c, k, <<With("RETR", me.arg)>>, "retrsize")
           /\ CAt(c, "retrsize") =>
                \/ /\ w # <<>> /\ \E j \in 1..Len(w) : RecvOn(k, "c", j)
                   /\ cl' = [cl EXCEPT ![c].pc = "download", ![c].fileSize = Head(w).n]
                \/ Stop(c, "dead")
           /\ CAt(c, "download") =>
                \/ RecvOn(d, "c", 1) /\ cl' = [cl EXCEPT ![c].totalBytes = @ + 1]
                \/ /\ \/ me.totalBytes >= me.fileSize
                      \/ AtEnd(chan[d], "c") \/ Failed(chan[d], "c")
                   /\ CGoto(c, "retrdone")
                \/ Stop(c, "dead")
           /\ CAt(c, "retrdone") => Prompt(c) \/ Stop(c, "dead")
           /\ CAt(c, "STOR") => CSend(c, k, <<With("STOR", me.arg)>>, "storok")
           /\ CAt(c, "storok") => CRecv(c, k, "upload")
           /\ CAt(c, "upload") =>
                \/ /\ SendOn(d, "c", <<Word("data")>>)
                   /\ cl' = [cl EXCEPT ![c].totalBytes = @ + 1]
                \/ /\ \E n \in Uploaded(chan[d], "c", me.totalBytes, me.arg) :
                        cl' = [cl EXCEPT ![c].pc = "SIZE", ![c].totalBytes = n]
                   /\ UNCHANGED sockets
                \/ (me.arg = NoFile \/ Broken(chan[d], "c")) /\ Stop(c, "dead")
           /\ CAt(c, "SIZE") =>
                \/ /\ \E how \in Hows : chan' =
                        [Closing(d, how) EXCEPT ![k] =
                           Sent(@, "c", <<With("SIZE", me.totalBytes)>>)]
                   /\ CGoto(c, "stordone")
                \/ Broken(chan[k], "c") /\ Stop(c, "dead")
           /\ CAt(c, "stordone") => Prompt(c) \/ (Failed(chan[k], "c") /\ Stop(c, "dead"))
<1> USE DEF CAt
<1>1. openCon(c) => cl[c].pc \in {"prompt", "hello", "hi", "User", "userR", "SYSY", "sysyR"}
  BY DEF openCon, Types
<1>2. passiveMode(c) => cl[c].pc \in {"PASV", "addr", "connect", "dtphello", "dtphi"}
  BY DEF passiveMode
<1>3. rlist(c) => cl[c].pc \in {"prompt", "LIST", "list150", "listdata", "listdone"}
  BY DEF rlist, Starts, Types
<1>4. get(c) => cl[c].pc \in {"prompt", "RETR", "retrsize", "download", "retrdone"}
  BY DEF get, Starts, Types
<1>5. put(c) => cl[c].pc \in {"prompt", "STOR", "storok", "upload", "SIZE", "stordone"}
  BY DEF put, Starts, Types
<1>6. rcd(c) => cl[c].pc \in {"prompt", "CWD", "cwdR"}
  BY DEF rcd, Starts, Types
<1>7. echo(c) => cl[c].pc \in {"prompt", "ECHO", "ok", "text", "textR"}
  BY DEF echo, Starts, Types
<1>8. quit(c) => cl[c].pc \in {"prompt", "QUIT", "quitR"}
  BY DEF quit
<1>9. Local(c) => cl[c].pc = "prompt"
  BY DEF Local, Types
<1>10. /\ cl[c].pc \in {"dtphello", "dtphi"} => passiveMode(c)
       /\ cl[c].pc \in {"RETR", "retrsize", "download", "retrdone"} => get(c)
       /\ cl[c].pc \in {"STOR", "storok", "upload", "SIZE", "stordone"} => put(c)
  BY <1>1, <1>2, <1>3, <1>4, <1>5, <1>6, <1>7, <1>8, <1>9 DEF ClientStep
<1>11. CASE cl[c].pc \in {"dtphello", "dtphi"}
  BY <1>10, <1>11 DEF passiveMode
<1>12. CASE cl[c].pc \in {"RETR", "retrsize", "download", "retrdone"}
  BY <1>10, <1>12 DEF get, LastRecv, Starts, Types
<1>13. CASE cl[c].pc \in {"STOR", "storok", "upload", "SIZE", "stordone"}
  BY <1>10, <1>13 DEF put, LastRecv, Starts, Types
<1> QED
  BY <1>11, <1>12, <1>13

(* What a client sends is added to what waits for its server, or lost.      *)
LEMMA SentIn ==
    ASSUME NEW ch \in Channel, NEW m \in Msg
    PROVE  /\ Sent(ch, "c", <<m>>).in["s"] \in {ch.in["s"], ch.in["s"] \o <<m>>}
           /\ Sent(ch, "c", <<m>>).in["c"] = ch.in["c"]
<1>1. Peer("c") = "s" /\ "c" \in Sides /\ "s" \in Sides
  BY DEF Peer, Sides
<1>2. ch.in \in [Sides -> Seq(Msg)]
  BY DEF Channel
<1> DEFINE more == ch.in["s"] \o <<m>>
<1> HIDE DEF more
<1>3. [ch EXCEPT !.in["s"] = more].in["s"] = more
      /\ [ch EXCEPT !.in["s"] = more].in["c"] = ch.in["c"]
  BY <1>1, <1>2 DEF Channel
<1>4. [ch EXCEPT !.end["s"] = "gone"].in = ch.in
  BY DEF Channel
<1>5. Sent(ch, "c", <<m>>) \in {[ch EXCEPT !.in["s"] = more], [ch EXCEPT !.end["s"] = "gone"], ch}
  BY <1>1 DEF Sent, more
<1> QED
  BY <1>3, <1>4, <1>5 DEF more

(* The server's end of the data connection; open when there is none.        *)
End(h, d) == IF d \in Conns THEN h[d].end["s"] ELSE "open"

(* A move of a client is one of its deeds, with its data connection.        *)
LEMMA RunsDeed ==
    ASSUME PInv, NEW c \in Clients, Runs(c), Use(c) \/ Fail(c)
    PROVE  LET k == cl[c].sock
               d == cl[c].dtpSock
           IN  ClientDeed(cl[c], chan[k].in["s"], chan[k].in["c"],
                          Units(chan, d, "s"), Units(chan, d, "c"), End(chan, d),
                          cl'[c], chan'[k].in["s"], chan'[k].in["c"],
                          Units(chan', d, "s"), Units(chan', d, "c"))
<1> DEFINE k == cl[c].sock
           d == cl[c].dtpSock
           me == cl[c]
           me2 == cl'[c]
           u == chan[k].in["s"]
           w == chan[k].in["c"]
           u2 == chan'[k].in["s"]
           w2 == chan'[k].in["c"]
           x == Units(chan, d, "s")
           y == Units(chan, d, "c")
           x2 == Units(chan', d, "s")
           y2 == Units(chan', d, "c")
           e == End(chan, d)
           Deed == ClientDeed(me, u, w, x, y, e, me2, u2, w2, x2, y2)
<1>1. /\ cl \in [Clients -> Client] /\ me \in Client /\ chan \in [Conns -> Channel]
      /\ k \in Conns => k # d
      /\ "c" \in Sides /\ "s" \in Sides /\ Peer("c") = "s"
  BY ClientSocks DEF PInv, ClientsInv, Sides
<1>2. me.pc \in WithData => d \in Conns /\ e = chan[d].end["s"]
  BY DEF PInv, ClientsInv, Tied, Attached, End
<1>3. me.pc # "prompt" => k \in Conns
  BY DEF Runs, Running, PInv, IInv, Joined
<1>4. me2.pc \notin {"exit", "dead"}
  BY DEF Runs
<1>g. ASSUME NEW pc, CGoto(c, pc)
      PROVE  me2 = [me EXCEPT !.pc = pc] /\ me2.pc = pc /\ Kept(me, me2)
             /\ me2.fileSize = me.fileSize
  BY <1>1, <1>g DEF CGoto, Client, Kept
<1>s. ASSUME NEW pc \in {"exit", "dead"}, Stop(c, pc) PROVE FALSE
  <2>1. me2.pc = pc
    BY <1>g, <1>s DEF Stop
  <2> QED
    BY <1>4, <2>1
<1>5. ClientStep(c)
  BY <1>s DEF Use, Fail, Crash
<1>p. ASSUME Prompt(c) PROVE me2.pc = "prompt" /\ me2.totalBytes = 0
  BY <1>1, <1>p DEF Prompt, Client
<1>n. ASSUME cl' = [cl EXCEPT ![c].totalBytes = @ + 1]
      PROVE  /\ me2.pc = me.pc /\ me2.totalBytes = me.totalBytes + 1
             /\ me2.arg = me.arg /\ me2.fileSize = me.fileSize
  BY <1>1, <1>n DEF Client
<1>6. (d \in Conns => chan'[d] = chan[d]) => x2 = x /\ y2 = y
  BY DEF Units
<1>7. d \in Conns => (x = 0 <=> chan[d].in["s"] = <<>>) /\ (y = 0 <=> chan[d].in["c"] = <<>>)
  BY <1>1, UnitsAre
<1>8. x \in Nat /\ y \in Nat
  BY <1>1, UnitsAre
<1>w. /\ Word("hello") \in Msg /\ Word("data") \in Msg
      /\ \A a \in Int : With("RETR", a) \in Msg /\ With("STOR", a) \in Msg /\ With("SIZE", a) \in Msg
      /\ me.arg \in Int /\ me.totalBytes \in Int
  BY <1>1 DEF Word, With, Msg, Texts, Commands, Client
<1> SUFFICES Deed
  OBVIOUS
<1>k. ASSUME k \in Conns, NEW m \in Msg, SendOn(k, "c", <<m>>)
      PROVE  /\ x2 = x /\ y2 = y /\ w2 = w
             /\ u = <<>> => u2 = <<>> \/ u2[1] = m
  <2>1. /\ \A l \in Conns \ {k} : chan'[l] = chan[l]
        /\ w2 = w
        /\ u2 = u \/ u2 = u \o <<m>>
    <3>1. chan'[k] = Sent(chan[k], "c", <<m>>) /\ \A l \in Conns \ {k} : chan'[l] = chan[l]
      BY <1>1, <1>k DEF SendOn
    <3>2. chan[k] \in Channel
      BY <1>1, <1>k
    <3> QED
      BY <3>1, <3>2, SentIn
  <2>2. u = <<>> => u \o <<m>> = <<m>>
    BY <1>k
  <2>3. x2 = x /\ y2 = y
    BY <1>1, <1>6, <2>1
  <2>4. <<m>>[1] = m
    OBVIOUS
  <2>5. w2 = w /\ (u = <<>> => u2 = <<>> \/ u2 = <<m>>)
    BY <2>1, <2>2
  <2> HIDE DEF u, u2, w, w2, x, y, x2, y2
  <2> QED
    BY <2>3, <2>4, <2>5
<1>r. ASSUME NEW j, k \in Conns, RecvOn(k, "c", j)
      PROVE  x2 = x /\ y2 = y
  <2>1. \A l \in Conns \ {k} : chan'[l] = chan[l]
    BY <1>1, <1>r, UnitsRead
  <2> QED
    BY <1>1, <1>6, <1>r, <2>1
<1>9. CASE me.pc \notin Busy
  <2>1. me2.totalBytes \in {me.totalBytes, 0}
    <3>1. me.pc \notin {"download", "upload"}
      BY <1>9 DEF Busy
    <3> QED
      BY <3>1, UseArg DEF PInv, IInv, TypeOK
  <2>2. me2.pc \notin Busy \cup {"LIST"}
    <3>1. CASE k \notin Conns
      BY <3>1 DEF Runs, Busy
    <3>2. CASE k \in Conns
      <4>1. \E live : ClientTalk(live, me.pc, u, w, me2.pc, u2, w2)
        BY <3>2 DEF Runs
      <4>2. me.pc # "connect"
        BY DEF Runs
      <4> HIDE DEF me, me2, u, w, u2, w2
      <4> QED
        BY <1>9, <4>1, <4>2 DEF ClientTalk, Requests, Reads, Turns, Busy
    <3> QED
      BY <3>1, <3>2
  <2> HIDE DEF me, me2, u, w, u2, w2, x, y, x2, y2, e
  <2> QED
    BY <1>9, <2>1, <2>2 DEF ClientDeed
<1>10. CASE me.pc = "dtphello"
  <2>1. SendOn(d, "c", <<Word("hello")>>) /\ CGoto(c, "dtphi")
    BY <1>5, <1>10, <1>s, ClientDoes DEF CAt, CSend
  <2>2. y2 = y /\ x2 = x + (IF chan[d].end["s"] = "open" THEN 1 ELSE 0)
    BY <1>1, <1>2, <1>10, <1>w, <2>1, UnitsSent DEF WithData
  <2>3. Kept(me, me2) /\ me2.pc = "dtphi" /\ (e # "open" => x2 = x)
    <3>1. e # "open" => x2 = x + 0
      BY <1>2, <1>10, <2>2 DEF WithData
    <3>2. x + 0 = x
      BY <1>8
    <3>3. Kept(me, me2) /\ me2.pc = "dtphi"
      BY <1>g, <2>1
    <3> QED
      BY <3>1, <3>2, <3>3
  <2> HIDE DEF me, me2, u, w, u2, w2, x, y, x2, y2, e
  <2> QED
    BY <1>10, <2>2, <2>3 DEF ClientDeed
<1>11. CASE me.pc = "dtphi"
  <2>1. CRecv(c, d, me.then)
    BY <1>5, <1>11, ClientDoes DEF CAt
  <2>2. CGoto(c, me.then) /\ ((UNCHANGED chan /\ AtEnd(chan[d], "c")) \/ \E j : RecvOn(d, "c", j))
    BY <1>s, <2>1 DEF CRecv, sockets
  <2>3. Kept(me, me2) /\ me2.pc \in {"LIST", "RETR", "STOR"}
    <3>1. me.then \in {"LIST", "RETR", "STOR"}
      BY <1>11 DEF PInv, ClientsInv, Tied, Aimed, Aims
    <3> QED
      BY <1>g, <2>2, <3>1
  <2>4. x2 = x /\ (y2 < y \/ (y = 0 /\ e # "open" /\ y2 = y))
    <3>1. CASE UNCHANGED chan /\ AtEnd(chan[d], "c")
      BY <1>1, <1>2, <1>6, <1>7, <1>11, <3>1 DEF WithData, AtEnd
    <3>2. ASSUME NEW j, RecvOn(d, "c", j)
          PROVE  x2 = x /\ y2 < y
      <4>1. x2 = x /\ y2 = y - j /\ j \in 1..y
        BY <1>1, <1>2, <1>11, <3>2, UnitsRead DEF WithData
      <4> HIDE DEF x, y, x2, y2
      <4> QED
        BY <1>8, <4>1
    <3> QED
      BY <2>2, <3>1, <3>2
  <2> HIDE DEF me, me2, u, w, u2, w2, x, y, x2, y2, e
  <2> QED
    BY <1>11, <2>3, <2>4 DEF ClientDeed
<1>12. CASE me.pc = "RETR"
  <2> DEFINE m == With("RETR", me.arg)
  <2>1. SendOn(k, "c", <<m>>) /\ CGoto(c, "retrsize")
    BY <1>5, <1>12, <1>s, ClientDoes DEF CAt, CSend
  <2>2. x2 = x /\ y2 = y /\ w2 = w /\ (u = <<>> => u2 = <<>> \/ u2[1] = m)
    BY <1>3, <1>12, <1>k, <1>w, <2>1
  <2>3. m.n = me.arg
    BY DEF With
  <2>4. Kept(me, me2) /\ me2.pc = "retrsize"
    BY <1>g, <2>1
  <2> HIDE DEF me, me2, u, w, u2, w2, x, y, x2, y2, e, m
  <2> QED
    BY <1>12, <2>2, <2>3, <2>4 DEF ClientDeed
<1>13. CASE me.pc = "retrsize"
  <2>1. /\ w # <<>> /\ \E j : RecvOn(k, "c", j)
        /\ cl' = [cl EXCEPT ![c].pc = "download", ![c].fileSize = Head(w).n]
    BY <1>5, <1>13, <1>s, ClientDoes DEF CAt
  <2>2. y2 = y
    BY <1>3, <1>13, <1>r, <2>1
  <2>3. Head(w) = w[1]
    <3>1. w \in Seq(Msg)
      BY <1>1, <1>3, <1>13 DEF Channel
    <3> QED
      BY <2>1, <3>1
  <2>4. Kept(me, me2) /\ me2.pc = "download" /\ me2.fileSize = w[1].n
    BY <1>1, <2>1, <2>3 DEF Client, Kept
  <2>5. w # <<>>
    BY <2>1
  <2> HIDE DEF me, me2, u, w, u2, w2, x, y, x2, y2, e
  <2> QED
    BY <1>13, <2>2, <2>4, <2>5 DEF ClientDeed
<1>14. CASE me.pc = "download"
  <2>1. \/ RecvOn(d, "c", 1) /\ cl' = [cl EXCEPT ![c].totalBytes = @ + 1]
        \/ /\ me.totalBytes >= me.fileSize \/ chan[d].in["c"] = <<>>
           /\ CGoto(c, "retrdone")
    BY <1>5, <1>14, <1>s, ClientDoes DEF CAt, AtEnd, Failed
  <2>2. d \in Conns
    BY <1>2, <1>14 DEF WithData
  <2>3. me2.arg = me.arg /\ me2.fileSize = me.fileSize
    BY <1>g, <1>n, <2>1 DEF Kept
  <2>4. \/ me2.pc = "download" /\ me2.totalBytes = me.totalBytes + 1 /\ y2 = y - 1
        \/ /\ me2.pc = "retrdone" /\ me2.totalBytes = me.totalBytes
           /\ me.totalBytes >= me.fileSize \/ y = 0
    <3>1. ASSUME RecvOn(d, "c", 1) PROVE y2 = y - 1
      BY <1>1, <2>2, <3>1, UnitsRead
    <3> QED
      BY <1>7, <1>14, <1>g, <1>n, <2>1, <2>2, <3>1 DEF Kept
  <2> HIDE DEF me, me2, u, w, u2, w2, x, y, x2, y2, e
  <2> QED
    BY <1>14, <2>3, <2>4 DEF ClientDeed
<1>15. CASE me.pc \in {"retrdone", "stordone"}
  <2>1. me2.pc = "prompt" /\ me2.totalBytes = 0
    BY <1>5, <1>15, <1>p, <1>s, ClientDoes DEF CAt
  <2> HIDE DEF me, me2, u, w, u2, w2, x, y, x2, y2, e
  <2> QED
    BY <1>15, <2>1 DEF ClientDeed
<1>16. CASE me.pc = "STOR"
  <2> DEFINE m == With("STOR", me.arg)
  <2>1. SendOn(k, "c", <<m>>) /\ CGoto(c, "storok")
    BY <1>5, <1>16, <1>s, ClientDoes DEF CAt, CSend
  <2>2. x2 = x /\ y2 = y
    BY <1>3, <1>16, <1>k, <1>w, <2>1
  <2>3. Kept(me, me2) /\ me2.pc = "storok"
    BY <1>g, <2>1
  <2> HIDE DEF me, me2, u, w, u2, w2, x, y, x2, y2, e, m
  <2> QED
    BY <1>16, <2>2, <2>3 DEF ClientDeed
<1>17. CASE me.pc = "storok"
  <2>1. CRecv(c, k, "upload")
    BY <1>5, <1>17, ClientDoes DEF CAt
  <2>2. CGoto(c, "upload") /\ (UNCHANGED chan \/ \E j : RecvOn(k, "c", j))
    BY <1>s, <2>1 DEF CRecv, sockets
  <2>3. x2 = x
    BY <1>3, <1>6, <1>17, <1>r, <2>2
  <2>4. Kept(me, me2) /\ me2.pc = "upload"
    BY <1>g, <2>2
  <2> HIDE DEF me, me2, u, w, u2, w2, x, y, x2, y2, e
  <2> QED
    BY <1>17, <2>3, <2>4 DEF ClientDeed
<1>18. CASE me.pc = "upload"
  <2>1. \/ /\ SendOn(d, "c", <<Word("data")>>)
           /\ cl' = [cl EXCEPT ![c].totalBytes = @ + 1]
        \/ /\ \E n \in Uploaded(chan[d], "c", me.totalBytes, me.arg) :
                 cl' = [cl EXCEPT ![c].pc = "SIZE", ![c].totalBytes = n]
           /\ UNCHANGED chan
    BY <1>5, <1>18, <1>s, ClientDoes DEF CAt, sockets
  <2>2. d \in Conns /\ e = chan[d].end["s"]
    BY <1>2, <1>18 DEF WithData
  <2>3. ASSUME NEW n \in Uploaded(chan[d], "c", me.totalBytes, me.arg),
               cl' = [cl EXCEPT ![c].pc = "SIZE", ![c].totalBytes = n]
        PROVE  /\ me2.pc = "SIZE" /\ me2.arg = me.arg
               /\ e = "open" => me2.totalBytes = me.totalBytes /\ me.totalBytes = me.arg
    <3>1. me2.pc = "SIZE" /\ me2.arg = me.arg /\ me2.totalBytes = n
      BY <1>1, <2>3 DEF Client
    <3>2. e = "open" => n = me.totalBytes /\ me.totalBytes = me.arg
      BY <1>1, <2>2, <2>3 DEF Uploaded
    <3> QED
      BY <3>1, <3>2
  <2>4. /\ me2.arg = me.arg
        /\ \/ /\ me2.pc = "upload" /\ me2.totalBytes = me.totalBytes + 1
              /\ e = "open" => x2 = x + 1
           \/ /\ me2.pc = "SIZE" /\ x2 = x
              /\ e = "open" => me2.totalBytes = me.totalBytes /\ me.totalBytes = me.arg
    <3>1. ASSUME SendOn(d, "c", <<Word("data")>>), e = "open" PROVE x2 = x + 1
      BY <1>1, <1>w, <2>2, <3>1, UnitsSent
    <3> QED
      BY <1>6, <1>18, <1>n, <2>1, <2>3, <3>1
  <2> HIDE DEF me, me2, u, w, u2, w2, x, y, x2, y2, e
  <2> QED
    BY <1>18, <2>4 DEF ClientDeed
<1>19. CASE me.pc = "SIZE"
  <2> DEFINE m == With("SIZE", me.totalBytes)
  <2>1. PICK how \in Hows :
          /\ chan' = [Closing(d, how) EXCEPT ![k] = Sent(@, "c", <<m>>)]
          /\ CGoto(c, "stordone")
    BY <1>5, <1>19, <1>s, ClientDoes DEF CAt
  <2>2. d \in Conns /\ k \in Conns /\ k # d
    BY <1>1, <1>2, <1>3, <1>19 DEF WithData
  <2>3. chan'[d] = Closed(chan[d], "c", how) /\ chan'[k] = Sent(chan[k], "c", <<m>>)
    BY <1>1, <2>1, <2>2 DEF Closing
  <2>4. x2 = x
    <3>1. chan[d] \in Channel
      BY <1>1, <2>2
    <3>2. Closed(chan[d], "c", how).in["s"] = chan[d].in["s"]
      BY <1>1, <3>1, ClosedEnd
    <3> QED
      BY <2>2, <2>3, <3>2 DEF Units
  <2>5. u = <<>> => u2 = <<>> \/ u2[1] = m
    <3>1. chan[k] \in Channel /\ u \in Seq(Msg)
      BY <1>1, <2>2 DEF Channel
    <3>2. u2 = u \/ u2 = u \o <<m>>
      BY <1>w, <2>3, <3>1, SentIn
    <3>3. u = <<>> => u \o <<m>> = <<m>>
      BY <1>w
    <3> QED
      BY <3>2, <3>3
  <2>6. m.n = me.totalBytes
    BY DEF With
  <2>7. Kept(me, me2) /\ me2.pc = "stordone"
    BY <1>g, <2>1
  <2> HIDE DEF me, me2, u, w, u2, w2, x, y, x2, y2, e, m
  <2> QED
    BY <1>19, <2>4, <2>5, <2>6, <2>7 DEF ClientDeed
<1> QED
  BY <1>9, <1>10, <1>11, <1>12, <1>13, <1>14, <1>15, <1>16, <1>17, <1>18, <1>19 DEF Busy

-----------------------------------------------------------------------------
(* All that the programs know of their files: each client, and each process *)
(* in touch with one.                                                       *)
Knows(c) == LET k == cl[c].sock
                d == cl[c].dtpSock
            IN
    Running(c) => Filed(cl[c], chan[k].in["s"], chan[k].in["c"],
                        Units(chan, d, "s"), Units(chan, d, "c"), End(chan, d))
Counts(p) == LET c == proc[p].clntSock[1]
                 d == cl[c].dtpSock
             IN
    Touches(p) => Carried(cl[c], proc[p], Units(chan, d, "s"), Units(chan, d, "c"))
AllKnown == (\A c \in Clients : Knows(c)) /\ \A p \in Procs : Counts(p)

(* When a client asks for its file or names its size nothing is under way.  *)
LEMMA AskingSilent ==
    ASSUME PInv, NEW c \in Clients, cl[c].pc \in {"RETR", "SIZE"}
    PROVE  chan[cl[c].sock].in["s"] = <<>> /\ chan[cl[c].sock].in["c"] = <<>>
<1> DEFINE k == cl[c].sock
           cpc == cl[c].pc
           u == chan[k].in["s"]
           w == chan[k].in["c"]
<1>1. Running(c) /\ k \in Conns /\ Answered(c)
  BY DEF Running, PInv, IInv, Joined, ClientsInv
<1>2. w = <<>>
  <2>1. Due(cpc, w) /\ cpc \in {"RETR", "SIZE"}
    BY <1>1 DEF Answered
  <2> HIDE DEF cpc, w
  <2> QED
    BY <2>1 DEF Due, Concludes
<1>3. CASE k \in Waiting("pi")
  <2>1. Coming(k) /\ k[1] = c
    BY <1>1, <1>3 DEF PInv, ConnsInv, ClientsInv, Tied, Owned
  <2> QED
    BY <1>1, <2>1 DEF Coming, Arriving
<1>4. ASSUME NEW p \in Procs, Serving(p), proc[p].clntSock = k
      PROVE  u = <<>>
  <2>1. Paired(cpc, proc[p].pc, u, w) /\ cpc \in {"RETR", "SIZE"}
    BY <1>1, <1>4 DEF PInv, ProcsInv, InTouch, ClientsInv, Tied, Owned
  <2> HIDE DEF cpc, u, w
  <2> QED
    BY <2>1 DEF Paired, Meeting, Arriving, Asking, Asks, Concludes, Echoing, Joining, Orders,
       Listing, Fetching, Storing, Silent
<1> QED
  BY <1>1, <1>2, <1>3, <1>4 DEF Answered, CAt

(* A client that stands still, its connections too, knows what it did.      *)
LEMMA KnowsStays ==
    ASSUME PInv, NEW c \in Clients, Knows(c), cl'[c] = cl[c],
           cl[c].sock \in Conns => chan'[cl[c].sock] = chan[cl[c].sock],
           cl[c].dtpSock \in Conns => chan'[cl[c].dtpSock] = chan[cl[c].dtpSock]
    PROVE  Knows(c)'
<1> DEFINE k == cl[c].sock
           d == cl[c].dtpSock
<1>1. /\ Units(chan', d, "s") = Units(chan, d, "s")
      /\ Units(chan', d, "c") = Units(chan, d, "c")
      /\ End(chan', d) = End(chan, d)
  BY DEF Units, End
<1>2. CASE k \in Conns
  BY <1>1, <1>2 DEF Knows, Running
<1>3. CASE k \notin Conns
  <2>1. Running(c) => CAt(c, "prompt")
    BY <1>3 DEF PInv, IInv, Joined, CAt, Running
  <2> QED
    BY <2>1 DEF Knows, Filed, CAt, Running
<1> QED
  BY <1>2, <1>3

(* A process and its client that stand still, too.                          *)
LEMMA CountsStays ==
    ASSUME NEW p, Counts(p), proc'[p] = proc[p],
           LET c == proc[p].clntSock[1] IN
              /\ cl'[c] = cl[c]
              /\ cl[c].dtpSock \in Conns => chan'[cl[c].dtpSock] = chan[cl[c].dtpSock]
    PROVE  Counts(p)'
<1> DEFINE c == proc[p].clntSock[1]
           d == cl[c].dtpSock
<1>1. /\ Units(chan', d, "s") = Units(chan, d, "s")
      /\ Units(chan', d, "c") = Units(chan, d, "c")
  BY DEF Units
<1>2. Touches(p)' <=> Touches(p)
  BY PcServes DEF Touches, Running
<1> QED
  BY <1>1, <1>2 DEF Counts

(* A process at work leaves all clients but its own alone.                  *)
LEMMA HandlesApart ==
    ASSUME PInv, DataConnMatches, NEW r \in Procs, Handles(r), NEW e \in Clients, Running(e),
           ~ (Touches(r) /\ proc[r].clntSock[1] = e)
    PROVE  /\ cl[e].sock \in Conns => chan'[cl[e].sock] = chan[cl[e].sock]
           /\ cl[e].dtpSock \in Conns => chan'[cl[e].dtpSock] = chan[cl[e].dtpSock]
<1> DEFINE k == proc[r].clntSock
           d == proc[r].clntDtpSock
           a == k[1]
<1>1. /\ Serving(r)
      /\ \A l \in Conns \ {k} : (Transferring(r) => l # d) => chan'[l] = chan[l]
  BY DEF Handles
<1>2. /\ k \in Conns /\ chan[k].port = "pi" /\ a \in Clients
      /\ d \in Conns => chan[d].port = "dtp"
  BY <1>1, SocksApart DEF PInv, IInv, Apart, Conns
<1>3. Owned(e) /\ Owned(a) /\ InTouch(r)
  BY <1>2 DEF PInv, ClientsInv, ProcsInv, Tied
<1>4. cl[e].sock # k
  BY <1>1, <1>2, <1>3 DEF Owned, Touches
<1>5. cl[e].sock \in Conns => cl[e].sock # d
  BY <1>2, <1>3 DEF Owned
<1>6. cl[e].dtpSock \in Conns => cl[e].dtpSock # k
  BY <1>2, <1>3 DEF Owned
<1>7. cl[e].dtpSock \in Conns /\ Transferring(r) => cl[e].dtpSock # d
  <2> SUFFICES ASSUME cl[e].dtpSock \in Conns, Transferring(r), cl[e].dtpSock = d
               PROVE  FALSE
    OBVIOUS
  <2>1. a = e
    BY <1>3 DEF DataConnMatches, ClientOf, Owned
  <2>2. At(r, "session")
    BY <1>1, <1>3, <1>4, <2>1 DEF InTouch
  <2> QED
    BY <2>2, PcServes DEF At, TransferPc
<1> QED
  BY <1>1, <1>4, <1>5, <1>6, <1>7

(* A process at work keeps what is known,                                   *)
LEMMA HandlesKnown ==
    ASSUME PInv, PInv', DataConnMatches, NEW r \in Procs, Handles(r), ServerStep(r), AllKnown
    PROVE  AllKnown'
<1> DEFINE k == proc[r].clntSock
           a == k[1]
           d == cl[a].dtpSock
           me == cl[a]
           s == proc[r]
           s2 == proc'[r]
           u == chan[k].in["s"]
           w == chan[k].in["c"]
           u2 == chan'[k].in["s"]
           w2 == chan'[k].in["c"]
           x == Units(chan, d, "s")
           y == Units(chan, d, "c")
           x2 == Units(chan', d, "s")
           y2 == Units(chan', d, "c")
           e == End(chan, d)
           e2 == End(chan', d)
<1>1. /\ Serving(r) /\ cl' = cl
      /\ \A q \in Procs \ {r} : proc'[q] = proc[q]
      /\ proc'[r].clntSock = k
  BY DEF Handles
<1>2. ASSUME Touches(r)
      PROVE  Filed(me, u2, w2, x2, y2, e2) /\ Carried(me, s2, x2, y2)
  <2>1. /\ k \in Conns /\ a \in Clients /\ d # k /\ me \in Client /\ s \in Process
        /\ chan \in [Conns -> Channel] /\ chan' \in [Conns -> Channel]
        /\ Paired(me.pc, s.pc, u, w)
        /\ "s" \in Sides /\ "c" \in Sides
    BY <1>2, TouchConns DEF PInv, IInv, TypeOK, SocketsType, Sides
  <2>2. x \in Nat /\ y \in Nat /\ x2 \in Nat /\ y2 \in Nat
        /\ (d \in Conns => (y = 0 <=> chan[d].in["c"] = <<>>))
    BY <2>1, UnitsAre
  <2>3. me.totalBytes \in Nat /\ me.arg \in Int /\ s.totalBytes \in Nat
    BY <2>1 DEF Client, Process
  <2>4. /\ Transferring(r) => d = proc[r].clntDtpSock /\ d \in Conns /\ chan[d].end["s"] = "open"
        /\ At(r, "dtphello") => (CAt(a, "dtphi") \/ chan[d].in["s"] = <<>>) /\ chan[d].in["c"] = <<>>
        /\ At(r, "dtphi") => CAt(a, "dtphi") /\ chan[d].in["c"] = <<>>
    BY <1>2, TouchConns
  <2>5. s.pc \in {"dtphello", "dtphi"} => me.pc = "dtphi" /\ y = 0
    <3>1. s.pc \in {"dtphello", "dtphi"} => Transferring(r)
      BY PcServes DEF TransferPc
    <3>2. At(r, "dtphello") => chan[d].in["s"] # <<>>
      BY <2>4, <3>1 DEF Handles, At
    <3> QED
      BY <2>2, <2>4, <3>1, <3>2 DEF At, CAt
  <2>6. s.pc \notin {"stordone", "listdata"} => (e2 = "open" <=> e = "open")
    <3> SUFFICES ASSUME s.pc \notin {"stordone", "listdata"}, d \in Conns
                 PROVE  chan'[d].end["s"] = "open" <=> chan[d].end["s"] = "open"
      BY DEF End
    <3>1. CASE Transferring(r)
      <4>1. d \in fds[r]
        BY <2>4, <3>1 DEF PInv, ProcsInv, Ready, Fresh
      <4>2. fds'[r] = fds[r]
        BY DEF Handles
      <4>3. chan'[d].end["s"] = "open"
        BY <4>1, <4>2 DEF PInv, IInv, Held
      <4> QED
        BY <2>4, <3>1, <4>3
    <3>2. CASE ~ Transferring(r)
      BY <2>1, <3>2 DEF Handles
    <3> QED
      BY <3>1, <3>2
  <2>7. Filed(me, u, w, x, y, e)
    BY <1>2, <2>1 DEF AllKnown, Knows, Touches
  <2>8. Carried(me, s, x, y)
    BY <1>2 DEF AllKnown, Counts
  <2>9. ServerDeed(s, u, w, x, y, s2, u2, w2, x2, y2)
    BY <1>2, HandlesDeed DEF PInv, IInv
  <2>10. s.pc \in {"storsize", "stordone", "listdata"} => e = "open"
    <3>1. s.pc \in {"storsize", "stordone", "listdata"} => Transferring(r)
      BY PcServes DEF TransferPc
    <3> QED
      BY <2>4, <3>1 DEF End
  <2> HIDE DEF me, s, u, w, x, y, e, s2, u2, w2, x2, y2, e2
  <2> QED
    <3>1. Serves(me, s, u, w, x, y, e, s2, u2, w2, x2, y2, e2)
      BY <2>1, <2>2, <2>3, <2>5, <2>6, <2>7, <2>8, <2>9, <2>10 DEF Serves
    <3> QED
      BY <3>1, DeedKeeps
<1>3. ASSUME NEW c \in Clients
      PROVE  Knows(c)'
  <2>1. CASE ~ Running(c)
    BY <1>1, <2>1 DEF Knows, Running
  <2>2. CASE Running(c) /\ ~ (Touches(r) /\ a = c)
    <3>1. Knows(c) /\ cl'[c] = cl[c]
      BY <1>1 DEF AllKnown
    <3> QED
      BY <2>2, <3>1, HandlesApart, KnowsStays
  <2>3. CASE Touches(r) /\ a = c
    BY <1>1, <1>2, <2>3 DEF Knows, Touches
  <2> QED
    BY <2>1, <2>2, <2>3
<1>4. ASSUME NEW p \in Procs
      PROVE  Counts(p)'
  <2>1. CASE p = r
    <3>1. Touches(r)' => Touches(r)
      BY <1>1 DEF Touches, Running
    <3> QED
      BY <1>1, <1>2, <2>1, <3>1 DEF Counts
  <2>2. CASE p # r
    <3> DEFINE c == proc[p].clntSock[1]
    <3>1. proc'[p] = proc[p] /\ cl' = cl /\ Counts(p)
      BY <1>1, <2>2 DEF AllKnown
    <3>2. CASE ~ Touches(p)
      <4>1. ~ Touches(p)'
        BY <3>1, <3>2, PcServes DEF Touches, Running
      <4> QED
        BY <4>1 DEF Counts
    <3>3. CASE Touches(p)
      <4>1. proc[p].clntSock # k
        BY <1>1, <2>2, <3>3 DEF PInv, IInv, Apart, ControlApart, Touches
      <4>2. ~ (Touches(r) /\ a = c) /\ c \in Clients /\ Running(c)
        BY <3>3, <4>1, TouchConns DEF Touches
      <4>3. cl[c].dtpSock \in Conns => chan'[cl[c].dtpSock] = chan[cl[c].dtpSock]
        BY <4>2, HandlesApart
      <4> QED
        BY <3>1, <4>3, CountsStays
    <3> QED
      BY <3>2, <3>3
  <2> QED
    BY <2>1, <2>2
<1> QED
  BY <1>3, <1>4 DEF AllKnown

(* so do accept and fork, of which the files see nothing,                   *)
LEMMA TreeKnown ==
    ASSUME PInv, NEW r \in Procs, Accepts(r) \/ Forks(r), UNCHANGED cl, AllKnown
    PROVE  AllKnown'
<1>1. chan' = chan
  BY DEF Accepts, Accept, Forks, sockets
<1>2. \A c \in Clients : Knows(c)'
  BY <1>1, KnowsStays DEF AllKnown
<1>3. ASSUME NEW p \in Procs
      PROVE  \/ proc'[p] = proc[p]
             \/ proc'[p].pc \in {"hello", "dtphello", "session", "accept"}
  <2>1. CASE Accepts(r)
    <3>1. PICK l \in Conns :
            \/ Takes(r, "pi", l) /\ At(r, "hello")'
            \/ Takes(r, "dtp", l) /\ At(r, "dtphello")'
      BY <2>1, AcceptsTakes DEF PInv
    <3> QED
      BY <3>1 DEF Takes, At
  <2>2. CASE Forks(r)
    <3>1. PICK q \in Procs :
            proc' = [proc EXCEPT ![q] = [proc[r] EXCEPT !.pc = "session"], ![r].pc = "accept"]
      BY <2>2 DEF Forks
    <3>2. proc \in [Procs -> Process]
      BY DEF PInv, IInv, TypeOK, ServerType
    <3>3. CASE p = r
      BY <3>1, <3>2, <3>3 DEF Process
    <3>4. CASE p = q /\ p # r
      BY <3>1, <3>2, <3>4 DEF Process
    <3>5. CASE p # q /\ p # r
      BY <3>1, <3>2, <3>5
    <3> QED
      BY <3>3, <3>4, <3>5
  <2> QED
    BY <2>1, <2>2
<1>4. ASSUME NEW p \in Procs
      PROVE  Counts(p)'
  <2>1. CASE proc'[p] = proc[p]
    BY <1>1, <2>1, CountsStays DEF AllKnown
  <2>2. CASE proc'[p].pc \in {"hello", "dtphello", "session", "accept"}
    BY <2>2 DEF Counts, Carried
  <2> QED
    BY <1>3, <2>1, <2>2
<1> QED
  BY <1>2, <1>4 DEF AllKnown

(* the death of a process, which takes from its own connections only,       *)
LEMMA DieKnown ==
    ASSUME PInv, DataConnMatches, NEW r \in Procs, Serving(r), Die(r), UNCHANGED cl, AllKnown
    PROVE  AllKnown'
<1>1. /\ proc'[r].pc = "dead"
      /\ \A q \in Procs \ {r} : proc'[q] = proc[q]
      /\ \A l \in Conns : Shut(chan'[l], chan[l])
      /\ \A q \in Procs \ {r} : \A l \in fds[q] : chan'[l] = chan[l]
  BY DieShuts DEF PInv
<1>2. ASSUME NEW d
      PROVE  /\ Units(chan', d, "c") = Units(chan, d, "c")
             /\ \/ Units(chan', d, "s") = Units(chan, d, "s") /\ End(chan', d) = End(chan, d)
                \/ Units(chan', d, "s") = 0 /\ (End(chan', d) = "open" => End(chan, d) = "open")
  BY <1>1 DEF Units, End, Shut
<1>3. ASSUME NEW c \in Clients
      PROVE  Knows(c)'
  <2> SUFFICES ASSUME Running(c)
               PROVE  Knows(c)'
    BY DEF Knows, Running
  <2> DEFINE k == cl[c].sock
             d == cl[c].dtpSock
             me == cl[c]
             u == chan[k].in["s"]
             w == chan[k].in["c"]
             u2 == chan'[k].in["s"]
             w2 == chan'[k].in["c"]
             x == Units(chan, d, "s")
             y == Units(chan, d, "c")
             x2 == Units(chan', d, "s")
             y2 == Units(chan', d, "c")
             e == End(chan, d)
             e2 == End(chan', d)
  <2>1. Filed(me, u, w, x, y, e)
    BY DEF AllKnown, Knows
  <2>2. me.pc # "prompt" => w2 = w /\ u2 \in {u, <<>>}
    <3>1. me.pc # "prompt" => k \in Conns
      BY DEF Running, PInv, IInv, Joined
    <3> QED
      BY <1>1, <3>1 DEF Shut
  <2>3. y2 = y /\ ((x2 = x /\ e2 = e) \/ (x2 = 0 /\ (e2 = "open" => e = "open")))
    BY <1>2
  <2>4. Filed(me, u2, w2, x2, y2, e2)
    <3> HIDE DEF me, u, w, u2, w2, x, y, x2, y2, e, e2
    <3> QED
      BY <2>1, <2>2, <2>3 DEF Filed
  <2> QED
    BY <2>4 DEF Knows
<1>4. ASSUME NEW p \in Procs
      PROVE  Counts(p)'
  <2>1. CASE p = r
    BY <1>1, <2>1 DEF Counts, Carried
  <2>2. CASE p # r
    <3> DEFINE c == proc[p].clntSock[1]
               d == cl[c].dtpSock
               x == Units(chan, d, "s")
               y == Units(chan, d, "c")
               x2 == Units(chan', d, "s")
               y2 == Units(chan', d, "c")
    <3> SUFFICES ASSUME Touches(p)'
                 PROVE  Carried(cl[c], proc[p], x2, y2)
      BY <1>1, <2>2 DEF Counts
    <3>1. Touches(p)
      BY <1>1, <2>2, PcServes DEF Touches, Running
    <3>2. Carried(cl[c], proc[p], x, y)
      BY <3>1 DEF AllKnown, Counts
    <3>3. y2 = y
      BY <1>2
    <3>4. Transferring(p) => x2 = x
      <4>1. Transferring(p) => d \in fds[p]
        BY DEF PInv, ProcsInv, Ready, Fresh, DataConnMatches, ClientOf
      <4> QED
        BY <1>1, <2>2, <4>1 DEF Units
    <3>5. ~ Transferring(p) => proc[p].pc \notin TransferPc
      BY PcServes
    <3> HIDE DEF x, y, x2, y2
    <3> QED
      BY <3>2, <3>3, <3>4, <3>5 DEF Carried, TransferPc
  <2> QED
    BY <2>1, <2>2
<1> QED
  BY <1>3, <1>4 DEF AllKnown

(* The clients and processes that a client has nothing to do with stand     *)
(* still while it moves.                                                    *)
LEMMA BesideKnown ==
    ASSUME PInv, NEW c \in Clients, Beside(c), AllKnown
    PROVE  /\ \A e \in Clients \ {c} : Knows(e)'
           /\ \A p \in Procs : Serving(p) /\ proc[p].clntSock[1] # c => Counts(p)'
<1>1. \A e \in Clients \ {c} :
        /\ cl'[e] = cl[e]
        /\ cl[e].sock \in Conns => chan'[cl[e].sock] = chan[cl[e].sock]
        /\ cl[e].dtpSock \in Conns => chan'[cl[e].dtpSock] = chan[cl[e].dtpSock]
  BY DEF Beside, PInv, ClientsInv, Tied, Owned
<1>2. \A e \in Clients \ {c} : Knows(e)'
  BY <1>1, KnowsStays DEF AllKnown
<1>3. ASSUME NEW p \in Procs, Serving(p), proc[p].clntSock[1] # c
      PROVE  Counts(p)'
  <2>1. proc[p].clntSock[1] \in Clients
    BY <1>3, SocksApart DEF PInv, Conns
  <2>2. proc'[p] = proc[p] /\ Counts(p)
    BY DEF Beside, AllKnown
  <2> QED
    BY <1>1, <1>3, <2>1, <2>2, CountsStays
<1> QED
  BY <1>2, <1>3

(* A move of a client keeps what is known.                                  *)
LEMMA RunsKnown ==
    ASSUME PInv, PInv', DataConnMatches, NEW c \in Clients, Runs(c), Use(c) \/ Fail(c), AllKnown
    PROVE  AllKnown'
<1> DEFINE k == cl[c].sock
           d == cl[c].dtpSock
           me == cl[c]
           me2 == cl'[c]
           u == chan[k].in["s"]
           w == chan[k].in["c"]
           u2 == chan'[k].in["s"]
           w2 == chan'[k].in["c"]
           x == Units(chan, d, "s")
           y == Units(chan, d, "c")
           x2 == Units(chan', d, "s")
           y2 == Units(chan', d, "c")
           e == End(chan, d)
           e2 == End(chan', d)
<1>1. /\ Beside(c) /\ Running(c) /\ Running(c)' /\ proc' = proc
      /\ cl'[c].sock = k /\ cl'[c].dtpSock = d
      /\ \A l \in Conns : chan'[l].end["s"] = "open" <=> chan[l].end["s"] = "open"
  BY RunsBeside DEF Runs
<1>2. ClientDeed(me, u, w, x, y, e, me2, u2, w2, x2, y2)
  BY RunsDeed
<1>3. /\ chan \in [Conns -> Channel] /\ chan' \in [Conns -> Channel]
      /\ me \in Client /\ proc \in [Procs -> Process]
      /\ "s" \in Sides /\ "c" \in Sides
  BY DEF PInv, IInv, TypeOK, SocketsType, ClientType, ServerType, Sides
<1>4. /\ x \in Nat /\ y \in Nat /\ x2 \in Nat /\ y2 \in Nat
      /\ d \in Conns => (y = 0 <=> chan[d].in["c"] = <<>>)
  BY <1>3, UnitsAre
<1>5. me.totalBytes \in Nat /\ me.arg \in Int /\ me.fileSize \in Int
  BY <1>3 DEF Client
<1>6. Filed(me, u, w, x, y, e)
  BY <1>1 DEF AllKnown, Knows
<1>7. e2 = "open" <=> e = "open"
  BY <1>1 DEF End
<1>8. me.pc \in {"RETR", "SIZE"} => u = <<>> /\ w = <<>>
  BY AskingSilent
<1>9. Filed(me2, u2, w2, x2, y2, e2)
  <2> HIDE DEF me, u, w, x, y, e, me2, u2, w2, x2, y2, e2
  <2> QED
    BY <1>2, <1>4, <1>5, <1>6, <1>7, <1>8, MoveFiled
<1>10. Knows(c)'
  BY <1>1, <1>9 DEF Knows
<1>11. ASSUME NEW p \in Procs, Touches(p), proc[p].clntSock[1] = c
       PROVE  Carried(me2, proc[p], x2, y2)
  <2> DEFINE s == proc[p]
  <2>1. /\ proc[p].clntSock = k /\ Serving(p)
        /\ Paired(me.pc, s.pc, u, w)
        /\ Transferring(p) => d \in Conns /\ chan[d].end["s"] = "open"
        /\ At(p, "dtphi") => CAt(c, "dtphi") /\ chan[d].in["c"] = <<>>
    <3>1. proc[p].clntSock = k /\ Serving(p)
      BY <1>11 DEF Touches
    <3> QED
      BY <1>11, <3>1, TouchConns
  <2>2. /\ s.pc = "dtphi" => me.pc = "dtphi" /\ y = 0 /\ e = "open"
        /\ s.pc = "storsize" => e = "open"
    <3>1. s.pc \in {"dtphi", "storsize"} => Transferring(p)
      BY PcServes DEF TransferPc
    <3> QED
      BY <1>4, <2>1, <3>1 DEF End, At, CAt
  <2>3. Paired(me2.pc, s.pc, u2, w2)
    <3>1. Serving(p)'
      BY <1>1, <2>1, PcServes
    <3>2. InTouch(p)'
      BY DEF PInv, ProcsInv
    <3> QED
      BY <1>1, <1>11, <2>1, <3>1, <3>2 DEF InTouch
  <2>4. Carried(me, s, x, y)
    BY <1>11 DEF AllKnown, Counts
  <2>5. s.totalBytes \in Nat
    BY <1>3 DEF Process
  <2> HIDE DEF me, s, u, w, x, y, e, me2, u2, w2, x2, y2, e2
  <2>6. Carried(me2, s, x2, y2)
    BY <1>2, <1>4, <1>5, <1>6, <2>1, <2>2, <2>3, <2>4, <2>5, MoveCarried
  <2> QED
    BY <2>6 DEF s
<1>12. ASSUME NEW p \in Procs
       PROVE  Counts(p)'
  <2>1. Serving(p)' <=> Serving(p)
    BY <1>1, PcServes
  <2>2. CASE ~ Serving(p)
    BY <2>1, <2>2 DEF Counts, Touches
  <2>3. CASE Serving(p) /\ proc[p].clntSock[1] # c
    BY <1>1, <2>3, BesideKnown
  <2>4. CASE Serving(p) /\ proc[p].clntSock[1] = c
    <3>1. Touches(p)' => Touches(p)
      BY <1>1, <2>1, <2>4 DEF Touches
    <3> QED
      BY <1>1, <1>11, <2>4, <3>1 DEF Counts
  <2> QED
    BY <2>2, <2>3, <2>4
<1> QED
  BY <1>1, <1>10, <1>12, BesideKnown DEF AllKnown

(* open makes a control connection, on which nobody serves yet,             *)
LEMMA OpensKnown ==
    ASSUME PInv, NEW c \in Clients, Opens(c), AllKnown
    PROVE  AllKnown'
<1> DEFINE l == NewConn(c)
<1>1. /\ CAt(c, "prompt") /\ proc' = proc /\ l \in Conns
      /\ \A e \in Clients \ {c} : cl'[e] = cl[e]
      /\ cl'[c].pc = "hello" /\ cl'[c].sock = l /\ cl'[c].dtpSock = cl[c].dtpSock
      /\ cl'[c].totalBytes = cl[c].totalBytes
  BY DEF Opens, PInv, IInv, TypeOK, ClientType, Client
<1>2. Makes(c, "pi")
  BY <1>1, NewMakes DEF Opens, Ports
<1>3. Beside(c)
  BY <1>2 DEF Makes
<1>4. Knows(c)'
  <2>1. cl[c].totalBytes = 0
    BY <1>1 DEF AllKnown, Knows, Filed, Running, CAt
  <2> QED
    BY <1>1, <2>1 DEF Knows, Filed
<1>5. ASSUME NEW p \in Procs
      PROVE  Counts(p)'
  <2>1. Serving(p)' <=> Serving(p)
    BY <1>1, PcServes
  <2>2. CASE Serving(p) /\ proc[p].clntSock[1] # c
    BY <1>3, <2>2, BesideKnown
  <2>3. CASE ~ Serving(p) \/ proc[p].clntSock[1] = c
    <3>1. Serving(p) => proc[p].clntSock # l
      BY <1>2, MadeElsewhere DEF Ports
    <3>2. ~ Touches(p)'
      BY <1>1, <2>1, <2>3, <3>1 DEF Touches
    <3> QED
      BY <3>2 DEF Counts
  <2> QED
    BY <2>2, <2>3
<1> QED
  BY <1>3, <1>4, <1>5, BesideKnown DEF AllKnown

(* passive mode a data connection, which is empty,                          *)
LEMMA LinksKnown ==
    ASSUME PInv, PInv', NEW c \in Clients, Links(c), AllKnown
    PROVE  AllKnown'
<1> DEFINE l == NewConn(c)
<1>1. /\ CAt(c, "connect") /\ proc' = proc /\ l \in Conns
      /\ \A e \in Clients \ {c} : cl'[e] = cl[e]
      /\ cl'[c].pc = "dtphello" /\ cl'[c].sock = cl[c].sock /\ cl'[c].dtpSock = l
      /\ cl'[c].totalBytes = cl[c].totalBytes
  BY DEF Links, PInv, IInv, TypeOK, ClientType, Client
<1>2. Makes(c, "dtp")
  BY <1>1, NewMakes DEF Links, Ports
<1>3. /\ Beside(c) /\ chan'[l].in["s"] = <<>> /\ chan'[l].in["c"] = <<>>
  BY <1>2 DEF Makes
<1>4. Units(chan', l, "s") = 0 /\ Units(chan', l, "c") = 0
  <2>1. Len(<<>>) = 0
    OBVIOUS
  <2> QED
    BY <1>3, <2>1 DEF Units
<1>5. Knows(c)'
  <2>1. cl[c].totalBytes = 0
    BY <1>1 DEF AllKnown, Knows, Filed, Running, CAt
  <2> HIDE DEF l
  <2> QED
    BY <1>1, <1>4, <2>1 DEF Knows, Filed
<1>6. ASSUME NEW p \in Procs
      PROVE  Counts(p)'
  <2>1. Serving(p)' <=> Serving(p)
    BY <1>1, PcServes
  <2>2. CASE Serving(p) /\ proc[p].clntSock[1] # c
    BY <1>3, <2>2, BesideKnown
  <2>3. CASE ~ Serving(p)
    BY <2>1, <2>3 DEF Counts, Touches
  <2>4. CASE Serving(p) /\ proc[p].clntSock[1] = c
    <3> SUFFICES ASSUME Touches(p)'
                 PROVE  Carried(cl'[c], proc[p], Units(chan', l, "s"), Units(chan', l, "c"))
      BY <1>1, <2>4 DEF Counts
    <3>1. Touches(p)
      BY <1>1, <2>1, <2>4 DEF Touches, Running, CAt
    <3>2. InTouch(p)
      BY DEF PInv, ProcsInv
    <3>3. proc[p].pc \notin Counting \ {"dtphi"}
      <4> DEFINE spc == proc[p].pc
                 u == chan[proc[p].clntSock].in["s"]
                 w == chan[proc[p].clntSock].in["c"]
      <4>1. Paired("connect", spc, u, w)
        BY <1>1, <2>4, <3>1, <3>2 DEF InTouch, Touches, CAt
      <4> HIDE DEF spc, u, w
      <4>2. spc \notin Counting \ {"dtphi"}
        BY <4>1 DEF Paired, Meeting, Arriving, Asking, Asks, Concludes, Echoing, Joining,
           Orders, Listing, Fetching, Storing, Silent, Counting, Commands
      <4> QED
        BY <4>2 DEF spc
    <3> QED
      BY <1>4, <3>3 DEF Carried, Counting
  <2> QED
    BY <2>2, <2>3, <2>4
<1> QED
  BY <1>3, <1>5, <1>6, BesideKnown DEF AllKnown

(* and a client that ends knows nothing any more.                           *)
LEMMA LeavesKnown ==
    ASSUME PInv, NEW c \in Clients, Leaves(c), AllKnown
    PROVE  AllKnown'
<1>1. Beside(c) /\ proc' = proc /\ ~ Running(c)'
  BY LeavesShuts DEF Beside, Running
<1>2. Knows(c)'
  BY <1>1 DEF Knows
<1>3. ASSUME NEW p \in Procs
      PROVE  Counts(p)'
  <2>1. Serving(p)' <=> Serving(p)
    BY <1>1, PcServes
  <2>2. CASE Serving(p) /\ proc[p].clntSock[1] # c
    BY <1>1, <2>2, BesideKnown
  <2>3. CASE ~ Serving(p) \/ proc[p].clntSock[1] = c
    BY <1>1, <2>1, <2>3 DEF Counts, Touches
  <2> QED
    BY <2>2, <2>3
<1> QED
  BY <1>1, <1>2, <1>3, BesideKnown DEF AllKnown

(* So every step keeps it,                                                  *)
LEMMA StepKnown ==
    ASSUME Brief, PInv, PInv', DataConnMatches, AllKnown, [Next]_vars
    PROVE  AllKnown'
<1>1. ASSUME NEW p \in Procs, Serve(p)
      PROVE  AllKnown'
  <2>1. UNCHANGED cl /\ ServerStep(p)
    BY <1>1 DEF Serve
  <2>2. Handles(p) \/ Accepts(p) \/ Forks(p) \/ (Serving(p) /\ Die(p))
    BY <1>1, ServeSplit DEF PInv
  <2> QED
    BY <2>1, <2>2, HandlesKnown, TreeKnown, DieKnown
<1>2. ASSUME NEW c \in Clients, Use(c) \/ Fail(c)
      PROVE  AllKnown'
  <2>1. Runs(c) \/ Opens(c) \/ Links(c) \/ Leaves(c)
    BY <1>2, UseSplit DEF PInv, ClientsInv
  <2> QED
    BY <1>2, <2>1, RunsKnown, OpensKnown, LinksKnown, LeavesKnown
<1>3. CASE UNCHANGED vars
  <2>1. proc' = proc /\ cl' = cl /\ chan' = chan
    BY <1>3 DEF vars, sockets, serverVars
  <2>2. ASSUME NEW p \in Procs PROVE Counts(p)'
    BY <2>1, CountsStays DEF AllKnown
  <2>3. ASSUME NEW c \in Clients PROVE Knows(c)'
    BY <2>1, KnowsStays DEF AllKnown
  <2> QED
    BY <2>2, <2>3 DEF AllKnown
<1> QED
  BY <1>1, <1>2, <1>3 DEF Next

(* and it holds at the start.                                               *)
LEMMA InitKnown == Init => AllKnown
<1> SUFFICES ASSUME Init PROVE AllKnown
  OBVIOUS
<1>1. \A p \in Procs : ~ Serving(p)
  BY PcServes DEF Init, ServerInit, ServingPc, Commands
<1>2. \A c \in Clients : cl[c].pc = "prompt" /\ cl[c].totalBytes = 0
  BY DEF Init, ClientInit
<1> QED
  BY <1>1, <1>2 DEF AllKnown, Knows, Counts, Touches, Filed

(* so that it does throughout, while data connections match.                *)
LEMMA KnownInvariance ==
    ASSUME Brief
    PROVE  Spec /\ []DataConnMatches => []AllKnown
<1>1. Brief /\ PInv /\ PInv' /\ DataConnMatches /\ AllKnown /\ [Next]_vars => AllKnown'
  BY StepKnown
<1> QED
  BY <1>1, InitKnown, PairInvariance, PTL DEF Spec

(* The half of WholeFile that is about get.                                 *)
Fetched == \A c \in Clients : CAt(c, "retrdone") =>
    cl[c].totalBytes = cl[c].fileSize /\ cl[c].fileSize = cl[c].arg

(* get fetches the whole file: while data connections match, a client that  *)
(* waits for the completion of get has read as much as the server counted,  *)
(* and as much as the file holds (getFile and downloadFile of               *)
(* EchoFtpClient.c, RETR of EchoFtpServer.c).                               *)
THEOREM GetsAreWhole ==
    ASSUME Brief
    PROVE  Spec /\ []DataConnMatches => []Fetched
<1>1. AllKnown => Fetched
  BY DEF AllKnown, Knows, Filed, Fetched, CAt, Running
<1> QED
  BY <1>1, KnownInvariance, PTL

-----------------------------------------------------------------------------
(* Nobody stores the file of a client that is gone, unless a program is     *)
(* killed or a file is missing: a process that receives a file, or has the  *)
(* command for it before it, has its client at the other end.               *)
StorePc == {"STOR", "storsize", "download", "stordone"}
Stores(p) == proc[p].pc \in StorePc \/ Is(chan[proc[p].clntSock].in["s"], "STOR")
Attended(p) == Serving(p) /\ Stores(p) => Running(ClientOf(p))
AllAttended == \A p \in Procs : Attended(p)

(* The client is then in touch, and at put,                                 *)
LEMMA StoresTouches ==
    ASSUME PInv, NEW p \in Procs, Serving(p), Stores(p), Running(ClientOf(p))
    PROVE  /\ Touches(p)
           /\ cl[ClientOf(p)].pc \in {"storok", "upload", "SIZE", "stordone"}
           /\ cl[ClientOf(p)].pc = "upload" => proc[p].pc = "storsize"
<1> DEFINE k == proc[p].clntSock
           c == k[1]
           cpc == cl[c].pc
           spc == proc[p].pc
           u == chan[k].in["s"]
           w == chan[k].in["c"]
<1>1. InTouch(p) /\ c = ClientOf(p)
  BY DEF PInv, ProcsInv, ClientOf
<1>2. cl[c].sock = k
  <2>1. ASSUME cl[c].sock # k
        PROVE  FALSE
    <3>1. spc = "session" /\ u = <<>>
      BY <1>1, <2>1 DEF InTouch, At, Silent
    <3> QED
      BY <3>1, EmptyBrief DEF Stores, StorePc
  <2> QED
    BY <2>1
<1>3. Paired(cpc, spc, u, w) /\ (spc \in StorePc \/ Is(u, "STOR"))
  BY <1>1, <1>2 DEF InTouch, Stores
<1>4. /\ cpc \in {"storok", "upload", "SIZE", "stordone"}
      /\ cpc = "upload" => spc = "storsize"
  <2> HIDE DEF cpc, spc, u, w
  <2>1. CASE spc \in StorePc
    BY <1>3, <2>1 DEF Paired, Meeting, Asking, Asks, Echoing, Joining, Listing, Fetching, Storing,
       StorePc, Commands
  <2>2. CASE Is(u, "STOR")
    <3>1. /\ u # <<>> /\ u[1].t = "STOR"
          /\ \A t \in Texts : Is(u, t) => u[1].t = t
          /\ Commands \cup {"hello", "text", "SIZE"} \subseteq Texts
      BY <2>2, IsOne DEF Texts, Commands
    <3>2. ~ Arriving(cpc, u, w)
      <4>1. Is(<<Word("hello")>>, "hello")
        BY WordIs
      <4> QED
        BY <3>1, <4>1 DEF Arriving, Silent
    <3>3. ~ Meeting(cpc, spc, u, w)
      BY <3>1, <3>2 DEF Meeting, Silent, Commands
    <3>4. ~ Asking(cpc, spc, u, w)
      BY <3>1 DEF Asking, Asks, Silent
    <3>5. ~ Echoing(cpc, spc, u, w) /\ ~ Listing(cpc, spc, u, w) /\ ~ Fetching(cpc, spc, u, w)
      BY <3>1 DEF Echoing, Listing, Fetching, Silent
    <3>6. ~ Storing(cpc, spc, u, w)
      BY <3>1 DEF Storing, Silent
    <3>7. Joining(cpc, spc, u, w) => cpc = "storok"
      BY <3>1 DEF Joining, Orders, Silent
    <3> QED
      BY <1>3, <3>3, <3>4, <3>5, <3>6, <3>7 DEF Paired
  <2> QED
    BY <1>3, <2>1, <2>2
<1> QED
  BY <1>1, <1>2, <1>4 DEF Touches

(* and nothing ends it there.                                               *)
LEMMA StoringStays ==
    ASSUME PInv, DataConnMatches, NamedClients, "crash" \notin Faults,
           NEW p \in Procs, Serving(p), Stores(p), Running(ClientOf(p)),
           Use(ClientOf(p)) \/ Fail(ClientOf(p))
    PROVE  cl'[ClientOf(p)].pc \notin {"exit", "dead"}
<1> DEFINE c == ClientOf(p)
           k == cl[c].sock
           d == cl[c].dtpSock
<1>1. /\ Touches(p) /\ cl[c].pc \in {"storok", "upload", "SIZE", "stordone"}
      /\ cl[c].pc = "upload" => proc[p].pc = "storsize"
  BY StoresTouches
<1>2. /\ c \in Clients /\ k = proc[p].clntSock /\ chan[k].end["s"] = "open"
      /\ Transferring(p) => chan[d].end["s"] = "open"
  BY <1>1, TouchConns DEF Touches, ClientOf
<1>3. cl[c].pc = "upload" => chan[d].end["s"] = "open"
  BY <1>1, <1>2, PcServes DEF TransferPc
<1>4. cl \in [Clients -> Client]
  BY DEF PInv, IInv, TypeOK, ClientType
<1>5. ClientStep(c)
  BY DEF Use, Fail, Crash
<1>6. \A l : chan[l].end["s"] = "open" => ~ Failed(chan[l], "c") /\ ~ Broken(chan[l], "c")
  BY DEF Failed, Broken, Peer
<1>7. \A pc : CGoto(c, pc) => cl'[c].pc = pc
  BY <1>2, <1>4 DEF CGoto
<1>8. Prompt(c) => cl'[c].pc = "prompt"
  BY <1>2, <1>4 DEF Prompt
<1>9. c \in Clients /\ cl[c].arg # NoFile
  BY <1>2 DEF NamedClients
<1> HIDE DEF c
<1>10. CASE cl[c].pc = "storok"
  <2>1. CRecv(c, k, "upload")
    BY <1>5, <1>10, ClientDoes DEF CAt
  <2> QED
    BY <1>2, <1>6, <1>7, <2>1 DEF CRecv, c
<1>11. CASE cl[c].pc = "upload"
  <2>1. \/ cl' = [cl EXCEPT ![c].totalBytes = @ + 1]
        \/ \E n : cl' = [cl EXCEPT ![c].pc = "SIZE", ![c].totalBytes = n]
        \/ (cl[c].arg = NoFile \/ Broken(chan[d], "c")) /\ Stop(c, "dead")
    BY <1>5, <1>11, ClientDoes DEF CAt
  <2>2. CASE cl' = [cl EXCEPT ![c].totalBytes = @ + 1]
    <3>1. cl'[c].pc = "upload"
      BY <1>4, <1>9, <1>11, <2>2
    <3> QED
      BY <3>1 DEF c
  <2>3. ASSUME NEW n, cl' = [cl EXCEPT ![c].pc = "SIZE", ![c].totalBytes = n]
        PROVE  cl'[c].pc = "SIZE"
    BY <1>4, <1>9, <2>3
  <2> QED
    BY <1>3, <1>6, <1>9, <1>11, <2>1, <2>2, <2>3 DEF c
<1>12. CASE cl[c].pc = "SIZE"
  <2>1. CGoto(c, "stordone") \/ Broken(chan[k], "c")
    BY <1>5, <1>12, ClientDoes DEF CAt
  <2> QED
    BY <1>2, <1>6, <1>7, <2>1 DEF c
<1>13. CASE cl[c].pc = "stordone"
  <2>1. Prompt(c) \/ Failed(chan[k], "c")
    BY <1>5, <1>13, ClientDoes DEF CAt
  <2> QED
    BY <1>2, <1>6, <1>8, <2>1 DEF c
<1> QED
  BY <1>1, <1>10, <1>11, <1>12, <1>13 DEF c

(* A process comes to receive a file by the command for it.                 *)
LEMMA TalkStores ==
    ASSUME NEW live, NEW spc, NEW u, NEW w, NEW spc2, NEW u2, NEW w2,
           ServerTalk(live, spc, u, w, spc2, u2, w2), AtMostOne(u),
           spc2 \in StorePc \/ Is(u2, "STOR")
    PROVE  spc \in StorePc \/ Is(u, "STOR")
<1>1. CASE Is(u2, "STOR")
  BY <1>1, TalkTakes, EmptyBrief
<1>2. CASE spc2 \in StorePc /\ Hears(spc, u, spc2) /\ Shrunk(u, u2)
  <2>1. PICK t \in Texts : Is(u, t)
    BY <1>2 DEF Shrunk, AtMostOne
  <2>2. u[1].t = t
    BY <2>1, IsOne
  <2> QED
    BY <1>2, <2>1, <2>2 DEF Hears, StorePc, Commands
<1> QED
  BY <1>1, <1>2 DEF ServerTalk, Replies, Works, StorePc

(* A process and its connection that stand still, its client too.           *)
LEMMA AttendedStays ==
    ASSUME NEW p \in Procs, Attended(p), cl' = cl, proc'[p] = proc[p],
           Serving(p) => \/ chan'[proc[p].clntSock].in["s"] = chan[proc[p].clntSock].in["s"]
                         \/ chan'[proc[p].clntSock].in["s"] = <<>>
    PROVE  Attended(p)'
<1>1. Serving(p)' <=> Serving(p)
  BY PcServes
<1> QED
  BY <1>1, EmptyBrief DEF Attended, Stores, ClientOf, Running

(* The steps of the server keep it,                                         *)
LEMMA ServeAttended ==
    ASSUME PInv, NEW r \in Procs, Serve(r), AllAttended, NEW p \in Procs
    PROVE  Attended(p)'
<1>1. cl' = cl
  BY DEF Serve
<1>2. Attended(p) /\ proc \in [Procs -> Process]
  BY DEF AllAttended, PInv, IInv, TypeOK, ServerType
<1>3. Serving(p) => proc[p].clntSock \in Conns /\ chan[proc[p].clntSock].port = "pi"
  BY SocksApart DEF PInv
<1>4. Serving(p) => \/ chan'[proc[p].clntSock].in["s"] = chan[proc[p].clntSock].in["s"]
                    \/ chan'[proc[p].clntSock].in["s"] = <<>>
  BY <1>3, ServeTakes
<1>5. CASE proc'[p] = proc[p]
  BY <1>1, <1>2, <1>4, <1>5, AttendedStays
<1>6. CASE Handles(r) /\ p = r
  <2> DEFINE k == proc[p].clntSock
             spc == proc[p].pc
             spc2 == proc'[p].pc
             u == chan[k].in["s"]
             w == chan[k].in["c"]
             u2 == chan'[k].in["s"]
             w2 == chan'[k].in["c"]
             live == chan[k].end["c"] = "open"
  <2>1. /\ Serving(p) /\ proc'[p].clntSock = k
        /\ ServerTalk(live, spc, u, w, spc2, u2, w2)
    BY <1>6 DEF Handles
  <2>2. AtMostOne(u)
    BY <2>1 DEF PInv, ProcsInv, Ready
  <2>3. spc2 \in StorePc \/ Is(u2, "STOR") => spc \in StorePc \/ Is(u, "STOR")
    <3> HIDE DEF spc, spc2, u, w, u2, w2, live
    <3> QED
      BY <2>1, <2>2, TalkStores
  <2> QED
    BY <1>1, <1>2, <2>1, <2>3 DEF Attended, Stores, ClientOf, Running
<1>7. CASE Accepts(r) /\ p = r
  <2>1. PICK l \in Conns :
          \/ /\ Takes(p, "pi", l) /\ At(p, "hello")' /\ proc'[p].clntSock = l
          \/ /\ Takes(p, "dtp", l) /\ At(p, "dtpaccept") /\ At(p, "dtphello")'
             /\ proc'[p].clntSock = proc[p].clntSock
    BY <1>1, <1>7, AcceptsTakes DEF PInv
  <2>2. chan' = chan
    BY <2>1 DEF Takes
  <2>3. CASE Takes(p, "pi", l) /\ At(p, "hello")' /\ proc'[p].clntSock = l
    <3>1. Coming(l)
      BY <2>3 DEF Takes, PInv, ConnsInv
    <3>2. ~ Is(chan[l].in["s"], "STOR")
      BY <3>1 DEF Coming, OnWay, Transfers
    <3> QED
      BY <2>2, <2>3, <3>2 DEF Attended, Stores, StorePc, At
  <2>4. CASE At(p, "dtpaccept") /\ At(p, "dtphello")' /\ proc'[p].clntSock = proc[p].clntSock
    <3>1. Serving(p)
      BY <2>4, PcServes DEF At, ServingPc
    <3> QED
      BY <1>1, <1>2, <2>2, <2>4, <3>1 DEF Attended, Stores, StorePc, At, ClientOf, Running
  <2> QED
    BY <2>1, <2>3, <2>4
<1>8. CASE Forks(r) /\ proc'[p] # proc[p]
  <2>1. PICK q \in Procs :
          /\ At(r, "fork") /\ UNCHANGED sockets
          /\ proc' = [proc EXCEPT ![q] = [proc[r] EXCEPT !.pc = "session"], ![r].pc = "accept"]
    BY <1>8 DEF Forks
  <2>2. CASE p = r
    <3>1. proc'[p].pc = "accept"
      BY <1>2, <2>1, <2>2 DEF Process
    <3>2. ~ Serving(p)'
      BY <3>1, PcServes DEF ServingPc, Commands
    <3> QED
      BY <3>2 DEF Attended
  <2>3. CASE p # r
    <3>1. proc'[p] = [proc[r] EXCEPT !.pc = "session"]
      BY <1>2, <1>8, <2>1, <2>3
    <3>2. proc'[p].pc = "session" /\ proc'[p].clntSock = proc[r].clntSock
      BY <1>2, <3>1 DEF Process
    <3>3. Serving(r) /\ Ready(r)
      BY <2>1, PcServes DEF At, ServingPc, PInv, ProcsInv
    <3>4. ~ Is(chan[proc[r].clntSock].in["s"], "STOR")
      BY <2>1, <3>3 DEF Ready, OnWay, Transfers, At
    <3> QED
      BY <2>1, <3>2, <3>4 DEF Attended, Stores, StorePc, sockets
  <2> QED
    BY <2>2, <2>3
<1>9. CASE Serving(r) /\ Die(r) /\ p = r
  <2>1. proc'[p].pc = "dead"
    BY <1>9, DieShuts DEF PInv
  <2>2. ~ Serving(p)'
    BY <2>1, PcServes DEF ServingPc, Commands
  <2> QED
    BY <2>2 DEF Attended
<1>10. p # r => Forks(r) \/ proc'[p] = proc[p]
  <2>1. CASE Handles(r)
    BY <2>1 DEF Handles
  <2>2. CASE Accepts(r)
    BY <1>1, <2>2, AcceptsTakes DEF PInv, Takes
  <2>3. CASE Serving(r) /\ Die(r)
    BY <2>3, DieShuts DEF PInv
  <2> QED
    BY <2>1, <2>2, <2>3, ServeSplit DEF PInv
<1> QED
  BY <1>5, <1>6, <1>7, <1>8, <1>9, <1>10, ServeSplit DEF PInv

(* and those of the clients.                                                *)
LEMMA UseAttended ==
    ASSUME Brief, PInv, DataConnMatches, NamedClients, "crash" \notin Faults,
           NEW e \in Clients, Use(e) \/ Fail(e), AllAttended, NEW p \in Procs
    PROVE  Attended(p)'
<1> DEFINE k == proc[p].clntSock
           c == ClientOf(p)
<1>1. proc' = proc /\ c = k[1]
  BY DEF Use, Fail, serverVars, ClientOf
<1>2. Serving(p)' <=> Serving(p)
  BY <1>1, PcServes
<1> SUFFICES ASSUME Serving(p), Stores(p)'
             PROVE  cl'[c].pc \notin {"exit", "dead"}
  BY <1>1, <1>2 DEF Attended, ClientOf, Running
<1>3. k \in Conns /\ c \in Clients /\ chan[k].port = "pi"
  BY <1>1, SocksApart DEF PInv, Conns
<1>4. Runs(e) \/ Opens(e) \/ Links(e) \/ Leaves(e)
  BY UseSplit DEF PInv, ClientsInv
<1>5. Beside(e)
  <2>1. Opens(e) \/ Links(e) => \A a \in Clients \ {e} : cl'[a] = cl[a]
    BY DEF Opens, Links, PInv, IInv, TypeOK, ClientType
  <2>2. Opens(e) => Makes(e, "pi")
    BY <2>1, NewMakes DEF Opens, Ports
  <2>3. Links(e) => Makes(e, "dtp")
    BY <2>1, NewMakes DEF Links, Ports
  <2> QED
    BY <1>4, <2>2, <2>3, RunsBeside, LeavesShuts DEF Makes, Ports
<1>6. CASE c # e
  <2>1. cl'[c] = cl[c] /\ chan'[k] = chan[k]
    BY <1>1, <1>3, <1>5, <1>6 DEF Beside
  <2> QED
    BY <1>1, <2>1 DEF AllAttended, Attended, Stores, Running
<1>7. CASE c = e /\ Leaves(e)
  <2>1. chan'[k].in["s"] = chan[k].in["s"] /\ cl'[c].pc \in {"exit", "dead"}
    BY <1>3, <1>7, LeavesShuts
  <2>2. Stores(p) /\ Running(c)
    BY <1>1, <1>7, <2>1 DEF Stores, Leaves
  <2> QED
    BY <1>7, <2>1, <2>2, StoringStays
<1>8. CASE c = e /\ ~ Leaves(e)
  <2>1. cl \in [Clients -> Client]
    BY DEF PInv, IInv, TypeOK, ClientType
  <2>2. CASE Runs(e)
    BY <1>8, <2>2 DEF Runs
  <2>3. CASE Opens(e)
    <3>1. cl'[e].pc = "hello"
      BY <2>1, <2>3 DEF Opens, Client
    <3> QED
      BY <1>8, <3>1
  <2>4. CASE Links(e)
    <3>1. cl'[e].pc = "dtphello"
      BY <2>1, <2>4 DEF Links, Client
    <3> QED
      BY <1>8, <3>1
  <2> QED
    BY <1>4, <1>8, <2>2, <2>3, <2>4
<1> QED
  BY <1>6, <1>7, <1>8

(* So it holds throughout.                                                  *)
LEMMA AttendedInvariance ==
    ASSUME Brief, "crash" \notin Faults, "file" \notin Faults
    PROVE  Spec /\ []DataConnMatches => []AllAttended
<1>1. Init => AllAttended
  BY PcServes DEF Init, ServerInit, AllAttended, Attended, ServingPc, Commands
<1>2. NInv /\ DataConnMatches /\ AllAttended /\ [Next]_vars => AllAttended'
  <2> SUFFICES ASSUME NInv, DataConnMatches, AllAttended, [Next]_vars, NEW p \in Procs
               PROVE  Attended(p)'
    BY DEF AllAttended
  <2>1. PInv /\ NamedClients
    BY DEF NInv
  <2>2. CASE Next
    BY <2>1, <2>2, ServeAttended, UseAttended DEF Next
  <2>3. CASE UNCHANGED vars
    BY <2>3, AttendedStays DEF vars, sockets, serverVars, AllAttended
  <2> QED
    BY <2>2, <2>3
<1> QED
  BY <1>1, <1>2, NamesInvariance, PTL DEF Spec

(* The transfers of both directions are whole, while data connections match *)
(* and neither a program is killed nor a file missing: get has read as much *)
(* as the server counted and the file holds, and a file that was stored is  *)
(* as long as its client counted (getFile and putFile of EchoFtpClient.c,   *)
(* RETR and STOR of EchoFtpServer.c).                                       *)
THEOREM FilesAreWhole ==
    ASSUME Brief, "crash" \notin Faults, "file" \notin Faults
    PROVE  Spec /\ []DataConnMatches => []WholeFile
<1>1. PInv /\ DataConnMatches /\ AllKnown /\ AllAttended => WholeFile
  <2> SUFFICES ASSUME PInv, DataConnMatches, AllKnown, AllAttended PROVE WholeFile
    OBVIOUS
  <2>1. ASSUME NEW c \in Clients, CAt(c, "retrdone")
        PROVE  cl[c].totalBytes = cl[c].fileSize /\ cl[c].fileSize = cl[c].arg
    BY <2>1 DEF AllKnown, Knows, Filed, CAt, Running
  <2>2. ASSUME NEW p \in Procs, At(p, "stordone")
        PROVE  /\ proc[p].totalBytes = proc[p].fileSize
               /\ proc[p].fileSize = cl[ClientOf(p)].arg
    <3>1. Serving(p) /\ Stores(p)
      BY <2>2, PcServes DEF At, ServingPc, Stores, StorePc
    <3>2. Touches(p)
      BY <3>1, StoresTouches DEF AllAttended, Attended
    <3> QED
      BY <2>2, <3>2 DEF AllKnown, Counts, Carried, At, ClientOf
  <2> QED
    BY <2>1, <2>2 DEF WholeFile
<1> QED
  BY <1>1, KnownInvariance, AttendedInvariance, PairInvariance, PTL

(* For one client of the server they always are.                            *)
THEOREM OneClientsFiles ==
    ASSUME Brief, Alone, "crash" \notin Faults, "file" \notin Faults
    PROVE  Spec => []WholeFile
BY OneClientOwnsData, FilesAreWhole, PTL
=============================================================================
