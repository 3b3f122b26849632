------------------------------ MODULE Protocol -------------------------------
(* What EchoFtpClient.c and EchoFtpServer.c tell each other (ftCommand.h and *)
(* the literals the two programs send): a text is its first word and the one *)
(* argument a program reads out of it.                                       *)
EXTENDS Integers, Sequences, FiniteSets

CONSTANTS Dirs,      \* the directories of the machines
          Home,      \* the one every program is started in
          Sizes,     \* lengths of files, in units of BUFSIZE bytes
          Wrapped,   \* the largest unsigned int, which is also -1
          NoFile,    \* a file that is not there; a file is named by its length
          Faults     \* what may go wrong in a run: fork fails, accept fails,
                     \* a client crashes, fopen finds or creates no file

ASSUME ProtocolAssumption ==
    /\ Home \in Dirs
    /\ Sizes \subseteq Nat /\ Sizes # {}
    /\ Wrapped \in Nat /\ \A n \in Sizes : n < Wrapped
    /\ NoFile \in Int \ Nat
    /\ Faults \subseteq {"fork", "accept", "crash", "file"}

Files == Sizes \cup {f \in {NoFile} : "file" \in Faults}

Commands == {"User", "SYSY", "PASV", "ECHO", "STOR",
             "RETR", "LIST", "CWD", "QUIT"}

Texts == Commands \cup
    {"hello", "hi", "Get", "OS", "addr", "ok", "text", "rest", "SIZE", "size",
     "150", "226", "221", "line", "data", "complete", "Change"}

Msg == [t : Texts \ {"CWD"}, n : Int] \cup [t : {"CWD"}, n : Dirs]
Word(t) == [t |-> t, n |-> 0]
(* Mutant of With: the argument is left out of the text.                    *)
WithoutArgument(t, n) == [t |-> t]
With(t, n) == [t |-> t, n |-> n]

(* The line a user has the server echo.  The receivers' buffers hold 999    *)
(* bytes of it, the prompt reads up to 1023: a long line is two units.      *)
Text(long) == IF long THEN <<Word("text"), Word("rest")>> ELSE <<Word("text")>>

(* How many units one recv may return: a unit that overflows the buffer is  *)
(* left to the next one.                                                    *)
Fits(units, j) == \A i \in 2..j : units[i].t # "rest"
=============================================================================
