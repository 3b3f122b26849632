# Formal models of NetworkPractice

TLA+ models, TLC configurations and TLAPS proofs for the socket programs of
this repository. The core is `assignment_final`: a client with an echo mode and
an FTP mode, and a server that is a tree of forked processes sharing two
listening sockets. Beside it stand its predecessors: `practice2/src01` (echo and
upload, one client after the other), `practice2/src02` (a talk program with two
processes a side) and the three echo servers of `src`, `src01` and `src02`. Line
numbers refer to the files of the repository; `S`, `C` and `H` below stand for
`EchoFtpServer.c`, `EchoFtpClient.c` and `EchoFtpClient.h` in
`assignment_final/mainsrc`, `Q` and `R` for `ftServer.c` and `ftClient.c` in
`practice2/src01`.

## 1. The system

| component | state it keeps | operations | status |
|---|---|---|---|
| FTP/echo server (`S`) | per process: the point in `main`/`commandHandle`, globals `clntSock` and `clntDtpSock`, its working directory, its descriptors | accept + hello, fork, User, SYSY, PASV, ECHO, STOR, RETR, LIST, CWD, QUIT | modelled: `FtpServer` |
| FTP/echo client (`C`) | globals `sock`, `dtpSock`, `hashFlag`; `ftp_flag`; its directory; the handler it is in | open, echo, ftp, quit (two meanings), rls, get, put, rcd, cd, ls, hash | modelled: `FtpClient` |
| transfer loops (`H:43-102`) | `totalBytes`, `numHash`, the file | `uploadFile`, `downloadFile` | modelled twice: in units in the two modules above, in bytes in `FileTransfer` |
| wire protocol (`ftCommand.h`, `H:18-41`) | the byte streams | `sendProtocol`, `recvProtocol` | modelled: `Protocol`, `Streams`, `Sockets` |
| LIST's `tmp.txt` (`S:218-228`) | the file, one for all sessions in a directory; `tempBuffer` | write by `ls -l`, read back to feof | modelled: `ListTmp` |
| echo and upload (`practice2/src01`) | server: the connection of the moment, `msgType`, `rcvBuffer`, the file; client: the file, `msgType` | hello, EchoReq, FileUpReq, quit | modelled: `EchoUpload` |
| talk (`practice2/src02`) | server: per process `pid`, connection, `rbuf`; client: two processes, one socket | keyboard and socket loops, hello, lines, quit and its SIGQUIT | modelled: `Talk` |
| echo servers (`src`, `src01`, `src02`) | the connection of the moment, `echoBuffer`, `echo_history.log`; client: bytes sent and received | hello (`src02`), echo, log, close | modelled: `EchoTcp`, three versions |
| Makefiles, editor configuration, captures, object files, `practice2/src02/test.c` | - | - | no behaviour |

How the parts of `assignment_final` interact. The user types a command; the
client runs its handler, a straight line of blocking calls, to the end. A
handler sends a text over the control connection ("PI") and receives an answer.
For rls, get and put it first sends PASV, connects a data connection ("DTP") to
port 9467 and shakes hands on it. On the other side one process accepts a
control connection, shakes hands and forks; parent and child both have every
descriptor and every global. The child serves the session command by command
and after QUIT falls out of `HandleFTPControl` into the accept loop of `main`,
so that acceptors multiply.

What is hard to get right here:

* *Streams without message boundaries.* Neither side delimits messages; the
  programs rely on lockstep. Where the server sends twice in a row (RETR, LIST)
  the lockstep is gone.
* *A port shared by all sessions.* All processes accept data connections on one
  socket; nothing but timing pairs a data connection with its session.
* *Order of data and size.* Both transfers write the file before telling its
  size and read it after being told.
* *fork.* Descriptors and globals are copied; a connection ends when its last
  copy is closed; some copies are never closed.
* *Death.* `DieWithError`, SIGPIPE and a null stream kill a process in the
  middle of a command; a user's process can be killed at any moment.
* *Numbers.* Lengths are `unsigned`; a read error is added to them.

In `practice2/src01` one server process accepts a client, shakes hands, and
serves it until its quit, then the next. Requests and names end in a `|` that
the server looks for byte by byte; the contents of a file do not, nothing
answers them, and the server reads whatever has arrived. `msgType`, `rcvBuffer`
and the file keep what the last request, or the last client, left there.

In `practice2/src02` `pid = fork() < 0` assigns the comparison: `pid` is 0 on
both sides of the fork, so that parent and child both run `do_socket` on one
connection, each waits for a hello of its own, and each may read what the other
waits for. The echo servers are sequential; what is hard there is what a
`recv` may return, and that the versions end a word, and a connection,
differently.

What makes each component correct, and the property that says so, is listed
with the runs in section 4; `PROJECT.json` lists the hazards line by line.

## 2. Modules

    Streams         one connection: what arrives, ends, resets      (the kernel)
      EchoUpload    Q and R: the server, its clients; properties; fairness
      EchoTcp       src, src01, src02: the echo servers, their clients
      Talk          practice2/src02: two processes a side
      StreamProofs  what the operators of Streams do
        EchoUploadProofs, EchoTcpProofs, TalkProofs     theorems
    Protocol        the texts, files, directories, buffer limits
      Sockets       (and Streams) all connections, listen queues    (the kernel)
        FtpServer   S: the process tree
        FtpClient   C: the prompt and its handlers
          EchoFtp   both together; properties; fairness
            EchoFtpProofs   theorems: descriptors and connections; EchoFtp
                            implements Descriptors
              PairingProofs   theorems: the two programs in step, their files
    Descriptors     abstract: who holds which connection, and when one ends
    Session         abstract: one command at a time, carried out once
    FileTransfer    H:43-102 in bytes; FileTransferProofs
    ListTmp         S:218-228: the file that LIST writes and reads back;
                    ListTmpProofs

`MC...` modules hold the instances for TLC. `EchoFtp` instantiates both abstract
modules with a refinement mapping (`TreeSpec`, `SessionSpec`).

### Streams and Sockets

The kernel is outside the repository and is modelled by what the programs can
observe of it. A connection is a record: the port it was made to, for each side
the units that have arrived and were not read (`in`), and how each side stands
(`end`: open; `fin` closed in order; `gone` closed in order and a later send
was answered with a reset; `rst` closed with input unread).

* A *unit* is one control message or `BUFSIZE` (1000) bytes of a file. Control
  messages are shorter than every buffer they are received in, with one
  exception, the line a user has echoed (`Text`, `Fits`): the prompt reads up to
  1023 bytes of it, the server's buffer holds 999, and a longer line is two
  units.
* `recv` returns any nonempty prefix of the units that have arrived. This is
  what "glued" messages are, and it also stands for delay: a unit that has
  arrived but is left out of the prefix is one that has not arrived yet. A
  receive may therefore not return *less* than one message; TCP sends texts of
  at most 60 bytes in one segment.
* `write` of file data blocks when `Cap` units are unread; control messages
  never fill a buffer and do not block.
* A close with input unread is a reset at once (`rst`) or after the last input
  has arrived (`gone`): the operators take the outcome as an argument `how` and
  every caller quantifies over it. A send of a control message on a
  broken connection fails or kills by SIGPIPE; both end the process, so they are
  one outcome (`Die`, `Stop`). It may also still succeed. The write of a file
  is different: `uploadFile` (`H:86-88`) adds what write returned to an unsigned
  count, so that the -1 of a connection that was reset makes the count wrap
  (`Uploaded`, `Wrapped`) and the program goes on to announce it; the kernel
  reports a reset once, and a further write kills.
* The listen queues (32 entries, `S:118,125`) are never full in these runs, and
  `socket`, `bind` and `listen` at start succeed.

### FtpServer

`proc[p]` is a process (its `pc`, `clntSock`, `clntDtpSock`, directory, and the
local variables of the handler it is in); `fds[p]` the connections it holds
descriptors of. One action per command handler; the disjuncts of a handler are
its blocking points in their order, named by `pc`. `Fork` copies the record and
the descriptor set. `CloseIn` and `Die` close the server's side of a connection
only where the process is its last holder (`OnlyHeldBy`).

| definition | code |
|---|---|
| `AcceptPI`, `Accept`, `Hello` | `acceptClient`, `S:74-89`, from `main`, `S:45` |
| `Fork` | `S:48-58` |
| `Session` | `HandleFTPControl`, `S:131-140`, and the dispatch of `commandHandle` |
| `User` ... `QUIT` | the branches of `commandHandle`, `S:148-248` |
| `StorSize`, `Download` | `S:186-187` and `downloadFile`, `H:43-69`, inside STOR |

Two values the code does not initialise are chosen freely: `clntLen` (`S:147`),
which accept refuses when it is negative (fault `"accept"`), and `fileSize`
(`S:178`) when no SIZE text arrives: any number up to `Wrapped`, which is larger than
every file and stands for all that are. A `recv` at end-of-file returns an empty
text again and again; the session loop then spins without changing anything,
which in the model is no action.

### FtpClient

`cl[c]` is a client process. The points of its handlers are `pc` values;
PASV/connect/hello is shared by rls, get and put as in `passiveMode` and
`connectServer`, and `then` says which of them goes on. `left` counts the
commands a user may still type. A second `open` forgets the first socket
without closing it, as the code does. `quit` at `input>` says QUIT and exits; at
`ftp>` it changes the prompt (`"leave"`). `ls` only prints. The user's name
that `open` asks for (`C:179-180`) is taken to be typed.

Not reachable from `main` and left out: `bye`, `pwd`, `defaultHandler`,
`modeCheck` and the debug mode. At the end of standard input `fgets` fails and
the last command is repeated; a user of the model may type the same command
again, so these steps are among the modelled ones.

### EchoFtp

Interleaves server processes and clients, and adds `Crash`: a client process
killed at any point after it has connected. `Faults` names what may go wrong in
a run: `"crash"`, `"fork"` (fork fails), `"accept"` (see above), `"file"`
(`fopen` returns null, and the first use of the null stream kills the process:
a file that is not there in RETR and put, `H:75`; one that cannot be created
in STOR and get, `H:47`; `tmp.txt` in LIST, `S:221`). A client whose PASV is not
answered connects to an address nobody initialised (`C:208`); that connect is
taken to fail.

### Descriptors and Session

Two abstract specifications, which say what `EchoFtp` promises without its
programs.

`Descriptors` is about connections only. `life`, `held`, `queue`, `made` and
`open` are which processes live, who has a descriptor of what, who waits for
accept, and whose server side is open. A connection is made once, reaches a
process by accept in the order of its queue, another one by fork, and ends with
its last holder; the last process to die takes the listening sockets and
all that waits at them with it. `TreeSpec` maps them to `proc`, `fds`,
`backlog` and `chan`.

`Session` is about commands only. `want[c]` is the command a client waits for,
`doing[c]` the one its server is at. A client asks when its server is idle, the
server begins and finishes that command, and only then does the client go on.
`SessionSpec` maps a point of a client's handler to the command the handler
sends (`Awaited`) and a point of a server process to the command it serves
(`Handler`). It is checked with one user: with two, the shared data port can give
a client the transfer of another one (`SharedDtpPort`), and two commands end
each other.

### FileTransfer

`uploadFile` and `downloadFile` over one data connection, in bytes. `up` and
`down` are the locals of the two loops, `wire` the bytes in flight, `line` the
state of the connection. A read returns any number of bytes between 1 and
`BUFSIZE` that has arrived. `UINT` stands for 2^32: `totalBytes` is kept modulo
`UINT` and an error of read or write adds `UINT - 1`, as `readBytes` is unsigned
(`H:45,52,86`). After an error of read the kernel reports end-of-file, after one of
write it kills the writer (`eof` of `line` and of `back`, which are how the
connection stands for the two sides). Either process may die; the receiver also
where `fopen` creates no file. A size that nobody announced is any number
an unsigned int holds (`Announce`). `downloadFile` writes a whole buffer to the disk
for every read, be it of one byte (`written`), so that the new file is as
long as TCP has cut the stream into pieces: no property is about that.

### EchoUpload

`srv` is the one server process, `cl[c]` a client, `chan[c]` the connection
between them, `queue` the connections that wait for accept. A unit is what one
write sends (the name and the `|` written after it are one); a `size` carries
its value, `data` its length. The texts of the users have no `|`, names have
one at the end, and files fit the client's buffer (`R:98`, 1000 bytes), so that
the contents leave the client in one write.

* `Header` is the loop that reads up to a `|` or ten bytes (`Q:87-94`). At
  end-of-file the read leaves `msgType` alone: its request is served again, and
  `srv.msgType` remembers which. If it is none, the loop spins without changing
  anything; in the model that is no action.
* `ReadUnits` and `ReadPart` are the read of the contents (`Q:120`), which takes
  any prefix of what has arrived, later requests with it; each read stores
  `origFileSize` bytes (`Q:122`) and only a read that returned that many ends
  the loop (`Q:124`). How many bytes requests have is left open (`Enough`).
* `greeted` is what `rcvBuffer` holds for a `recv` of nothing (`Q:75-77`): a
  hello of an earlier client, or bytes nobody initialised, or the last text,
  which may itself begin with hello.
* `acked` is the client's `msgType` (`R:126-133`), which keeps an earlier
  FileAck when the server ends before it answers.
* `lost` is a history variable: the read of the contents has taken something
  else for this client. The properties use it, no guard does.

The directory `test` the server writes to exists (this commit has none; without
it every upload ends the server), the files the user names can be opened, and
the four bytes of a size arrive together; `FT` alone only changes the client's prompt and has no action;
`record_log` and `ftCommand.h`, which neither program includes, are left out.

### EchoTcp

One module for three programs that differ in few places; `version` says which
of them runs. The bytes of a client's words are numbered as they are sent, so
that order and loss are visible; hello and hi are units of their own.

* `src`, `src01`: a word from the command line, of any length, sent at once; the
  client counts bytes until it has as many as it sent (`After`). The server
  echoes piece by piece until end-of-file and closes; that of `src01` logs what
  the first `recv` returned (`Logged`).
* `src02`: hello and hi first (`Greet`, `Hello`), then word after word. The
  client takes a word for answered when a receive has not filled its buffer. The
  server logs every piece. At end-of-file it sends the empty piece and leaves
  the loop; it closes no connection at all, so there is no `Close` step, and its
  sides end with the process (`Die`).
* The log file can be opened.
* `echoBuffer[recvMsgSize] = '\0'` with a full buffer is one byte past the
  array in `src01` and `src02`; the byte is alignment padding in the builds of
  these Makefiles, and no step depends on it.

### Talk

`proc[p]` is a process of the server, `main[c]` and `child[c]` the two of a
client. Lines are numbered; what they begin with (`Typed`) is all the programs
look at. Lines are shorter than the 100 bytes of a buffer.

* `Fork` gives both processes the point `hello` (`TCPEchoServer.c:66`). When fork
  fails `pid` is 1, neither branch runs, and the connection is forgotten open.
* `ShakeHands`: the first read of each process must begin with hello, or the
  process ends; what it reads with the hello, or instead of it, is not echoed.
* `Read`, `Write`: the loop of `do_socket`. A read that returns nothing or fails
  is repeated for ever, which changes nothing and is no action.
* `Kill`: a line that begins with quit makes the process send SIGQUIT to its
  parent (for the process the shell started: the shell, which ignores it) and
  go back to the accept of `main`.
* `Keyboard`, `KillsChild`: before the client's `main` says hello, its parent
  process sends what is typed, until the first line that is *not* quit
  (`HandleTCPClient.c:22` has the comparison the other way round); then it ends
  its child, which has been waiting for a hello of the server. At the end of the
  keyboard's file (line 17) it leaves the loop with the child alive.
* `ChildShakes`, `ChildEchoes`: that child runs `do_socket` as well: from then on
  two processes of the client read the connection too. It takes an echoed
  hello for a handshake, answers it with a hi that the server echoes like a
  line, and sends back whatever it reads; after another first text it ends.
  `rbuf[c]` is its buffer. What it would do at a quit (end its parent and go on
  as the talking client) is left out, since none can reach it: that is the
  second half of `OneBehind`.
* `hist` holds history variables: the lines a handshake, a quit or the end of a
  process took (`lost`), and how many processes shook hands (`hands`).

`HandleTCPClient` is called from nowhere, and `do_keyboard` is not reached in the
server; both are left out, as is the log file.

### ListTmp

`tmp.txt` and the sessions whose processes share a directory. The unit is the
byte: what `ls -l` prints is a *shape* (of each byte, is it a newline), and a byte
of the file knows whose listing it is of and where it stood there. `system("ls -l
> tmp.txt")` empties the file (`System`) and writes it block by block at its own
offset (`Ls`), so that a block written after another shell has emptied the file
leaves holes of null bytes before it. `Fgets` is one read of stdio's block and one
round of `while(!feof)`: from the block, or from the next one fetched at the reader's
own offset (`Fetched`), bytes up to a newline or as many as the buffer takes
(`Width`), wherever the lines of the file begin by now; at the end, what is in
`tempBuffer` is sent once more (`AtEof`), or a buffer that was never
initialised if the file was empty. `sprintf` ends a text at the first null byte
(`Texts`). A directory the process may not write to keeps the file of an earlier
run; one without the file ends the process in `feof` (`Open`). A send that
blocks, the control connection and the data connection of LIST are in `FtpServer`;
here only the file is.

## 3. Bounds

`MaxConn` bounds the connections a client makes, `MaxCmds` the commands a user
types, `Procs` the server's processes, `Cap` the data units in a connection;
in each cfg `MaxConn` is at least what `MaxCmds` commands can use, and `Procs`
has a process for every open and the acceptor. The two exceptions name
themselves: where a run allows more opens than `MaxConn` or `Procs` has room
for, the extra connect or fork is not taken.

Five commands (one user) or four (each of two) are enough for a session with two
transfers, or for a return of its process to accept and a second session served
by it; three with faults, for a session with a transfer in which anybody may
die at any point. Two clients are enough for every race in the code, each of
which is between two sessions, or a session and a newcomer. File sizes 0 and 2
are "nothing to move" and "more than one read"; with `Cap = 1` size 2 is "more
than the buffers hold", with `Cap = 2` it is not. A line too long for the server's buffer
(`"long echo"`) breaks the lockstep and is typed in no run. Clients are symmetric,
and so are the processes other than the first; symmetry is used in `TwoClients`
and `Faults`, whose properties are invariants and properties of single steps.

`FileTransfer` runs with a buffer of 3 bytes and files up to 8 (empty, shorter
than a buffer, exact multiples, two buffers and a rest), `UINT = 16`; a size that
nobody announced is any number below that.
`EchoUpload` runs with two clients, two commands each and files of 0 and 2
bytes: nothing to send, and contents that can arrive in two pieces; the second
command is the request that can be read as contents.

`EchoTcp` runs with a buffer of 4 bytes and words of 0, 2, 3 and 5: nothing,
less than a buffer, exactly what the client's receive takes, and more than the
buffer; two clients, so that one waits behind, and two words each in `src02`.
`Talk` runs with three processes (the two of the first connection, and one more
when a fork is repeated after a quit), three lines of one user and one of the
other: a line before the hello, a quit and a line after it. `ListTmp` runs with
two sessions, two listings each, blocks of 2 bytes, a buffer of 3, and listings
of one newline, of a line of 2 and one of 3, and of a line of 1 and one of 5:
less than a block, lines that end in the middle of one, and a line longer than
the buffer.

Distinct states: `OneClient` 203,000, `TwoClients` 965,000, `Faults` 519,000,
`Transfer` 12,300, `Uploads` 45,000, `Echo` 284,000, `Talk` 874,000, `Listing`
133,000 (rounded).

Deadlock is not checked: a server whose users have stopped waits in accept, and
some of the findings are waits for ever, stated as liveness properties.

## 4. Runs

Passing runs:

| run | question | properties |
|---|---|---|
| `OneClient` | does one user's use of every command keep both programs in step, and does all of it end? | `TypeOK`, `WholeFile`, `CommandsEnd`, `HandlersReturn`, `SessionSpec` |
| `TwoClients` | do two sessions stay apart in a tree of processes that share descriptors? | `AnswersInOrder`, `ControlApart`, `DataApart` |
| `Faults` | whom do a killed client, a failing fork or accept and a file that cannot be opened take with them? | `PromptQuiet`, `OpenWhileHeld`, `DeathsExplained`, `CwdByOwnClient`, `TreeSpec` |
| `Transfer` | is no byte lost, counted twice or read too many, however the stream is cut? | `TypeOK`, `BytesConserved`, `StopsAtSize`, `MarksMatch`, `DownloadEnds` |
| `Uploads` | what becomes of a server without end marks on its files, and of the clients it serves in turn? | `AnswersMatch`, `WaitsExplained`, `StoredExact`, `DeathsExplained`, `GoneIsNoticed` |
| `Echo` | is every byte echoed and logged in order, does everybody get away, in three versions of one program? | `InOrder`, `WaitExplained`, `OnlyOneOpen`, `LogMatches`, `DeathsExplained`, `ClientsEnd`, `GoneFreesServer` |
| `Talk` | what becomes of lines that two processes read, and of a server one of whose processes can end the other? | `EachLineOnce`, `OrderKept`, `OneBehind`, `WaitExplained`, `ServerSurvives`, `DeathsExplained`, `QuitFrees` |
| `Listing` | what does a LIST send while another one rewrites its file? | `AloneExact`, `Forward`, `ListsEnd` |

What some of them say beyond their formula. `PromptQuiet` is the lockstep the
protocol depends on in place of delimiters: a prompt is shown only when nothing
of the last command is left on the control connection. It survives the glued
replies (the client hangs, and is not at its prompt) and the swapped data
connections. `ControlApart` and `OpenWhileHeld` hold although processes return
from QUIT to accept with old descriptors. `DeathsExplained` lists what a
server process of the model can die of: its own client is gone, or its data
connection was another client's, or a call of its own failed, among `fork` and
`accept` and the `fopen` of RETR, STOR and LIST. `CwdByOwnClient` leaves open
in which directory a process starts that serves its second session: it keeps
that of the first. `TreeSpec` and `SessionSpec` say
that the steps of the programs are steps of the abstract specifications, or
change nothing there.

In `Uploads`, `WaitsExplained` says that the read of the contents is the only
place where the two programs can come to wait for each other, and `StoredExact`
and `DeathsExplained` that without it only a killed client does harm. All three
are about `lost`: that a request does get lost, with an empty file or a quick
user, is part of the behaviours they hold in.

In `Echo`, `WaitExplained` has the wait that `src02` can come to: an echo that
exactly fills the client's receive, so that the client waits for more.
`DeathsExplained` shows that in `src02` a user who quits too early ends the
server for all. In `Talk`, `OneBehind` and `EachLineOnce` hold although a first
line that begins with hello is answered twice and every later answer is then
read for the line after it; `ServerSurvives` bounds what the mistaken fork
costs: one of the two processes, unless the user has typed a quit before. Both
halves of the client are in them: where its keyboard ends first, a line may also
be with its child (`EachLineOnce`), and what the child takes it sends back.
In `Listing`, `Forward` is what is left when two listings mix: bytes of
different listings, lines torn and joined, even a line twice (where it stands
further on in the other listing), at offsets that still ascend.

Runs that end in a counterexample, each for one statement of the documentation
or of a comment:

| run | what is said | what happens |
|---|---|---|
| `GluedReplies` | "recv complete message from PI server" (`C:309`, `C:266`) | the client waits for a message it has already consumed together with the one before |
| `BigFile` | the size is received as the answer to RETR (`C:299`); put uploads the file (`사용법:12`) | each side is blocked writing a file that the other reads only when it knows the size |
| `SharedDtpPort` | on PASV wait for the client's connection (`S:162`) | another client's connection is accepted |
| `DeadAcceptor` | open connects to the server (`사용법:5`) | the accepting process has died of a client that vanished; the port is still open in its children |

Three more observations the models contain, which no run singles out: QUIT leaves
the server's side of the control connection open (`S:241-248`; `프로토콜설명.txt:12`
says that it ends); what does not fit into the server's buffer of an echoed line
is read as the next command (`S:168`); and the upload server of `practice2/src01`
stores a file longer than the original when its contents arrive in pieces
(`Q:122`).

Each property of a passing run has a mutant in `PROJECT.json`: an operator
beside the definition it mutates, named in a comment, which the run refutes.

### Fairness

`FairSpec` of `EchoFtp` assumes weak fairness of every server process and of
every client that is inside a handler: the programs have no locks and no
timeouts, and the operating system runs what can run. A user at the prompt is
never forced to type. A choice inside a process's step (how much a `recv`
returns, whether a write to a broken connection still succeeds) stays free.
`CommandsEnd` excepts the get and rls whose completion came too early
(`Overtaken`; `GluedReplies` shows it happen), and both it and `HandlersReturn`
are checked with files that fit the buffers (`BigFile` shows the others).

`FairSpec` of `EchoUpload` adds strong fairness of the server's death of a reset:
a server that goes on answering a request it reads again and again at
end-of-file writes to a closed connection, and TCP answers the first such
segments with a reset, so that not every one of those writes can succeed.

`FairSpec` of `EchoTcp` assumes weak fairness of the server and of every client
that does not wait for a user (in `src` and `src01` the word is on the command
line, so there the client never does); that of `Talk` of the server's
processes only; that of `ListTmp` of every process inside a LIST.

## 5. Proofs

Every theorem holds for all values of the constants that satisfy the named
assumptions of the modules, which TLC evaluates in the runs.

`EchoFtpProofs` proves, for any clients, processes, bounds, files and faults:

* `TypeCorrect`: `Spec => []TypeOK`;
* `HeldIsOpen`: `Spec => []OpenWhileHeld`;
* `ServedApart`: `Spec => []ControlApart`.

They rest on `ProtocolAssumption`, `SocketsAssumption`, `ServerAssumption` and
`ClientAssumption`. Neither of the two invariants is inductive. A connection that is accepted must
be one no process has yet, which is a fact about the listen queues; a fork
must find the parent's connection in nobody else's hands. The inductive
invariant is

    IInv == TypeOK /\ Held /\ Apart /\ Joined

`Held` ties descriptors, queues and the state of a connection together:
connections in the queues are open, made to that queue's port, in one queue
place only and held by nobody. `Apart` is `ControlApart` for every process that
is in the handshake or in a session. `Joined` says that what a process waits
for or reads is one it holds. The proof groups the steps by what they do to
this: most only move data (`Quiet`), a few accept, fork, close or die, and on
the client's side a step either connects or leaves queues and descriptors
alone. Each handler gets one lemma saying which of these kinds its disjuncts
are (`EchoKinds`, `RetrKinds`, ...), each kind one lemma saying that it keeps
the invariant (`QuietKeeps`, ...).

`PairingProofs` proves, for users who type no line longer than the server's
buffer (`Brief`; the long one breaks the lockstep, section 4):

* `AnswersMatch`: `Spec => []AnswersInOrder`;
* `PromptIsQuiet`: `Spec => []PromptQuiet`;
* `TransfersApart`: `Spec => []DataApart`;
* `CwdIsObedient`: `Spec => CwdByOwnClient`;
* `DeathsHaveReasons`: `Spec => DeathsExplained`.

None of them can be seen from one program alone. The invariant `PInv` adds to
`IInv` the table of what goes together (`Paired`): for each point of a client's
handler the points its server process may be at and the texts that may then be
under way in each direction. It has one part per phase: `Meeting` (the
handshake), `Asking` (a question and its answer), `Echoing`, `Joining` (from
PASV to the command that uses the data connection; only here may a client run
ahead of its server, by one command), `Listing`, `Fetching` (where the server
may run ahead by one answer) and `Storing`. The moves of either program on a
control connection are the relations `ServerTalk` and `ClientTalk`; that a move
keeps the table (`ServerTalks`, `ClientTalks`) is about texts only and knows
nothing of processes. What a step of the model does is brought under these
relations by one lemma per handler (`Handles`, `Runs`), and what it leaves alone
for everybody else by one lemma per kind of step.

The rest of `PInv` says when the table applies and what holds outside of it:
after the fork nobody else holds a process's control connection (`Sole`); a
process has a data connection of its own before the command for it arrives
(`Ready`, `Fresh`); a connection in the queue is at its hello (`Coming`,
`Greeting`); what a client finds is due to it even when its server is dead
(`Answered`, `Due`). `DeathsExplained` needs one thing more: without the fault
that a user names a missing file, no RETR on its way does (`NInv`), and no call
of fopen fails (`FileFails`).

With a data connection taken by another client's process (`SharedDtpPort`) all of
this still holds: the table is about control connections, and what `Joining`
promises does not depend on whose data connection was accepted.

The refinement does not hold then. `PairingProofs` proves it as far as it does:

* `SessionsCarriedOut`: `Spec /\ []DataConnMatches => SessionSpec`, for any number
  of clients: as long as no process takes another client's data connection,
  every step of `EchoFtp` is a step of `Session` or none;
* `OneClientOwnsData`: `Spec => []DataConnMatches` when there is one client
  (`Alone`), whoever is interrupted and whatever processes of its earlier
  connections are left;
* `OneClientsSession`: `Spec => SessionSpec` for one client, from both.

The first rests on `PInv` and on `AllAwait`, what a process that waits for a data
connection may expect: its client has not connected yet, or its connection is
in the queue. From that follows `AllCome`: the client of a process inside PASV is
at PASV too, which `Joining` alone leaves open, since there the client may already
have sent its next command. `ServerShows` and `ClientShows` read off the table which
abstract action a move is. The second rests on `OwnInv`: what waits on the data
port is the connection the client made last (`Current`), and a process in a
transfer, or in a session whose next command is one, has that connection
(`Bound`); a client makes the next one only when no process of its session is
between PASV and the end of a transfer.

Last, `PairingProofs` follows the files that `get` and `put` move:

* `GetsAreWhole`: `Spec /\ []DataConnMatches => []Fetched`, the half of `WholeFile`
  that is about `get`, whoever is killed and whatever fails;
* `FilesAreWhole`: `Spec /\ []DataConnMatches => []WholeFile`, when `Faults` has
  neither `crash` nor `file`: a client that is killed, or that dies at a file it
  cannot open (`C:346`), leaves a server which stores what has come;
* `OneClientsFiles`: `Spec => []WholeFile` for one client, with the same `Faults`,
  from that and `OneClientOwnsData`.

`WholeFile` says something of the end of a transfer; the invariant says where each
unit is until then. `Filed` is what a client knows of the data connection: it is
empty until the file begins (but for the one hello and the answer to it), no
file begins with a stale count, the size on its way is that of the file, and
from then on what was read and what is under way are the file. `Carried` is the
same for the process: what it has counted is under way or was read, and at the
end of `put` what the client counted is what it announced. Which steps move
units, and how many, is read off the two programs by `ServerDoes` and
`ClientDoes`; the relations `ServerDeed` and `ClientDeed` say it in terms of
numbers, and that these keep `Filed` and `Carried` (`DeedKeeps`, `MoveFiled`,
`MoveCarried`) is about numbers and the table only. A `get` needs no more,
since the client reads up to the size and every unit of it was sent before the
size was. The process that stores a file has its client at the other end all the
time (`AllAttended`): at the points of `put` a client ends only if its server has.

`EchoFtpProofs` also proves `ImplementsTree`: `Spec => TreeSpec`, that is, `EchoFtp`
implements `Descriptors`. The steps are grouped as before; what each group does
to `fds`, `backlog` and the ends of connections is one action of the tree, or
none. `IInv` and one more invariant, `Listened` (while the
sockets listen, some process lives), supply what the abstract actions ask for.

`ListTmpProofs` proves, for any sessions, listings and sizes of a block and of
the buffer:

* `TypeCorrect`: `Spec => []TypeOK`;
* `ListedExactly`: `Spec => []AloneExact`;
* `ReadForward`: `Spec => []Forward`.

The one assumption is `ListAssumption` (there is something `ls` may print, it ends
in a newline, blocks and buffer have room for a byte). The first part of the invariant
is about the file: whoever has emptied and rewritten it, at each offset stands
a byte that belongs at this offset of some listing, or a hole. So what a process
has fetched is a piece of such a file, the offsets it has sent rise, and stay below
those it has still to return; only what the last fgets returned is sent twice,
when `feof` has come. For a LIST that nobody met the file is its own listing as far
as it is written, and its block, its buffer and what it has sent are beginnings
of that.

`FileTransferProofs` proves `TypeCorrect`, `Conservation` (`BytesConserved`),
`Progress` (`MarksMatch`) and `SizeRespected` (`StopsAtSize`) for every buffer size,
file length and width of the counter. Its invariant adds what relates the locals
of the two loops: how the announced size, the bytes counted and the bytes in
flight stand to each other in each phase, and that a wrapped count is beyond
every file length.

`EchoUploadProofs` proves `TypeCorrect`, `AnswersAreOwn` (`AnswersMatch`) and
`LostOrLive` (`WaitsExplained`). Both properties are consequences of a pairing:
which point of the client goes with which point of the server, and what is then
under way in either direction. A client is `Coming`, `Waiting` in the queue,
`Served` or `Left`; one that is served is `Paired` with the server: at the hello
(`Greeting`), in a line (`Echoing`), before the contents of a file
(`Announcing`), in them (`Sending`), or, where `lost` is set, anywhere its
request was swallowed (`Missed`). `Due` is what a client may find to read, and
holds also when the server has ended. `WaitsExplained` follows because every pair but
`Missed` has something under way or a side that can go on.

It also proves `StoredWhole` (`StoredExact`) and `DeathsByClients`
(`DeathsExplained`), both from one invariant more, `SizeInv`, which ties the pairing to
lengths. While a file is received, what is stored and what is
still to come is either `Complete` (nothing of the contents was read, and they
are all in front of the server or not sent yet) or `Short` (a piece was read,
and what is left can never be the announced length again, so the loop does not
end well). A client that left in order (`GoneOne`) is in no queue, and its quit is the last
thing before the server or has been read. So the calls that end the
server, a write to a connection that was reset and a read at its end
(`DiesAtEnd`), meet only a client that was killed or one whose quit was taken
for contents; with any other client a served session keeps the server alive
(`ServedLives`).

`EchoTcpProofs` proves `TypeCorrect` and `OneAtATime` (`OnlyOneOpen`); the
invariant adds that a server at work has a client and that only a piece
with bytes in it is sent back in `src` and `src01`.

It also proves `BytesInOrder` (`InOrder`), `LogTold` (`LogMatches`), `WaitTold`
(`WaitExplained`) and `DeathsTold` (`DeathsExplained`). None of the first three is inductive: where a piece may come from depends on how far client and server have
got with each other. The invariant gives every client that is served a stage:
`Fresh` (nothing of it was received; `Shaking` in `src02`, `Unread` in the
others), `Greeted` (the hi is on its way) or `Flowing`. In the last one the
client's bytes are one `Line` through the stream to it, the server's piece and
the stream to the server, each part starting where the one before ends; a step
of either program moves a boundary of this line and keeps its sum. The log is a
beginning of the same numbers. A client is in the queue once and never before it
has connected (`QueuedOnce`, `Came`), so that a server that accepts meets a fresh
one. For `DeathsExplained` a second invariant, `EInv`, follows the clients that
have ended: a living server closes only their connections, and one that exited
either has bytes to come, in `src02`, or its connection is `Quiet`: closed in
order, with nothing under way and nothing the server would still send, so that
no call on it can fail.

`TalkProofs` proves `TypeCorrect` and `LinesInOnePlace` (`EachLineOnce`). For
each client that is served, `Parted` is the property itself; `Tidy` says that no
number stands twice in a stream or a buffer, of the server's processes or of the
client's child; `Buffers` that only a process about to write has something in
its buffer. Every step of either program moves the lines of one client from one
place to another (`PartMoved`) or adds one (`PartAdded`).

It also proves `LinesInOrder` (`OrderKept`), `AnswersAreFew` (`OneBehind`),
`WaitsAreExplained` (`WaitExplained`), `ServerLives` (`ServerSurvives`) and
`DeathsByQuit` (`DeathsExplained`). First each step is reduced to what it does to
processes, queue, connections and counts (`ServeDoes`, `UseDoes`), so that the
invariants below each look at a dozen kinds of step and never at a handler.
A client is `Live` as long as its main process or its child runs, and then its
side of the connection is open (`Open`); it is `Held` as long as the server's
side is open too. `Linked` says who is at work for whom: a client waits in the queue
once and nobody holds its connection then; the process that accepted it is alone with
it until it forks, and two processes at most serve it afterwards (`Crew`); no
process is its own parent. `DeathsByQuit` follows from `Linked` alone.

For `AnswersAreFew` a process weighs the answers it still owes (`Weight`), and so does
the client's child (`Inside`), which counts as part of what is on its way (`Way`). The
invariant `Expects` bounds `Way` plus the weights of any one and any two
processes by what the client looks out for (`Most`: one less while the child lives,
since then no line was sent before the hello); before the first handshake
only quits may exceed it (`Unshaken`, after it `Shaken`). Because two processes
serve a client at most, a step that moves weight between a process, the connection and the
child keeps the bounds (`Balance`). That a child finds no quit is `Quitless`: while
the child lives a process reads one line at a time (`ReadsOne`), so that a quit comes
alone, and alone it is never sent back; nothing arrives on a connection the server has
closed (`Arrived`). With
`LinesInOnePlace` the bounds also explain a wait.

`LinesInOrder` rests on `InTurn`: with one handshake counted one process at most is
past it, and what is written back, held and not yet read is one `Chain` of rising
numbers; what a child writes, it writes into an empty one (`KidAlone`). For
`ServerLives` the invariant `Surviving` names who is left: a process at accept or past
the handshake, which nothing but its client's end or a child's quit can end; or
two at the handshake with a client that has sent only its first line and a
hello, or the hello alone (`FreshS`); or one with a client that has only the hello
to send (`WaitingS`). Whoever is accepted next is fresh too, as long as somebody is
left to keep the queue open.

Only model-checked: all liveness. Liveness and `ENABLED` are out of reach of the
provers used here, and so is induction over data with an operator as parameter.
Every safety invariant of the passing runs is proved, and so are their
properties of steps and both refinements (`SessionSpec` under `DataConnMatches`). The type invariants of `EchoUpload`,
`EchoTcp`, `Talk` and `ListTmp` are proved and in no run. Some theorems assume more
than the types of the constants: `Brief`, because a longer line breaks the
lockstep; `[]DataConnMatches` or `Alone`, because two clients can take each
other's data connections, as `SharedDtpPort` shows; the absence of a fault, where
that fault is a way for the property to fail.

## 6. Not modelled

The contents of files and texts; descriptors and processes of the system running
out; `socket`, `bind` and `listen` failing at start; what the programs display,
`DieWithError`'s message included; the log file of `Q` and of `Talk` (written
and never read; that of the echo servers is in `EchoTcp`); functions that
nothing calls (see the modules above). The Makefiles, captures, object files
and sample data have no behaviour.

Three hazards have no property. The long echoed line is described in section 4;
no run types it. A server process whose client has left without QUIT parses the
same empty text for ever (`S:138`), which changes no state. At the end of
standard input the client repeats its last command (`C:118`), which a user
of the model may do too.

## 7. What could follow

1. The liveness properties, by hand or with a prover that takes `ENABLED`:
   `CommandsEnd` of one client rests on `SessionsCarriedOut`, `Paired` and the
   counts that `Filed` and `Carried` give, which fall with every unit.
2. What can be said of the files of several clients whose data connections do not
   match; no theorem here is about those.
