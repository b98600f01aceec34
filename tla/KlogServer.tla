----------------------------- MODULE KlogServer -----------------------------
(***************************************************************************)
(* The kernel log server of plugin_server (klog.c): one thread listens on  *)
(* port 3232, opens /dev/klog when somebody connects, and then copies one  *)
(* character at a time to every connection, until the last one is gone.    *)
(*                                                                         *)
(* The thread shares its process with the FTP server (lib.c): only         *)
(* ftp_main, which starts if the process could be jailbroken, ignores      *)
(* SIGPIPE, so until then a write to a closed connection ends them both.   *)
(* The thread that logs to disk is never started (log_to_disk is 0).       *)
(***************************************************************************)
EXTENDS Naturals, FiniteSets, Sequences, SequencesExt

CONSTANTS
    Clients,    \* the programs that connect to port 3232
    MaxFds,     \* descriptors the process has left for this thread
    MaxLog,     \* bound: characters the kernel logs
    Faults,     \* the faults that may happen, out of AllFaults
    MaxFaults   \* bound: how many of them in a behaviour

AllFaults == {"interfaces", "setup", "file", "accept", "read", "select"}

ASSUME KlogAssumption ==
    /\ IsFiniteSet(Clients)
    /\ MaxFds \in Nat /\ MaxLog \in Nat /\ MaxFaults \in Nat
    /\ Faults \subseteq AllFaults

VARIABLES
    pc,              \* where the thread is
    sockfd,          \* "none", "open" or "listening"
    leaked,          \* sockets that are open and whose descriptor was forgotten
    port,            \* "free", or held by one of those: "bound", or "deaf" if it listens
    file_open,       \* file_fd is open
    output_set,      \* the connections that are written to
    nb_connections,  \* how many the code thinks there are
    ready,           \* temp_set: is the listener, is the file readable
    todo,            \* the connections the current character still goes to
    err,             \* serve_file_while_connected has failed
    queue,           \* connections that wait to be accepted
    conn,            \* per client: "away", "here", "stalled" (does not read), "gone"
                     \* (it has closed), "forgotten" (nobody serves its connection)
    log,             \* characters the kernel has logged
    pos,             \* characters the thread has read
    stream,          \* per client: the characters it was sent
    sigpipe,         \* "default" or "ignored"
    up,              \* the process lives
    faults           \* how many faults have happened

fileVars   == <<file_open, output_set, nb_connections, ready, todo, err>>
socketVars == <<sockfd, leaked, port, queue>>
clientVars == <<conn, stream>>
procVars   == <<sigpipe, up>>
vars == <<pc, fileVars, socketVars, clientVars, log, pos, procVars, faults>>

Backlog == 5

One(condition) == IF condition THEN 1 ELSE 0

\* Descriptors in use.
Used == One(sockfd # "none") + leaked + One(file_open) + Cardinality(output_set)

Fault(f) ==
    /\ f \in Faults /\ faults < MaxFaults
    /\ faults' = faults + 1

At(label)   == up /\ pc = label
Goto(label) == pc' = label

-----------------------------------------------------------------------------
(* serve_file: up to the first connection                                  *)

Interfaces ==
    /\ At("interfaces")
    /\ \/ Goto("socket") /\ UNCHANGED faults
       \/ Fault("interfaces") /\ Goto("sleep")
    /\ UNCHANGED <<fileVars, socketVars, clientVars, log, pos, procVars>>

Socket ==
    /\ At("socket")
    /\ IF Used < MaxFds THEN sockfd' = "open" /\ Goto("setup")
                        ELSE Goto("sleep") /\ UNCHANGED sockfd
    /\ UNCHANGED <<fileVars, leaked, port, queue, clientVars, log, pos, procVars, faults>>

\* setsockopt, bind and listen.
Setup ==
    /\ At("setup") /\ port = "free"
    /\ sockfd' = "listening" /\ Goto("wait")
    /\ UNCHANGED <<fileVars, leaked, port, queue, clientVars, log, pos, procVars, faults>>

\* One of them fails and the socket is left behind, bound if it was listen.  With
\* the port held by a socket that was left behind, bind fails every time.
SetupFails ==
    /\ At("setup")
    /\ \/ port = "free" /\ Fault("setup") /\ port' \in {"free", "bound"}
       \/ port # "free" /\ UNCHANGED <<port, faults>>
    /\ sockfd' = "none" /\ leaked' = leaked + 1 /\ Goto("sleep")
    /\ UNCHANGED <<fileVars, queue, clientVars, log, pos, procVars>>

Wait ==
    /\ At("wait") /\ queue # <<>>
    /\ Goto("open")
    /\ UNCHANGED <<fileVars, socketVars, clientVars, log, pos, procVars, faults>>

\* The clients of a queue that is closed are reset.
Reset(waiting) == [c \in Clients |-> IF Contains(waiting, c) THEN "away" ELSE conn[c]]

\* Nobody serves the connections of these clients any more, and nobody closes them.
Forget(set, left) ==
    [c \in Clients |-> IF c \notin set THEN left[c]
                       ELSE IF conn[c] = "gone" THEN "away" ELSE "forgotten"]

\* select fails: serve_file returns and leaves the listener behind, on its port,
\* with the connections that wait.
WaitFails ==
    /\ At("wait") /\ Fault("select")
    /\ sockfd' = "none" /\ leaked' = leaked + 1 /\ port' = "deaf" /\ queue' = <<>>
    /\ conn' = Forget({c \in Clients : Contains(queue, c)}, conn)
    /\ Goto("sleep")
    /\ UNCHANGED <<fileVars, stream, log, pos, procVars>>

-----------------------------------------------------------------------------
(* serve_file_while_connected                                              *)

OpenFile ==
    /\ At("open") /\ Used < MaxFds
    /\ file_open' = TRUE /\ nb_connections' = 0 /\ err' = FALSE
    /\ Goto("select")
    /\ UNCHANGED <<output_set, ready, todo, socketVars, clientVars, log, pos, procVars, faults>>

\* The file does not open; serve_file closes the listener, which resets the
\* connections that wait.
OpenFileFails ==
    /\ At("open")
    /\ \/ Used >= MaxFds /\ UNCHANGED faults
       \/ Fault("file")
    /\ sockfd' = "none" /\ queue' = <<>>
    /\ conn' = Reset(queue)
    /\ Goto("sleep")
    /\ UNCHANGED <<fileVars, leaked, port, stream, log, pos, procVars>>

Select ==
    /\ At("select") /\ (queue # <<>> \/ pos < log)
    /\ ready' = [server |-> queue # <<>>, file |-> pos < log]
    /\ Goto("accept")
    /\ UNCHANGED <<file_open, output_set, nb_connections, todo, err, socketVars,
                   clientVars, log, pos, procVars, faults>>

\* select fails: the file is closed, by serve_file the listener, but none of the
\* connections, which the local output_set alone knew.
SelectFails ==
    /\ At("select") /\ Fault("select")
    /\ file_open' = FALSE
    /\ output_set' = {} /\ leaked' = leaked + Cardinality(output_set)
    /\ sockfd' = "none" /\ queue' = <<>>
    /\ conn' = Forget(output_set, Reset(queue))
    /\ Goto("sleep")
    /\ UNCHANGED <<nb_connections, ready, todo, err, port, stream, log, pos, procVars>>

\* 10 ms without an event: "continue" goes to the loop's condition.
SelectTimeout ==
    /\ At("select") /\ queue = <<>> /\ pos = log
    /\ Goto("check")
    /\ UNCHANGED <<fileVars, socketVars, clientVars, log, pos, procVars, faults>>

Accept ==
    /\ At("accept") /\ ready.server /\ Used < MaxFds
    /\ output_set' = output_set \cup {Head(queue)}
    /\ nb_connections' = nb_connections + 1
    /\ queue' = Tail(queue)
    /\ Goto("read")
    /\ UNCHANGED <<file_open, ready, todo, err, sockfd, leaked, port, clientVars, log, pos,
                   procVars, faults>>

\* No descriptor, or the connection was aborted: everybody is disconnected.
AcceptFails ==
    /\ At("accept") /\ ready.server
    /\ \/ Used >= MaxFds /\ UNCHANGED faults
       \/ Fault("accept")
    /\ err' = TRUE
    /\ Goto("close")
    /\ UNCHANGED <<file_open, output_set, nb_connections, ready, todo, socketVars,
                   clientVars, log, pos, procVars>>

\* Mutant: the file is only looked at after a new connection.
NothingElse ==
    /\ At("accept") /\ ~ready.server
    /\ Goto("check")
    /\ UNCHANGED <<fileVars, socketVars, clientVars, log, pos, procVars, faults>>

NothingToAccept ==
    /\ At("accept") /\ ~ready.server
    /\ Goto("read")
    /\ UNCHANGED <<fileVars, socketVars, clientVars, log, pos, procVars, faults>>

Read ==
    /\ At("read") /\ ready.file
    /\ pos' = pos + 1
    /\ todo' = output_set
    /\ Goto("write")
    /\ UNCHANGED <<file_open, output_set, nb_connections, ready, err, socketVars,
                   clientVars, log, procVars, faults>>

ReadFails ==
    /\ At("read") /\ ready.file
    /\ Fault("read")
    /\ err' = TRUE
    /\ Goto("close")
    /\ UNCHANGED <<file_open, output_set, nb_connections, ready, todo, socketVars,
                   clientVars, log, pos, procVars>>

NothingToRead ==
    /\ At("read") /\ ~ready.file
    /\ Goto("check")
    /\ UNCHANGED <<fileVars, socketVars, clientVars, log, pos, procVars, faults>>

\* One character to one connection; it waits for a client that does not read.
\* The first write to a client that is gone may still succeed.
WriteTo(c) ==
    /\ At("write") /\ c \in todo /\ conn[c] \in {"here", "gone"}
    /\ stream' = [stream EXCEPT ![c] = Append(@, pos)]
    /\ todo' = todo \ {c}
    /\ UNCHANGED <<pc, file_open, output_set, nb_connections, ready, err, socketVars,
                   conn, log, pos, procVars, faults>>

\* Mutant: a connection that is dropped is still counted.
DropUncounted(c) ==
    /\ At("write") /\ c \in todo /\ conn[c] = "gone" /\ sigpipe = "ignored"
    /\ output_set' = output_set \ {c} /\ todo' = todo \ {c}
    /\ conn' = [conn EXCEPT ![c] = "away"]
    /\ UNCHANGED <<pc, file_open, nb_connections, ready, err, socketVars, stream, log,
                   pos, procVars, faults>>

\* Mutant: the connection is dropped but the loop comes back to it.
DropAgain(c) ==
    /\ At("write") /\ c \in todo /\ conn[c] = "gone" /\ sigpipe = "ignored"
    /\ output_set' = output_set \ {c} /\ UNCHANGED todo
    /\ nb_connections' = nb_connections - 1
    /\ conn' = [conn EXCEPT ![c] = "away"]
    /\ UNCHANGED <<pc, file_open, ready, err, socketVars, stream, log, pos, procVars, faults>>

\* Mutant: the loop over the connections ends with the first one dropped.
DropLast(c) ==
    /\ At("write") /\ c \in todo /\ conn[c] = "gone" /\ sigpipe = "ignored"
    /\ output_set' = output_set \ {c} /\ todo' = {}
    /\ nb_connections' = nb_connections - 1
    /\ conn' = [conn EXCEPT ![c] = "away"]
    /\ UNCHANGED <<pc, file_open, ready, err, socketVars, stream, log, pos, procVars, faults>>

Drop(c) ==
    /\ At("write") /\ c \in todo /\ conn[c] = "gone" /\ sigpipe = "ignored"
    /\ output_set' = output_set \ {c} /\ todo' = todo \ {c}
    /\ nb_connections' = nb_connections - 1
    /\ conn' = [conn EXCEPT ![c] = "away"]
    /\ UNCHANGED <<pc, file_open, ready, err, socketVars, stream, log, pos, procVars, faults>>

\* SIGPIPE with its default action ends the process.
BrokenPipe(c) ==
    /\ At("write") /\ c \in todo /\ conn[c] = "gone" /\ sigpipe = "default"
    /\ up' = FALSE
    /\ UNCHANGED <<pc, fileVars, socketVars, clientVars, log, pos, sigpipe, faults>>

Written ==
    /\ At("write") /\ todo = {}
    /\ Goto("check")
    /\ UNCHANGED <<fileVars, socketVars, clientVars, log, pos, procVars, faults>>

\* Mutant: the loop ends while one connection is left.
CheckOff ==
    /\ At("check")
    /\ Goto(IF nb_connections > 1 THEN "select" ELSE "close")
    /\ UNCHANGED <<fileVars, socketVars, clientVars, log, pos, procVars, faults>>

Check ==
    /\ At("check")
    /\ Goto(IF nb_connections > 0 THEN "select" ELSE "close")
    /\ UNCHANGED <<fileVars, socketVars, clientVars, log, pos, procVars, faults>>

\* Mutant: after an error the closed listener is waited on again.
CloseAllWaits ==
    /\ At("close")
    /\ file_open' = FALSE /\ output_set' = {} /\ todo' = {}
    /\ IF err THEN sockfd' = "none" /\ queue' = <<>> ELSE UNCHANGED <<sockfd, queue>>
    /\ Goto("wait")
    /\ conn' = [c \in Clients |->
                   IF c \in output_set \/ (err /\ Contains(queue, c)) THEN "away" ELSE conn[c]]
    /\ UNCHANGED <<nb_connections, ready, err, leaked, port, stream, log, pos, procVars, faults>>

\* What is left of the connections, and the file, are closed; after an error
\* the listener as well.
CloseAll ==
    /\ At("close")
    /\ file_open' = FALSE /\ output_set' = {} /\ todo' = {}
    /\ IF err THEN sockfd' = "none" /\ queue' = <<>> /\ Goto("sleep")
              ELSE Goto("wait") /\ UNCHANGED <<sockfd, queue>>
    /\ conn' = [c \in Clients |->
                   IF c \in output_set \/ (err /\ Contains(queue, c)) THEN "away" ELSE conn[c]]
    /\ UNCHANGED <<nb_connections, ready, err, leaked, port, stream, log, pos, procVars, faults>>

\* pthread_kserver: three seconds later, again.
Retry ==
    /\ At("sleep")
    /\ Goto("interfaces")
    /\ UNCHANGED <<fileVars, socketVars, clientVars, log, pos, procVars, faults>>

-----------------------------------------------------------------------------
(* The clients, the kernel and the FTP server                              *)

Connect(c) ==
    /\ up /\ conn[c] = "away"
    /\ sockfd = "listening" /\ Len(queue) < Backlog
    /\ queue' = Append(queue, c)
    /\ conn' = [conn EXCEPT ![c] = "here"]
    /\ stream' = [stream EXCEPT ![c] = <<>>]
    /\ UNCHANGED <<pc, fileVars, sockfd, leaked, port, log, pos, procVars, faults>>

\* The kernel completes connections to a listener that is left behind.
ConnectUnheard(c) ==
    /\ up /\ conn[c] = "away" /\ port = "deaf"
    /\ conn' = [conn EXCEPT ![c] = "forgotten"]
    /\ UNCHANGED <<pc, fileVars, socketVars, stream, log, pos, procVars, faults>>

\* The client stops reading (its buffers are full), reads again, or closes; the
\* server keeps its end of a forgotten connection.
Behave(c) ==
    /\ up
    /\ \/ conn[c] = "here"    /\ conn' = [conn EXCEPT ![c] = "stalled"]
       \/ conn[c] = "stalled" /\ conn' = [conn EXCEPT ![c] = "here"]
       \/ conn[c] \in {"here", "stalled"} /\ conn' = [conn EXCEPT ![c] = "gone"]
       \/ conn[c] = "forgotten" /\ conn' = [conn EXCEPT ![c] = "away"]
    /\ UNCHANGED <<pc, fileVars, socketVars, stream, log, pos, procVars, faults>>

KernelLogs ==
    /\ up /\ log < MaxLog
    /\ log' = log + 1
    /\ UNCHANGED <<pc, fileVars, socketVars, clientVars, pos, procVars, faults>>

FtpMain ==
    /\ up /\ sigpipe = "default"
    /\ sigpipe' = "ignored"
    /\ UNCHANGED <<pc, fileVars, socketVars, clientVars, log, pos, up, faults>>

\* A process that has ended stays so.
Dead == ~up /\ UNCHANGED vars

-----------------------------------------------------------------------------
Init ==
    /\ pc = "interfaces" /\ sockfd = "none" /\ leaked = 0 /\ port = "free" /\ queue = <<>>
    /\ file_open = FALSE /\ output_set = {} /\ nb_connections = 0 /\ todo = {}
    /\ ready = [server |-> FALSE, file |-> FALSE] /\ err = FALSE
    /\ conn = [c \in Clients |-> "away"]
    /\ stream = [c \in Clients |-> <<>>]
    /\ log = 0 /\ pos = 0
    /\ sigpipe = "default" /\ up = TRUE /\ faults = 0

Serve ==
    \/ Interfaces \/ Socket \/ Setup \/ SetupFails \/ Wait \/ WaitFails
    \/ OpenFile \/ OpenFileFails
    \/ Select \/ SelectFails \/ SelectTimeout \/ Accept \/ AcceptFails \/ NothingToAccept
    \/ Read \/ ReadFails \/ NothingToRead
    \/ \E c \in Clients : WriteTo(c) \/ Drop(c) \/ BrokenPipe(c)
    \/ Written \/ Check \/ CloseAll \/ Retry

Next ==
    \/ Serve
    \/ \E c \in Clients : Connect(c) \/ ConnectUnheard(c) \/ Behave(c)
    \/ KernelLogs \/ FtpMain \/ Dead

Spec == Init /\ [][Next]_vars

\* The thread goes on while it can.
FairSpec == Spec /\ WF_vars(Serve)

-----------------------------------------------------------------------------
(* Properties                                                              *)

TypeOK ==
    /\ pc \in {"interfaces", "socket", "setup", "wait", "open", "select", "accept",
               "read", "write", "check", "close", "sleep"}
    /\ sockfd \in {"none", "open", "listening"} /\ port \in {"free", "bound", "deaf"}
    /\ leaked \in Nat /\ nb_connections \in Nat
    /\ file_open \in BOOLEAN /\ err \in BOOLEAN /\ up \in BOOLEAN
    /\ output_set \subseteq Clients /\ todo \subseteq output_set
    /\ ready \in [server : BOOLEAN, file : BOOLEAN]
    /\ queue \in Seq(Clients) /\ Len(queue) <= Backlog
    /\ conn \in [Clients -> {"away", "here", "stalled", "gone", "forgotten"}]
    /\ stream \in [Clients -> Seq(1 .. MaxLog)]
    /\ sigpipe \in {"default", "ignored"}
    /\ pos \in Nat /\ log \in Nat /\ pos <= log /\ log <= MaxLog
    /\ faults \in 0 .. MaxFaults

\* Clients whose connection the thread knows of: it waits, or it is served.
Known == {c \in Clients : conn[c] \in {"here", "stalled", "gone"}}

\* While connections are served, the counter that keeps the loop going is their
\* number.  Outside the loop none is served and the file is closed, and a client
\* that the thread neither serves nor has yet to accept is not left waiting on an
\* open connection: except for those that a failing select forgot, whose
\* descriptors are lost.
Counted ==
    /\ pc \in {"select", "accept", "read", "write", "check"} =>
          nb_connections = Cardinality(output_set)
    /\ ~file_open => output_set = {}
    /\ sockfd = "none" => queue = <<>> /\ output_set = {}
    /\ Known = output_set \cup ToSet(queue)

\* A client sees the log without a gap or a repetition: since it was accepted
\* it has been sent every character read, in order, up to the current one.
NoGaps ==
    \A c \in output_set :
       LET s == stream[c]
       IN  /\ \A i \in 1 .. Len(s) - 1 : s[i + 1] = s[i] + 1
           /\ s # <<>> => Last(s) = IF c \in todo THEN pos - 1 ELSE pos

\* A connection that is served is only ever given up because the client has gone,
\* because accept or read failed, or, without being closed, because select failed:
\* never by the ordinary end of the loop.
ClosesOnlyGone ==
    [][ up /\ up' =>
          \A c \in output_set \ output_set' :
             conn[c] = "gone" \/ err \/ conn'[c] = "forgotten" ]_vars

\* A client that reads is sent what the kernel logs, unless it goes, is
\* disconnected or forgotten, some client does not read, or the process ends.
Delivers ==
    \A c \in Clients, n \in 1 .. MaxLog :
       (c \in output_set /\ conn[c] = "here" /\ pos < n /\ n <= log) ~>
           \/ Contains(stream[c], n) \/ conn[c] \in {"gone", "away", "forgotten"} \/ ~up
           \/ \E d \in output_set : conn[d] = "stalled"

\* After an error the server comes back to its port, unless the sockets it has
\* forgotten use up the descriptors: a few errors in a row do, or one that leaves
\* a socket on the port, since every attempt to bind then loses one more.
Recovers == sockfd # "listening" ~> (sockfd = "listening" \/ ~up \/ leaked = MaxFds)
=============================================================================
