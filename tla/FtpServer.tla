----------------------------- MODULE FtpServer -----------------------------
(***************************************************************************)
(* The FTP server of plugin_server (source/ftp/ftp.c, source/ftp/cmd.c):   *)
(* one acceptor thread, one thread per connected client, and the process's *)
(* descriptor table, which all of them share without a lock.  Descriptors  *)
(* are plain integers: the lowest free number is handed out again as soon  *)
(* as it is closed, so a number kept after its close denotes whatever was  *)
(* opened next, by whatever thread.                                        *)
(*                                                                         *)
(* Every system call that reads or changes the descriptor table is a step  *)
(* of its own.  File contents, paths and addresses are abstracted: a call  *)
(* into the file system or to the peer may succeed or fail.                *)
(***************************************************************************)
EXTENDS Integers, FiniteSets

CONSTANTS
    Sessions,   \* slots for ftp_thread instances: the clients served at once
    Server,     \* the acceptor thread, owner of the listening socket
    Fds,        \* descriptor numbers free when the server starts
    Commands,   \* the commands the clients send
    Faults,     \* the rare events of this instance, see AllFaults
    MaxCommands \* bound: how many commands are sent in all, or Unlimited

NoFd == -1
Unlimited == -1

AllCommands ==
    {"SIMPLE", "PASV", "PORT", "LIST", "RETR", "STOR", "APPE", "QUIT", "KILL"}

\* "hangup": clients go away without QUIT; "bind": bind or listen fails on the
\* server socket; "accept": its accept fails with descriptors to spare;
\* "thread": pthread_create fails; "exit": getifaddrs fails; "send": a reply
\* cannot be written although the connection is open.
AllFaults == {"hangup", "bind", "accept", "thread", "exit", "send"}

ASSUME FdsAssumption == Fds \subseteq Nat \ {0}
ASSUME ServerAssumption == Server \notin Sessions
ASSUME CommandsAssumption == Commands \subseteq AllCommands
ASSUME FaultsAssumption == Faults \subseteq AllFaults
ASSUME MaxCommandsAssumption == MaxCommands \in Nat \cup {Unlimited}

VARIABLES
    fdt,         \* the process's descriptor table
    active_fd,   \* ftp_env.active_fd, per session
    passive_fd,  \* ftp_env.passive_fd
    data_fd,     \* ftp_env.data_fd
    sin_port,    \* ftp_env.data_addr.sin_port # 0
    pc,          \* where the session's thread is
    cmd,         \* the command it executes
    local_fd,    \* the handler's local descriptor: fd, or the one of DIR* dir
    rc,          \* the saved result of ftp_perror: TRUE when it was 0
    replied,     \* the replies the current command has sent
    gone,        \* the client has closed its side of every connection
    srv,         \* where the acceptor thread is
    srvfd,       \* ftp_serve's srvfd
    up,          \* the process is alive
    budget       \* bound: how many commands may still be sent

envVars     == <<active_fd, passive_fd, data_fd, sin_port>>
handlerVars == <<cmd, local_fd, rc>>
serverVars  == <<srv, srvfd, up, budget>>
vars == <<fdt, envVars, pc, handlerVars, replied, gone, serverVars>>

-----------------------------------------------------------------------------
(* The descriptor table.                                                   *)

SocketKinds == {"listener", "control", "passive", "accepted", "port"}
FileKinds   == {"rfile", "wfile", "dir"}
Kinds       == SocketKinds \cup FileKinds

\* A socket is "new" until bind+listen or connect; files are "open" at once.
Entry(kind, owner, st) == [kind |-> kind, owner |-> owner, st |-> st]
Free  == Entry("free", Server, "new")
Entries == [kind : Kinds, owner : Sessions \cup {Server},
            st : {"new", "listening", "open"}] \cup {Free}

FreeFds == {f \in Fds : fdt[f] = Free}
Lowest(f) == f \in FreeFds /\ \A g \in FreeFds : f <= g

IsOpen(f)      == f \in Fds /\ fdt[f] # Free
IsNewSocket(f) == f \in Fds /\ fdt[f].kind \in SocketKinds /\ fdt[f].st = "new"
IsListening(f) == f \in Fds /\ fdt[f].st = "listening"
IsStream(f)    == f \in Fds /\ fdt[f].kind \in SocketKinds /\ fdt[f].st = "open"
Readable(f)    == IsStream(f) \/ (f \in Fds /\ fdt[f].kind = "rfile")
Writable(f)    == IsStream(f) \/ (f \in Fds /\ fdt[f].kind = "wfile")

\* close(2): frees the number; on a number that is not open it fails.
Close(f) == fdt' = [g \in Fds |-> IF g = f THEN Free ELSE fdt[g]]

\* The descriptor f becomes the entry e.
Open(f, e) == fdt' = [fdt EXCEPT ![f] = e]

-----------------------------------------------------------------------------
(* Replies and the end of a handler.                                       *)

\* One more final reply (2xx to 5xx) on top of the replies r.
Noted(r) == IF r \in {"none", "prelim"} THEN "final" ELSE "twice"

Goto(s, label) == pc' = [pc EXCEPT ![s] = label]

\* ftp_active_printf of a final reply: ok says whether the write succeeded.
Say(s, ok) ==
    /\ IF ok THEN Writable(active_fd[s])
             ELSE "send" \in Faults \/ ~Writable(active_fd[s])
    /\ replied' = [replied EXCEPT ![s] = IF ok THEN Noted(@) ELSE @]

\* The handler returns to ftp_thread: 0 goes on, anything else ends the loop.
\* Its locals are dead.
Return(s, ok) ==
    /\ Goto(s, IF ok THEN "ready" ELSE "exit_active")
    /\ cmd' = [cmd EXCEPT ![s] = "none"]
    /\ local_fd' = [local_fd EXCEPT ![s] = NoFd]
    /\ rc' = [rc EXCEPT ![s] = TRUE]

\* return ftp_active_printf(...), or return ftp_perror(...).
Answer(s) == \E ok \in BOOLEAN : Say(s, ok) /\ Return(s, ok)

\* err = ftp_perror(...), to be returned after the cleanup at label.
AnswerThen(s, label) ==
    \E ok \in BOOLEAN :
        /\ Say(s, ok)
        /\ rc' = [rc EXCEPT ![s] = ok]
        /\ Goto(s, label)
        /\ UNCHANGED <<cmd, local_fd>>

Executing(s, c) == pc[s] = "command" /\ cmd[s] = c

\* Every handler that only answers last: ftp_active_printf or ftp_perror.
Reply(s) ==
    /\ pc[s] = "reply"
    /\ Answer(s)
    /\ UNCHANGED <<fdt, envVars, gone, serverVars>>

-----------------------------------------------------------------------------
(* Commands that do not touch the descriptor table.                        *)

\* CDUP, CWD, DELE, MKD, NOOP, PWD, REST, RMD, RNFR, RNTO, SIZE, SYST, TYPE,
\* USER, MTRW, the unavailable and the unknown: one reply.
Simple(s) ==
    /\ Executing(s, "SIMPLE")
    /\ Answer(s)
    /\ UNCHANGED <<fdt, envVars, gone, serverVars>>

\* ftp_cmd_QUIT: the 221 may be lost, the session ends in either case.
Quit(s) ==
    /\ Executing(s, "QUIT")
    /\ \E ok \in BOOLEAN : Say(s, ok)
    /\ Return(s, FALSE)
    /\ UNCHANGED <<fdt, envVars, gone, serverVars>>

\* exit: the process ends, with every thread and descriptor.
Exit ==
    /\ up' = FALSE
    /\ fdt' = [f \in Fds |-> Free]
    /\ active_fd' = [s \in Sessions |-> NoFd]
    /\ passive_fd' = [s \in Sessions |-> NoFd]
    /\ data_fd' = [s \in Sessions |-> NoFd]
    /\ sin_port' = [s \in Sessions |-> FALSE]
    /\ pc' = [s \in Sessions |-> "idle"]
    /\ cmd' = [s \in Sessions |-> "none"]
    /\ local_fd' = [s \in Sessions |-> NoFd]
    /\ rc' = [s \in Sessions |-> TRUE]
    /\ replied' = [s \in Sessions |-> "none"]
    /\ gone' = [s \in Sessions |-> FALSE]
    /\ srv' = "sleep"
    /\ srvfd' = NoFd
    /\ UNCHANGED budget

\* ftp_cmd_KILL.
Kill(s) == Executing(s, "KILL") /\ Exit

-----------------------------------------------------------------------------
(* ftp_cmd_PASV and ftp_cmd_PORT.                                          *)

\* getsockname on the control connection, then close the old passive socket.
PasvClose(s) ==
    /\ Executing(s, "PASV")
    /\ IF passive_fd[s] > 0 THEN Close(passive_fd[s]) ELSE UNCHANGED fdt
    /\ Goto(s, "pasv_socket")
    /\ UNCHANGED <<envVars, handlerVars, replied, gone, serverVars>>

\* getsockname failed: nothing was closed or opened.
PasvRefused(s) ==
    /\ Executing(s, "PASV")
    /\ Answer(s)
    /\ UNCHANGED <<fdt, envVars, gone, serverVars>>

\* Mutant: a raw system call's -errno is kept in passive_fd.
PasvSocketErrno(s) ==
    /\ pc[s] = "pasv_socket"
    /\ \/ \E f \in Fds :
             /\ Lowest(f)
             /\ Open(f, Entry("passive", s, "new"))
             /\ passive_fd' = [passive_fd EXCEPT ![s] = f]
             /\ Goto(s, "pasv_bind")
       \/ /\ FreeFds = {}
          /\ passive_fd' = [passive_fd EXCEPT ![s] = -24]
          /\ Goto(s, "reply")
          /\ UNCHANGED fdt
    /\ UNCHANGED <<active_fd, data_fd, sin_port, handlerVars, replied, gone,
                   serverVars>>

\* socket, or -1 in passive_fd when the table is full.
PasvSocket(s) ==
    /\ pc[s] = "pasv_socket"
    /\ \/ \E f \in Fds :
             /\ Lowest(f)
             /\ Open(f, Entry("passive", s, "new"))
             /\ passive_fd' = [passive_fd EXCEPT ![s] = f]
             /\ Goto(s, "pasv_bind")
       \/ /\ FreeFds = {}
          /\ passive_fd' = [passive_fd EXCEPT ![s] = NoFd]
          /\ Goto(s, "reply")
          /\ UNCHANGED fdt
    /\ UNCHANGED <<active_fd, data_fd, sin_port, handlerVars, replied, gone,
                   serverVars>>

\* bind, listen and getsockname: the socket listens and 227 is sent ...
PasvListen(s) ==
    /\ pc[s] = "pasv_bind"
    /\ IsNewSocket(passive_fd[s])
    /\ Open(passive_fd[s], [fdt[passive_fd[s]] EXCEPT !.st = "listening"])
    /\ Goto(s, "reply")
    /\ UNCHANGED <<envVars, handlerVars, replied, gone, serverVars>>

\* Mutant: the failing PASV forgets the number before it closes it.
PasvFailForgets(s) ==
    /\ pc[s] = "pasv_bind"
    /\ AnswerThen(s, "pasv_abort")
    /\ passive_fd' = [passive_fd EXCEPT ![s] = NoFd]
    /\ UNCHANGED <<fdt, active_fd, data_fd, sin_port, gone, serverVars>>

\* ... or one of them fails: ftp_perror first, then close.
PasvFail(s) ==
    /\ pc[s] = "pasv_bind"
    /\ AnswerThen(s, "pasv_abort")
    /\ UNCHANGED <<fdt, envVars, gone, serverVars>>

\* passive_fd keeps the number it closed.
PasvAbort(s) ==
    /\ pc[s] = "pasv_abort"
    /\ Close(passive_fd[s])
    /\ Return(s, rc[s])
    /\ UNCHANGED <<envVars, replied, gone, serverVars>>

\* ftp_cmd_PORT: the socket call overwrites data_fd, whatever it held; a port
\* of 0 leaves the session in passive mode.
Port(s) ==
    /\ Executing(s, "PORT")
    /\ \/ \E f \in Fds, port \in BOOLEAN :
             /\ Lowest(f)
             /\ Open(f, Entry("port", s, "new"))
             /\ data_fd' = [data_fd EXCEPT ![s] = f]
             /\ sin_port' = [sin_port EXCEPT ![s] = port]
       \/ /\ FreeFds = {}
          /\ data_fd' = [data_fd EXCEPT ![s] = NoFd]
          /\ UNCHANGED <<fdt, sin_port>>
    /\ Goto(s, "reply")
    /\ UNCHANGED <<active_fd, passive_fd, handlerVars, replied, gone,
                   serverVars>>

\* The argument does not parse: 501.
PortUsage(s) ==
    /\ Executing(s, "PORT")
    /\ Answer(s)
    /\ UNCHANGED <<fdt, envVars, gone, serverVars>>

-----------------------------------------------------------------------------
(* The transfers: LIST, RETR, STOR and APPE.                               *)

Transfers == {"LIST", "RETR", "STOR"}

LocalKind(c) == CASE c = "LIST" -> "dir" [] c = "RETR" -> "rfile"
                  [] c = "STOR" -> "wfile"

\* A missing argument, a failing stat, open or opendir: one reply.
Refuse(s) ==
    /\ pc[s] = "command" /\ cmd[s] \in Transfers \cup {"APPE"}
    /\ Answer(s)
    /\ UNCHANGED <<fdt, envVars, gone, serverVars>>

\* ftp_cmd_APPE finds the offset and calls ftp_cmd_STOR.
Appe(s) ==
    /\ Executing(s, "APPE")
    /\ cmd' = [cmd EXCEPT ![s] = "STOR"]
    /\ UNCHANGED <<fdt, envVars, pc, local_fd, rc, replied, gone, serverVars>>

\* open or opendir.  LIST opens the data connection next, the others send 150.
OpenLocal(s) ==
    /\ pc[s] = "command" /\ cmd[s] \in Transfers
    /\ \E f \in Fds :
         /\ Lowest(f)
         /\ Open(f, Entry(LocalKind(cmd[s]), s, "open"))
         /\ local_fd' = [local_fd EXCEPT ![s] = f]
    /\ Goto(s, IF cmd[s] = "LIST" THEN "data_open" ELSE "mark")
    /\ UNCHANGED <<envVars, cmd, rc, replied, gone, serverVars>>

\* STOR's lseek to the REST offset fails.
SeekFail(s) ==
    /\ pc[s] = "mark" /\ cmd[s] = "STOR"
    /\ AnswerThen(s, "abort_file")
    /\ UNCHANGED <<fdt, envVars, gone, serverVars>>

\* "150 Opening data transfer": LIST ignores the result, RETR and STOR give up.
Mark(s) ==
    /\ pc[s] = "mark"
    /\ \/ /\ Writable(active_fd[s])
          /\ replied' = [replied EXCEPT ![s] = IF @ = "none" THEN "prelim"
                                               ELSE "twice"]
          /\ Goto(s, IF cmd[s] = "LIST" THEN "transfer" ELSE "data_open")
          /\ UNCHANGED rc
       \/ /\ "send" \in Faults \/ ~Writable(active_fd[s])
          /\ IF cmd[s] = "LIST"
             THEN Goto(s, "transfer") /\ UNCHANGED rc
             ELSE Goto(s, "abort_file") /\ rc' = [rc EXCEPT ![s] = FALSE]
          /\ UNCHANGED replied
    /\ UNCHANGED <<fdt, envVars, cmd, local_fd, gone, serverVars>>

DataOpened(s) == Goto(s, IF cmd[s] = "LIST" THEN "mark" ELSE "transfer")

\* ftp_data_open after PORT: connect on data_fd.
Connect(s) ==
    /\ pc[s] = "data_open" /\ sin_port[s]
    /\ IsNewSocket(data_fd[s])
    /\ Open(data_fd[s], [fdt[data_fd[s]] EXCEPT !.st = "open"])
    /\ DataOpened(s)
    /\ UNCHANGED <<envVars, handlerVars, replied, gone, serverVars>>

\* ftp_data_open after PASV: accept on passive_fd blocks, for ever if the
\* client does not connect.
AcceptData(s) ==
    /\ pc[s] = "data_open" /\ ~sin_port[s]
    /\ IsListening(passive_fd[s])
    /\ Goto(s, "data_accept")
    /\ UNCHANGED <<fdt, envVars, handlerVars, replied, gone, serverVars>>

\* The client connects: the new connection overwrites data_fd.
DataConnected(s) ==
    /\ pc[s] = "data_accept"
    /\ \E f \in Fds :
         /\ Lowest(f)
         /\ Open(f, Entry("accepted", s, "open"))
         /\ data_fd' = [data_fd EXCEPT ![s] = f]
    /\ DataOpened(s)
    /\ UNCHANGED <<active_fd, passive_fd, sin_port, handlerVars, replied, gone,
                   serverVars>>

\* Mutant: the data connection that was not opened is closed as well.
GiveUpClosing(s) ==
    IF cmd[s] = "LIST" THEN Answer(s) ELSE AnswerThen(s, "abort_data")

\* What ftp_data_open's failure makes of a transfer: 550, and the file closed;
\* LIST returns without closedir.
GiveUp(s) == IF cmd[s] = "LIST" THEN Answer(s) ELSE AnswerThen(s, "abort_file")

\* connect fails, or there is no passive socket to accept on.
DataRefused(s) ==
    /\ pc[s] = "data_open"
    /\ \/ sin_port[s] /\ UNCHANGED data_fd
       \/ /\ ~sin_port[s] /\ ~IsListening(passive_fd[s])
          /\ data_fd' = [data_fd EXCEPT ![s] = NoFd]
    /\ GiveUp(s)
    /\ UNCHANGED <<fdt, active_fd, passive_fd, sin_port, gone, serverVars>>

\* accept fails while it waits, for want of a descriptor for instance.
AcceptDataFail(s) ==
    /\ pc[s] = "data_accept"
    /\ data_fd' = [data_fd EXCEPT ![s] = NoFd]
    /\ GiveUp(s)
    /\ UNCHANGED <<fdt, active_fd, passive_fd, sin_port, gone, serverVars>>

\* The transfer loop.  A block copied, or an entry listed (whose write result
\* nobody reads), changes nothing here; neither does a failing recv of STOR,
\* whose -1 becomes SIZE_MAX and equals the result of the write it causes.
\* Only the end of the directory or file, or of the client's data, ends it ...
TransferEnd(s) ==
    /\ pc[s] = "transfer"
    /\ \/ cmd[s] = "LIST" /\ Goto(s, "fin_data")
       \/ cmd[s] = "RETR" /\ Readable(local_fd[s]) /\ Goto(s, "fin_file")
       \/ cmd[s] = "STOR" /\ Readable(data_fd[s]) /\ Goto(s, "truncate")
    /\ UNCHANGED <<fdt, envVars, handlerVars, replied, gone, serverVars>>

\* ... or a failing read or write of RETR, or write of STOR.
TransferFail(s) ==
    /\ pc[s] = "transfer"
    /\ cmd[s] = "RETR" \/ (cmd[s] = "STOR" /\ Readable(data_fd[s]))
    /\ AnswerThen(s, "abort_data")
    /\ UNCHANGED <<fdt, envVars, gone, serverVars>>

\* STOR's ftruncate.
Truncate(s) ==
    /\ pc[s] = "truncate"
    /\ Writable(local_fd[s])
    /\ Goto(s, "fin_file")
    /\ UNCHANGED <<fdt, envVars, handlerVars, replied, gone, serverVars>>

TruncateFail(s) ==
    /\ pc[s] = "truncate"
    /\ AnswerThen(s, "abort_data")
    /\ UNCHANGED <<fdt, envVars, gone, serverVars>>

\* Mutant: the file is closed in place of the data connection.
AbortDataClosesFile(s) ==
    /\ pc[s] = "abort_data"
    /\ Close(local_fd[s])
    /\ Goto(s, "abort_file")
    /\ UNCHANGED <<envVars, handlerVars, replied, gone, serverVars>>

\* The error exits: ftp_data_close, whose result nobody reads, then close(fd).
AbortData(s) ==
    /\ pc[s] = "abort_data"
    /\ Close(data_fd[s])
    /\ Goto(s, "abort_file")
    /\ UNCHANGED <<envVars, handlerVars, replied, gone, serverVars>>

\* Mutant: the error exit keeps the file open.
AbortFileLeaks(s) ==
    /\ pc[s] = "abort_file"
    /\ Return(s, rc[s])
    /\ UNCHANGED <<fdt, envVars, replied, gone, serverVars>>

\* Mutant: the error exit falls through to the final 226.
AbortFileAnswers(s) ==
    /\ pc[s] = "abort_file"
    /\ Close(local_fd[s])
    /\ Answer(s)
    /\ UNCHANGED <<envVars, gone, serverVars>>

AbortFile(s) ==
    /\ pc[s] = "abort_file"
    /\ Close(local_fd[s])
    /\ Return(s, rc[s])
    /\ UNCHANGED <<envVars, replied, gone, serverVars>>

\* The normal exit of RETR and STOR closes the file before the connection.
FinFile(s) ==
    /\ pc[s] = "fin_file"
    /\ Close(local_fd[s])
    /\ Goto(s, "fin_data")
    /\ UNCHANGED <<envVars, handlerVars, replied, gone, serverVars>>

\* ftp_data_close: data_fd keeps the number.  RETR and STOR answer 226 or 550
\* next; LIST closes the directory, after the 550 when the close failed.
FinData(s) ==
    /\ pc[s] = "fin_data"
    /\ Close(data_fd[s])
    /\ \/ cmd[s] # "LIST" /\ Goto(s, "reply")
       \/ cmd[s] = "LIST" /\ IsOpen(data_fd[s]) /\ Goto(s, "fin_dir")
       \/ cmd[s] = "LIST" /\ Goto(s, "fin_failed")
    /\ UNCHANGED <<envVars, handlerVars, replied, gone, serverVars>>

FinFailed(s) ==
    /\ pc[s] = "fin_failed"
    /\ AnswerThen(s, "abort_file")
    /\ UNCHANGED <<fdt, envVars, gone, serverVars>>

FinDir(s) ==
    /\ pc[s] = "fin_dir"
    /\ Close(local_fd[s])
    /\ Goto(s, "reply")
    /\ UNCHANGED <<envVars, handlerVars, replied, gone, serverVars>>

-----------------------------------------------------------------------------
(* ftp_thread around the commands.                                         *)

\* ftp_greet: both 220 lines in one write.
Greet(s) ==
    /\ pc[s] = "greet"
    /\ \E ok \in BOOLEAN :
         Say(s, ok) /\ Goto(s, IF ok THEN "ready" ELSE "exit_active")
    /\ UNCHANGED <<fdt, envVars, handlerVars, gone, serverVars>>

\* ftp_readline delivers a line, ftp_execute finds its handler.
Receive(s) ==
    /\ pc[s] = "ready"
    /\ Readable(active_fd[s])
    /\ ~gone[s]
    /\ budget # 0
    /\ budget' = IF budget = Unlimited THEN Unlimited ELSE budget - 1
    /\ \E c \in Commands : cmd' = [cmd EXCEPT ![s] = c]
    /\ replied' = [replied EXCEPT ![s] = "none"]
    /\ Goto(s, "command")
    /\ UNCHANGED <<fdt, envVars, local_fd, rc, gone, srv, srvfd, up>>

\* Mutant: ftp_readline takes the end of the connection for no byte yet.
DisconnectedOnError(s) ==
    /\ pc[s] = "ready"
    /\ ~Readable(active_fd[s])
    /\ Goto(s, "exit_active")
    /\ UNCHANGED <<fdt, envVars, handlerVars, replied, gone, serverVars>>

\* ftp_readline meets the end of the connection or an error.
Disconnected(s) ==
    /\ pc[s] = "ready"
    /\ Goto(s, "exit_active")
    /\ UNCHANGED <<fdt, envVars, handlerVars, replied, gone, serverVars>>

CloseIfPositive(f) == IF f > 0 THEN Close(f) ELSE UNCHANGED fdt

ExitActive(s) ==
    /\ pc[s] = "exit_active"
    /\ CloseIfPositive(active_fd[s])
    /\ Goto(s, "exit_passive")
    /\ UNCHANGED <<envVars, handlerVars, replied, gone, serverVars>>

ExitPassive(s) ==
    /\ pc[s] = "exit_passive"
    /\ CloseIfPositive(passive_fd[s])
    /\ Goto(s, "exit_data")
    /\ UNCHANGED <<envVars, handlerVars, replied, gone, serverVars>>

\* The thread ends: its ftp_env is gone, the slot can serve another client.
ExitData(s) ==
    /\ pc[s] = "exit_data"
    /\ CloseIfPositive(data_fd[s])
    /\ Goto(s, "idle")
    /\ active_fd' = [active_fd EXCEPT ![s] = NoFd]
    /\ passive_fd' = [passive_fd EXCEPT ![s] = NoFd]
    /\ data_fd' = [data_fd EXCEPT ![s] = NoFd]
    /\ sin_port' = [sin_port EXCEPT ![s] = FALSE]
    /\ replied' = [replied EXCEPT ![s] = "none"]
    /\ gone' = [gone EXCEPT ![s] = FALSE]
    /\ UNCHANGED <<handlerVars, serverVars>>

\* The client closes its connections, whatever the server is doing; nothing it
\* sent is left to be read.
HangUp(s) ==
    /\ "hangup" \in Faults
    /\ pc[s] # "idle" /\ ~gone[s]
    /\ gone' = [gone EXCEPT ![s] = TRUE]
    /\ UNCHANGED <<fdt, envVars, pc, handlerVars, replied, serverVars>>

-----------------------------------------------------------------------------
(* The acceptor thread: ftp_main's loop around ftp_serve.                  *)

\* getifaddrs failed.
SrvExit ==
    /\ "exit" \in Faults
    /\ srv = "sleep"
    /\ Exit

\* Without a network interface or a free descriptor ftp_serve returns, and
\* ftp_main sleeps and tries again.
SrvRetry == srv = "sleep" /\ UNCHANGED vars

\* socket.
SrvSocket ==
    /\ srv = "sleep"
    /\ \E f \in Fds :
         /\ Lowest(f)
         /\ Open(f, Entry("listener", Server, "new"))
         /\ srvfd' = f
    /\ srv' = "bind"
    /\ UNCHANGED <<envVars, pc, handlerVars, replied, gone, up, budget>>

\* setsockopt, bind and listen.
SrvListen ==
    /\ srv = "bind"
    /\ IsNewSocket(srvfd)
    /\ Open(srvfd, [fdt[srvfd] EXCEPT !.st = "listening"])
    /\ srv' = "accept"
    /\ UNCHANGED <<envVars, pc, handlerVars, replied, gone, srvfd, up, budget>>

\* One of them failed: ftp_serve returns -1 and forgets srvfd.
SrvBindFail ==
    /\ srv = "bind"
    /\ "bind" \in Faults \/ ~IsNewSocket(srvfd)
    /\ srvfd' = NoFd
    /\ srv' = "sleep"
    /\ UNCHANGED <<fdt, envVars, pc, handlerVars, replied, gone, up, budget>>

\* accept blocks on a listening socket and fails on anything else.
SrvAccept ==
    /\ srv = "accept"
    /\ srv' = IF IsListening(srvfd) THEN "waiting" ELSE "close"
    /\ UNCHANGED <<fdt, envVars, pc, handlerVars, replied, gone, srvfd, up, budget>>

\* A client connects and gets its thread, in the state ftp_thread sets up.
SrvConnected(s) ==
    /\ srv = "waiting"
    /\ pc[s] = "idle"
    /\ \E f \in Fds :
         /\ Lowest(f)
         /\ Open(f, Entry("control", s, "open"))
         /\ active_fd' = [active_fd EXCEPT ![s] = f]
    /\ Goto(s, "greet")
    /\ srv' = "accept"
    /\ UNCHANGED <<passive_fd, data_fd, sin_port, handlerVars, replied, gone,
                   srvfd, up, budget>>

\* pthread_create fails and nobody looks: the connection stays open.
SrvThreadLost ==
    /\ "thread" \in Faults
    /\ srv = "waiting"
    /\ \E f \in Fds :
         Lowest(f) /\ Open(f, Entry("control", Server, "open"))
    /\ srv' = "accept"
    /\ UNCHANGED <<envVars, pc, handlerVars, replied, gone, srvfd, up, budget>>

\* accept fails, for want of a descriptor for instance.
SrvAcceptFail ==
    /\ srv = "waiting"
    /\ FreeFds = {} \/ "accept" \in Faults
    /\ srv' = "close"
    /\ UNCHANGED <<fdt, envVars, pc, handlerVars, replied, gone, srvfd, up, budget>>

\* return close(srvfd), and ftp_main's sleep(3).
SrvClose ==
    /\ srv = "close"
    /\ Close(srvfd)
    /\ srvfd' = NoFd
    /\ srv' = "sleep"
    /\ UNCHANGED <<envVars, pc, handlerVars, replied, gone, up, budget>>

-----------------------------------------------------------------------------
Init ==
    /\ fdt = [f \in Fds |-> Free]
    /\ active_fd = [s \in Sessions |-> NoFd]
    /\ passive_fd = [s \in Sessions |-> NoFd]
    /\ data_fd = [s \in Sessions |-> NoFd]
    /\ sin_port = [s \in Sessions |-> FALSE]
    /\ pc = [s \in Sessions |-> "idle"]
    /\ cmd = [s \in Sessions |-> "none"]
    /\ local_fd = [s \in Sessions |-> NoFd]
    /\ rc = [s \in Sessions |-> TRUE]
    /\ replied = [s \in Sessions |-> "none"]
    /\ gone = [s \in Sessions |-> FALSE]
    /\ srv = "sleep"
    /\ srvfd = NoFd
    /\ up = TRUE
    /\ budget = MaxCommands

Pasv(s) == PasvClose(s) \/ PasvRefused(s) \/ PasvSocket(s) \/ PasvListen(s)
           \/ PasvFail(s) \/ PasvAbort(s)

Transfer(s) ==
    \/ Refuse(s) \/ Appe(s) \/ OpenLocal(s) \/ SeekFail(s) \/ Mark(s)
    \/ Connect(s) \/ AcceptData(s) \/ DataRefused(s)
    \/ TransferEnd(s) \/ TransferFail(s) \/ Truncate(s) \/ TruncateFail(s)
    \/ AbortData(s) \/ AbortFile(s)
    \/ FinFile(s) \/ FinData(s) \/ FinFailed(s) \/ FinDir(s)

\* What the session's thread does without waiting for its client.
ThreadStep(s) ==
    \/ Greet(s) \/ Disconnected(s)
    \/ Reply(s) \/ Simple(s) \/ Quit(s) \/ Kill(s)
    \/ Pasv(s) \/ Port(s) \/ PortUsage(s) \/ Transfer(s)
    \/ ExitActive(s) \/ ExitPassive(s) \/ ExitData(s)

\* What needs the client.
ClientStep(s) ==
    Receive(s) \/ DataConnected(s) \/ AcceptDataFail(s) \/ HangUp(s)

ServerStep ==
    \/ SrvExit \/ SrvRetry \/ SrvSocket \/ SrvListen \/ SrvBindFail \/ SrvAccept
    \/ \E s \in Sessions : SrvConnected(s)
    \/ SrvThreadLost \/ SrvAcceptFail \/ SrvClose

\* After exit nothing happens any more.
Dead == ~up /\ UNCHANGED vars

Next ==
    \/ up /\ (ServerStep \/ \E s \in Sessions : ThreadStep(s) \/ ClientStep(s))
    \/ Dead

Spec == Init /\ [][Next]_vars

\* The threads are scheduled; nothing is assumed of a client, except that one
\* that has hung up has an end of file waiting in each of its connections.
Fairness ==
    /\ \A s \in Sessions : WF_vars(up /\ gone[s] /\ ThreadStep(s))
    /\ WF_vars(up /\ (SrvSocket \/ SrvListen \/ SrvAccept \/ SrvClose))

FairSpec == Spec /\ Fairness

-----------------------------------------------------------------------------
(* Properties.                                                             *)

Labels ==
    {"idle", "greet", "ready", "command", "reply", "pasv_socket", "pasv_bind",
     "pasv_abort", "mark", "data_open", "data_accept", "transfer", "truncate",
     "abort_data", "abort_file", "fin_file", "fin_data", "fin_failed",
     "fin_dir", "exit_active", "exit_passive", "exit_data"}

\* The types of the variables: above all, every descriptor variable of ftp_env
\* and of a handler holds -1 or a number of the table.
TypeOK ==
    /\ fdt \in [Fds -> Entries]
    /\ active_fd \in [Sessions -> Fds \cup {NoFd}]
    /\ passive_fd \in [Sessions -> Fds \cup {NoFd}]
    /\ data_fd \in [Sessions -> Fds \cup {NoFd}]
    /\ sin_port \in [Sessions -> BOOLEAN]
    /\ pc \in [Sessions -> Labels]
    /\ cmd \in [Sessions -> AllCommands \cup {"none"}]
    /\ local_fd \in [Sessions -> Fds \cup {NoFd}]
    /\ rc \in [Sessions -> BOOLEAN]
    /\ replied \in [Sessions -> {"none", "prelim", "final", "twice"}]
    /\ gone \in [Sessions -> BOOLEAN]
    /\ srv \in {"sleep", "bind", "accept", "waiting", "close"}
    /\ srvfd \in Fds \cup {NoFd}
    /\ up \in BOOLEAN
    /\ budget \in Nat \cup {Unlimited}

\* Where a thread may be while the descriptor f, opened by s as kind, is open,
\* and the variable that still holds f then.
Holds(s, kind, f) ==
    CASE kind = "control" -> /\ active_fd[s] = f
                             /\ pc[s] \notin {"idle", "exit_passive", "exit_data"}
      [] kind = "passive" -> /\ passive_fd[s] = f
                             /\ pc[s] \notin {"idle", "pasv_socket", "exit_data"}
      [] kind = "accepted" -> /\ data_fd[s] = f
                              /\ \/ pc[s] \in {"transfer", "truncate", "abort_data",
                                              "fin_file", "fin_data"}
                                 \/ pc[s] = "mark" /\ cmd[s] = "LIST"
      [] kind \in {"rfile", "wfile"} ->
            /\ local_fd[s] = f
            /\ cmd[s] \in {"RETR", "STOR"}
            /\ pc[s] \in {"mark", "data_open", "data_accept", "transfer",
                         "truncate", "abort_data", "abort_file", "fin_file"}
      [] OTHER -> TRUE

\* No error path of ftp_thread or of a handler loses a control connection, a
\* passive socket, an accepted data connection or a file: while one is open,
\* the thread that opened it holds its number and is at a place from which it
\* will close it.  True with any number of clients, although sessions close
\* each other's descriptors through stale numbers.  (A PORT socket that is
\* overwritten and LIST's directory when its data connection fails do leak.)
Accounted ==
    \A f \in Fds : fdt[f].owner \in Sessions => Holds(fdt[f].owner, fdt[f].kind, f)

Owned(f, s, kinds) == f \in Fds /\ fdt[f].owner = s /\ fdt[f].kind \in kinds

\* ftp_data_close closes a data connection of its own session, or nothing.
ClosesOwnData ==
    \A s \in Sessions :
        pc[s] \in {"abort_data", "fin_data"} /\ IsOpen(data_fd[s])
            => Owned(data_fd[s], s, {"accepted", "port"})

\* The descriptors a thread relies on still denote what it opened: the control
\* connection until the teardown, both ends of a transfer while it runs, and
\* the listening socket, whatever numbers earlier commands left behind.
Intact ==
    /\ \A s \in Sessions :
        /\ pc[s] \notin {"idle", "exit_passive", "exit_data"}
              => Owned(active_fd[s], s, {"control"})
        /\ pc[s] \in {"transfer", "truncate", "abort_data"}
              => Owned(data_fd[s], s, {"accepted", "port"})
        /\ pc[s] \in {"transfer", "truncate", "abort_file", "fin_file", "fin_dir"}
              => Owned(local_fd[s], s, FileKinds)
    /\ srv \in {"accept", "waiting"} => Owned(srvfd, Server, {"listener"})

\* A session whose client has hung up comes to an end, unless it waits in
\* ftp_data_open's accept, which has no timeout.
TornDown ==
    \A s \in Sessions :
        gone[s] ~> (pc[s] \in {"idle", "data_accept"} \/ ~up)

\* The client's view of a session, for FtpProtocol.
Phase(s) ==
    CASE pc[s] = "idle" -> "closed"
      [] pc[s] = "greet" -> "greeting"
      [] pc[s] \in {"exit_active", "exit_passive", "exit_data"} -> "leaving"
      [] pc[s] = "ready" -> IF replied[s] = "final" THEN "await" ELSE "silent"
      [] OTHER -> replied[s]

phase == [s \in Sessions |-> Phase(s)]

Protocol == INSTANCE FtpProtocol WITH phase <- phase

\* A command gets exactly one final reply before the next one is read, and at
\* most one mark before that reply, on every path of every handler.
LockStep == Protocol!Spec
=============================================================================
