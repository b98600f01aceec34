------------------------------ MODULE FtpFiles ------------------------------
(***************************************************************************)
(* What the commands of the FTP server do to the files they name           *)
(* (plugin_server/source/ftp/cmd.c): REST, RETR, STOR, APPE, DELE, RNFR    *)
(* and RNTO of several sessions on one file system.  Each call into the    *)
(* file system is a step of its own, and the sessions interleave between   *)
(* them.  FtpServer models the descriptors and replies of the same         *)
(* handlers; here a transfer has its data connection or is refused, and a  *)
(* lost control connection is the Quit that follows the handler.           *)
(*                                                                         *)
(* A path names a node, and a node keeps its bytes while a session has it  *)
(* open, as in any Unix file system.                                       *)
(***************************************************************************)
EXTENDS Integers, Sequences, FiniteSets

CONSTANTS
    Sessions,    \* the clients, one ftp_thread each
    Paths,       \* absolute paths of files, as ftp_abspath returns them
    Nodes,       \* files, linked to a path or only open
    Bytes,       \* what clients upload
    Offsets,     \* the arguments of REST
    Faults,      \* the rare events of this instance, see AllFaults
    MaxLength,   \* bound: the length of a file
    MaxCommands, \* bound: how many commands are sent in all
    MaxFaults    \* bound: how many recv calls of one transfer fail

Zero   == "zero"    \* what a hole reads as
NoNode == 0
NoPath == "none"    \* rename_path before the first RNFR

\* "recv": recv on the data connection fails; "crash": KILL, or the console
\* goes down.
AllFaults == {"recv", "crash"}

ASSUME NodesAssumption  == Nodes \subseteq Nat \ {NoNode}
ASSUME PathsAssumption  == NoPath \notin Paths
ASSUME FaultsAssumption == Faults \subseteq AllFaults
ASSUME BoundsAssumption ==
    /\ Offsets \subseteq Int
    /\ MaxLength \in Nat /\ MaxCommands \in Nat /\ MaxFaults \in Nat

VARIABLES
    link,    \* the node a path names, or NoNode
    content, \* the bytes of a node
    env,     \* ftp_env_t: data_offset and rename_path
    job,     \* the handler a session's thread is in: its place and locals
    asked,   \* history: the REST offset the client has not yet used
    seen,    \* history: the current transfer as its client sees it
    budget   \* bound: how many commands may still be sent

vars == <<link, content, env, job, asked, seen, budget>>

-----------------------------------------------------------------------------
(* The file system.                                                        *)

At(c, i) == IF i \in DOMAIN c THEN c[i] ELSE Zero

\* write(2) of the bytes b at a position, behind the end as well.
WriteAt(c, pos, b) ==
    LET end == pos + Len(b)
    IN  [i \in 1 .. (IF Len(c) > end THEN Len(c) ELSE end) |->
            IF i > pos /\ i <= end THEN b[i - pos] ELSE At(c, i)]

\* ftruncate(2) to n bytes.
Resize(c, n) == [i \in 1 .. n |-> At(c, i)]

Linked    == {link[p] : p \in Paths} \ {NoNode}
Held      == {job[s].node : s \in Sessions}
FreeNodes == Nodes \ (Linked \cup Held)
NewNode   == CHOOSE n \in FreeNodes : \A m \in FreeNodes : n <= m

-----------------------------------------------------------------------------
(* Sessions.                                                               *)

NewEnv == [data_offset |-> 0, rename_path |-> NoPath]

\* A handler that starts to work on a path, with the node it has found.
Handler(pc, p, n) == [pc |-> pc, path |-> p, node |-> n, pos |-> 0, off |-> 0]

Idle == Handler("idle", NoPath, NoNode)

\* What the client of a transfer knows: the bytes of the file before it, where
\* the transfer starts, the bytes moved so far, how many recv calls failed, and
\* whether somebody else has changed the file meanwhile.
NothingSeen == [before |-> <<>>, base |-> 0, moved |-> <<>>, failed |-> 0,
                disturbed |-> FALSE]

Transfer(n, base) == [NothingSeen EXCEPT !.before = IF n = NoNode THEN <<>> ELSE content[n],
                                         !.base = base]

\* A command of an idle session.
Command(s) ==
    /\ job[s].pc = "idle"
    /\ budget > 0
    /\ budget' = budget - 1

\* The handler returns.
Done(s) ==
    /\ job' = [job EXCEPT ![s] = Idle]
    /\ seen' = [seen EXCEPT ![s] = NothingSeen]

\* Nothing is promised of a disturbed transfer, so nothing else is remembered.
Disturbed(t) == [NothingSeen EXCEPT !.disturbed = TRUE, !.failed = seen[t].failed]

\* Session s changes node n: others that have it open are disturbed.
Disturb(s, n, own) ==
    seen' = [t \in Sessions |->
                IF t = s THEN own
                ELSE IF job[t].node = n THEN Disturbed(t) ELSE seen[t]]

\* The transfer of session s after one more byte.
Moved(s, b) == IF seen[s].disturbed THEN seen[s]
               ELSE [seen[s] EXCEPT !.moved = Append(@, b)]

-----------------------------------------------------------------------------
(* Commands that are one call.                                             *)

\* ftp_cmd_REST: any number, negative ones too.
Rest(s) ==
    /\ Command(s)
    /\ \E n \in Offsets :
          /\ env' = [env EXCEPT ![s].data_offset = n]
          /\ asked' = [asked EXCEPT ![s] = n]
    /\ UNCHANGED <<link, content, job, seen>>

\* ftp_cmd_DELE; without the file it answers 550 and changes nothing.
Dele(s) ==
    /\ Command(s)
    /\ \E p \in Paths :
          /\ link[p] # NoNode
          /\ link' = [link EXCEPT ![p] = NoNode]
    /\ UNCHANGED <<content, env, job, asked, seen>>

\* ftp_cmd_RNFR: rename_path is set before stat says whether the file exists.
Rnfr(s) ==
    /\ Command(s)
    /\ \E p \in Paths : env' = [env EXCEPT ![s].rename_path = p]
    /\ UNCHANGED <<link, content, job, asked, seen>>

-----------------------------------------------------------------------------
(* ftp_cmd_RNTO: stat, then rename; rename_path is kept for the next one.  *)

RntoStat(s) ==
    /\ env[s].rename_path # NoPath
    /\ link[env[s].rename_path] # NoNode
    /\ Command(s)
    /\ \E p \in Paths :
          job' = [job EXCEPT ![s] = Handler("rename", p, NoNode)]
    /\ UNCHANGED <<link, content, env, asked, seen>>

Rename(s) ==
    /\ job[s].pc = "rename"
    /\ LET from == env[s].rename_path
           to   == job[s].path
       IN  link' = IF link[from] = NoNode \/ from = to THEN link
                   ELSE [link EXCEPT ![from] = NoNode, ![to] = link[from]]
    /\ Done(s)
    /\ UNCHANGED <<content, env, asked, budget>>

-----------------------------------------------------------------------------
(* ftp_cmd_RETR: from the start of the file, whatever REST has said.       *)

RetrOpen(s) ==
    /\ Command(s)
    /\ \E p \in Paths :
          /\ link[p] # NoNode
          /\ job' = [job EXCEPT ![s] = Handler("retr", p, link[p])]
          /\ seen' = [seen EXCEPT ![s] = Transfer(link[p], asked[s])]
    /\ UNCHANGED <<link, content, env, asked>>

\* A byte read and sent.
RetrBlock(s) ==
    /\ job[s].pc = "retr"
    /\ job[s].pos < Len(content[job[s].node])
    /\ job' = [job EXCEPT ![s].pos = @ + 1]
    /\ seen' = [seen EXCEPT ![s] = Moved(s, content[job[s].node][job[s].pos + 1])]
    /\ UNCHANGED <<link, content, env, asked, budget>>

\* Mutant: the result of write is not looked at, as in ftp_cmd_LIST.
RetrFailUnseen(s) ==
    /\ job[s].pc = "retr"
    /\ job[s].pos < Len(content[job[s].node])
    /\ job' = [job EXCEPT ![s].pos = @ + 1]
    /\ UNCHANGED <<link, content, env, asked, seen, budget>>

\* The 150, the data connection or a write to it fails: 550.
RetrFail(s) ==
    /\ job[s].pc = "retr"
    /\ Done(s)
    /\ UNCHANGED <<link, content, env, asked, budget>>

\* read returns 0: 226 follows.
RetrEnd(s) ==
    /\ job[s].pc = "retr"
    /\ job[s].pos >= Len(content[job[s].node])
    /\ job' = [job EXCEPT ![s].pc = "sent"]
    /\ UNCHANGED <<link, content, env, asked, seen, budget>>

-----------------------------------------------------------------------------
(* ftp_cmd_STOR and ftp_cmd_APPE.                                          *)

\* Mutants: open with O_TRUNC; an lseek whose result is not looked at; an
\* offset that the next upload finds again.
OpenTruncating(s, p, own) ==
    LET n == IF link[p] = NoNode THEN NewNode ELSE link[p]
    IN  /\ link[p] # NoNode \/ FreeNodes # {}
        /\ link' = [link EXCEPT ![p] = n]
        /\ content' = [content EXCEPT ![n] = <<>>]
        /\ env' = [env EXCEPT ![s].data_offset = 0]
        /\ IF env[s].data_offset < 0
           THEN Done(s)
           ELSE /\ job' = [job EXCEPT ![s] =
                              [pc |-> "receive", path |-> p, node |-> n,
                               pos |-> env[s].data_offset, off |-> env[s].data_offset]]
                /\ Disturb(s, n, own)

OpenUnseeked(s, p, own) ==
    LET n == IF link[p] = NoNode THEN NewNode ELSE link[p]
    IN  /\ link[p] # NoNode \/ FreeNodes # {}
        /\ link' = [link EXCEPT ![p] = n]
        /\ content' = IF link[p] = NoNode THEN [content EXCEPT ![n] = <<>>] ELSE content
        /\ env' = [env EXCEPT ![s].data_offset = 0]
        /\ job' = [job EXCEPT ![s] =
                      [pc |-> "receive", path |-> p, node |-> n,
                       pos |-> env[s].data_offset, off |-> env[s].data_offset]]
        /\ seen' = [seen EXCEPT ![s] = own]

OpenKeepingOffset(s, p, own) ==
    LET n == IF link[p] = NoNode THEN NewNode ELSE link[p]
    IN  /\ link[p] # NoNode \/ FreeNodes # {}
        /\ link' = [link EXCEPT ![p] = n]
        /\ content' = IF link[p] = NoNode THEN [content EXCEPT ![n] = <<>>] ELSE content
        /\ IF env[s].data_offset < 0
           THEN Done(s)
           ELSE /\ job' = [job EXCEPT ![s] =
                              [pc |-> "receive", path |-> p, node |-> n,
                               pos |-> env[s].data_offset, off |-> env[s].data_offset]]
                /\ seen' = [seen EXCEPT ![s] = own]
        /\ UNCHANGED env

\* The offset is consumed, the file opened and created if need be, never
\* truncated; an lseek to a negative offset fails and leaves the file there.
OpenToStore(s, p, own) ==
    LET n == IF link[p] = NoNode THEN NewNode ELSE link[p]
    IN  /\ link[p] # NoNode \/ FreeNodes # {}
        /\ link' = [link EXCEPT ![p] = n]
        /\ content' = IF link[p] = NoNode THEN [content EXCEPT ![n] = <<>>] ELSE content
        /\ env' = [env EXCEPT ![s].data_offset = 0]
        /\ IF env[s].data_offset < 0
           THEN Done(s)
           ELSE /\ job' = [job EXCEPT ![s] =
                              [pc |-> "receive", path |-> p, node |-> n,
                               pos |-> env[s].data_offset, off |-> env[s].data_offset]]
                /\ seen' = [seen EXCEPT ![s] = own]

\* STOR, and APPE after a REST, which goes straight to ftp_cmd_STOR.
Stor(s) ==
    /\ Command(s)
    /\ \E p \in Paths : OpenToStore(s, p, Transfer(link[p], asked[s]))
    /\ asked' = [asked EXCEPT ![s] = 0]

\* No argument, or open fails: the offset is consumed all the same.
StorRefused(s) ==
    /\ Command(s)
    /\ env' = [env EXCEPT ![s].data_offset = 0]
    /\ asked' = [asked EXCEPT ![s] = 0]
    /\ UNCHANGED <<link, content, job, seen>>

\* APPE asks for the size of the file, the offset of the STOR it calls.
AppeStat(s) ==
    /\ Command(s)
    /\ env[s].data_offset = 0
    /\ \E p \in Paths :
          /\ link[p] # NoNode
          /\ env' = [env EXCEPT ![s].data_offset = Len(content[link[p]])]
          /\ job' = [job EXCEPT ![s] = Handler("appe", p, link[p])]
          /\ seen' = [seen EXCEPT ![s] = Transfer(link[p], Len(content[link[p]]))]
    /\ UNCHANGED <<link, content, asked>>

\* The path may name another file by then.
AppeOpen(s) ==
    /\ job[s].pc = "appe"
    /\ OpenToStore(s, job[s].path,
           IF link[job[s].path] = job[s].node THEN seen[s] ELSE Disturbed(s))
    /\ UNCHANGED <<asked, budget>>

\* A byte received and written.
Receive(s) ==
    /\ job[s].pc = "receive"
    /\ job[s].pos < MaxLength
    /\ \E b \in Bytes :
          /\ content' = [content EXCEPT ![job[s].node] = WriteAt(@, job[s].pos, <<b>>)]
          /\ Disturb(s, job[s].node, Moved(s, b))
    /\ job' = [job EXCEPT ![s].pos = @ + 1, ![s].off = @ + 1]
    /\ UNCHANGED <<link, env, asked, budget>>

\* recv returns -1, a len of SIZE_MAX: write refuses that many bytes with -1,
\* which equals len, and the loop goes on with an offset one byte less.
RecvFail(s) ==
    /\ job[s].pc = "receive"
    /\ "recv" \in Faults
    /\ seen[s].failed < MaxFaults
    /\ job' = [job EXCEPT ![s].off = @ - 1]
    /\ seen' = [seen EXCEPT ![s].failed = @ + 1]
    /\ UNCHANGED <<link, content, env, asked, budget>>

\* Mutant: the file is cut to what has arrived although a write failed.
WriteFailCuts(s) ==
    /\ job[s].pc = "receive"
    /\ job[s].off >= 0
    /\ content' = [content EXCEPT ![job[s].node] = Resize(@, job[s].off)]
    /\ Done(s)
    /\ UNCHANGED <<link, env, asked, budget>>

\* The 150, the data connection or a write to the file fails: 550, and the
\* bytes written so far stay.
WriteFail(s) ==
    /\ job[s].pc = "receive"
    /\ Done(s)
    /\ UNCHANGED <<link, content, env, asked, budget>>

\* recv returns 0.
StorEnd(s) ==
    /\ job[s].pc = "receive"
    /\ job' = [job EXCEPT ![s].pc = "truncate"]
    /\ UNCHANGED <<link, content, env, asked, seen, budget>>

\* ftruncate to the offset reached; a negative one fails with 550.
Truncate(s) ==
    /\ job[s].pc = "truncate"
    /\ IF job[s].off < 0
       THEN Done(s) /\ UNCHANGED content
       ELSE /\ content' = [content EXCEPT ![job[s].node] = Resize(@, job[s].off)]
            /\ job' = [job EXCEPT ![s].pc = "stored"]
            /\ Disturb(s, job[s].node, seen[s])
    /\ UNCHANGED <<link, env, asked, budget>>

\* 226, and the file closed.
Complete(s) ==
    /\ job[s].pc \in {"sent", "stored"}
    /\ Done(s)
    /\ UNCHANGED <<link, content, env, asked, budget>>

-----------------------------------------------------------------------------
\* The session ends and the client connects again: a new ftp_env_t.
Reconnect(s) ==
    /\ job[s].pc = "idle"
    /\ env[s] # NewEnv
    /\ env' = [env EXCEPT ![s] = NewEnv]
    /\ asked' = [asked EXCEPT ![s] = 0]
    /\ UNCHANGED <<link, content, job, seen, budget>>

\* ftp_cmd_KILL, or the power goes: the files stay as they are.
Crash ==
    /\ "crash" \in Faults
    /\ job' = [s \in Sessions |-> Idle]
    /\ env' = [s \in Sessions |-> NewEnv]
    /\ asked' = [s \in Sessions |-> 0]
    /\ seen' = [s \in Sessions |-> NothingSeen]
    /\ UNCHANGED <<link, content, budget>>

Init ==
    /\ link = [p \in Paths |-> NoNode]
    /\ content = [n \in Nodes |-> <<>>]
    /\ env = [s \in Sessions |-> NewEnv]
    /\ job = [s \in Sessions |-> Idle]
    /\ asked = [s \in Sessions |-> 0]
    /\ seen = [s \in Sessions |-> NothingSeen]
    /\ budget = MaxCommands

Next ==
    \/ \E s \in Sessions :
          \/ Rest(s) \/ Dele(s) \/ Rnfr(s) \/ RntoStat(s) \/ Rename(s)
          \/ RetrOpen(s) \/ RetrBlock(s) \/ RetrFail(s) \/ RetrEnd(s)
          \/ Stor(s) \/ StorRefused(s) \/ AppeStat(s) \/ AppeOpen(s)
          \/ Receive(s) \/ RecvFail(s) \/ WriteFail(s)
          \/ StorEnd(s) \/ Truncate(s) \/ Complete(s) \/ Reconnect(s)
    \/ Crash

Spec == Init /\ [][Next]_vars

-----------------------------------------------------------------------------
(* Properties.                                                             *)

Content == Seq(Bytes \cup {Zero})

Envs == [data_offset : Int, rename_path : Paths \cup {NoPath}]

Jobs == [pc   : {"idle", "rename", "retr", "sent", "appe", "receive", "truncate", "stored"},
         path : Paths \cup {NoPath}, node : Nodes \cup {NoNode}, pos : Nat, off : Int]

Views == [before : Content, base : Int, moved : Content, failed : Nat, disturbed : BOOLEAN]

\* A handler holds a node while it moves bytes, and works on a path.
Placed(j, e) ==
    /\ j.pc \notin {"idle", "rename"} <=> j.node \in Nodes
    /\ j.pc # "idle" => j.path \in Paths
    /\ j.pc = "rename" => e.rename_path \in Paths

\* Type invariant: the locals of a handler, and the node it holds while it
\* moves bytes.  A write never starts before the beginning of a file.
TypeOK ==
    /\ link \in [Paths -> Nodes \cup {NoNode}]
    /\ content \in [Nodes -> Content]
    /\ env \in [Sessions -> Envs]
    /\ job \in [Sessions -> Jobs]
    /\ asked \in [Sessions -> Int]
    /\ seen \in [Sessions -> Views]
    /\ \A s \in Sessions : Placed(job[s], env[s])
    /\ budget \in 0 .. MaxCommands

\* What a file holds once the bytes b are stored from offset o on.
Spliced(c, o, b) == Resize(c, o) \o b

\* An upload of which no recv failed and that nobody disturbed leaves the old
\* bytes up to the offset its client asked for (REST, or the size for APPE),
\* then what was received, and nothing else, before it is answered 226; whatever
\* the session sent before it, refused and failed transfers included.
UploadStored ==
    \A s \in Sessions :
        job[s].pc = "stored" /\ ~seen[s].disturbed /\ seen[s].failed = 0 =>
            content[job[s].node] = Spliced(seen[s].before, seen[s].base, seen[s].moved)

\* The same without the exception: ftp_cmd_STOR answers 226, "Data transfer
\* complete", for "received data" it has stored.
ReceivedIsStored ==
    \A s \in Sessions :
        job[s].pc = "stored" /\ ~seen[s].disturbed =>
            content[job[s].node] = Spliced(seen[s].before, seen[s].base, seen[s].moved)

\* While an upload runs the file keeps its old bytes everywhere but where the
\* new ones have been written, failing recv calls or not: what is there after a
\* 550, a lost connection or a crash is a file that a REST to its old end, or to
\* the end of what arrived, can go on with.
OldBytesStay ==
    \A s \in Sessions :
        job[s].pc \in {"receive", "truncate"} /\ ~seen[s].disturbed =>
            content[job[s].node] = IF seen[s].moved = <<>> THEN seen[s].before
                                   ELSE WriteAt(seen[s].before, seen[s].base, seen[s].moved)

\* A download that nobody disturbed is answered 226 only when every byte of the
\* file has been sent, in order.
DownloadWhole ==
    \A s \in Sessions :
        job[s].pc = "sent" /\ ~seen[s].disturbed => seen[s].moved = seen[s].before

\* A download starts at the offset that REST has marked: "Mark the offset to
\* start from in a future file transer."
DownloadResumes ==
    \A s \in Sessions :
        job[s].pc = "sent" /\ ~seen[s].disturbed /\ seen[s].base >= 0 =>
            seen[s].moved = SubSeq(seen[s].before, seen[s].base + 1, Len(seen[s].before))

\* No step makes a file that keeps its name shorter, but the ftruncate of an
\* upload whose client has finished sending.
NeverCutShort ==
    [][\A n \in Linked \cap Linked' :
          Len(content'[n]) < Len(content[n]) =>
              \E s \in Sessions : job[s].node = n /\ job[s].pc = "truncate"]_vars
=============================================================================
