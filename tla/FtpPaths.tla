------------------------------ MODULE FtpPaths ------------------------------
(***************************************************************************)
(* Working directories and directory commands of the FTP server            *)
(* (plugin_server/source/ftp/cmd.c): CWD, CDUP, MKD, RMD, DELE, RNFR, RNTO *)
(* LIST and the files that STOR and APPE create, of several sessions on    *)
(* one file system.  env->cwd and env->rename_path are texts, never        *)
(* resolved, that are put together, cut and handed to the kernel.  A       *)
(* command whose call fails answers 550 and changes nothing; CHMOD, RETR,  *)
(* SIZE and PWD change no directory.                                       *)
(***************************************************************************)
EXTENDS Naturals, FileTree

CONSTANTS
    Sessions,      \* the clients, one ftp_thread each
    Arguments,     \* what they send: [rooted, parts], rooted with a leading /
    Nodes,         \* bound: the nodes a file system may have
    Trees,         \* the file systems the server may find
    ProcessDir,    \* the directory of the process
    MaxCommands    \* bound: how many commands are sent in all

Names == UNION {ToSet(n) : n \in Nodes}
Texts == Seq(Names \cup {"", ".", ".."})

ASSUME NodesAssumption == Nodes \subseteq Seq(Names)

\* A name is not empty, has no slash and is neither "." nor "..".
ASSUME NamesAssumption == Names \subseteq STRING \ {"", ".", "..", "/"}

ASSUME ArgumentsAssumption ==
    /\ Arguments \subseteq [rooted : BOOLEAN, parts : Texts]
    /\ \A a \in Arguments : a.parts # <<>> /\ (a.rooted \/ a.parts[1] # "")

ASSUME TreesAssumption == \A t \in Trees : IsTree(t) /\ DOMAIN t \subseteq Nodes

ASSUME BoundAssumption == MaxCommands \in Nat

\* Bound: what is created, removed or renamed ends in a name.  (CWD and LIST
\* also take "..", "/" and "a/".)
FileArguments == {a \in Arguments : Last(a.parts) \notin {"", ".", ".."}}

Slash   == <<"">>  \* the text "/"
NoText  == <<>>    \* rename_path before the first RNFR
NoArg   == [rooted |-> FALSE, parts |-> <<>>]

VARIABLES
    tree,         \* the file system, see FileTree
    cwd,          \* ftp_env_t: a text
    rename_path,  \* ftp_env_t: a text
    job,          \* the handler a session's thread is in: its place and locals
    quiet,        \* history: nobody has changed the tree since job began
    asked,        \* history: who has sent the argument used last, and which
    budget        \* bound: how many commands may still be sent

vars == <<tree, cwd, rename_path, job, quiet, asked, budget>>

Nothing == [who |-> "nobody", arg |-> NoArg]

Idle == [pc |-> "idle", arg |-> NoArg, todo |-> {}, listing |-> {}]

\* A command of an idle session.
Command(s) ==
    /\ job[s].pc = "idle"
    /\ budget > 0
    /\ budget' = budget - 1

\* The tree becomes t: whoever is in the middle of a command is disturbed.
Change(t) ==
    /\ tree' = t
    /\ quiet' = [s \in Sessions |-> quiet[s] /\ (t = tree \/ job[s].pc = "idle")]

Uses(s, a) == asked' = [who |-> s, arg |-> a]

\* ftp_abspath: "%s/%s" of cwd and a path without a leading slash.
Abspath(s, a) == IF a.rooted THEN a.parts ELSE cwd[s] \o a.parts

\* The node a command creates, removes or renames.
Target(s, a) == Walk(tree, Abspath(s, a))

-----------------------------------------------------------------------------
(* The working directory.                                                  *)

\* Mutant: any path that stat finds will do.
CwdUnchecked(s) ==
    /\ Command(s)
    /\ \E a \in Arguments :
          /\ Target(s, a) \in DOMAIN tree
          /\ Uses(s, a)
          /\ cwd' = [cwd EXCEPT ![s] = Abspath(s, a)]
    /\ UNCHANGED <<tree, rename_path, job, quiet>>

\* ftp_cmd_CWD, also bound to XCUP: stat, S_ISDIR, and the text is kept.
Cwd(s) ==
    /\ Command(s)
    /\ \E a \in Arguments :
          /\ IsDir(tree, Target(s, a))
          /\ Uses(s, a)
          /\ cwd' = [cwd EXCEPT ![s] = Abspath(s, a)]
    /\ UNCHANGED <<tree, rename_path, job, quiet>>

\* Mutant: the first slash is cut off like any other.
CdupToNothing(s) ==
    /\ Command(s)
    /\ cwd' = [cwd EXCEPT ![s] = Front(@)]
    /\ UNCHANGED <<tree, rename_path, job, quiet, asked>>

\* ftp_cmd_CDUP cuts the text at its last slash; the first one stays.
Cdup(s) ==
    /\ Command(s)
    /\ cwd' = [cwd EXCEPT ![s] = IF Len(@) = 1 THEN Slash ELSE Front(@)]
    /\ UNCHANGED <<tree, rename_path, job, quiet, asked>>

-----------------------------------------------------------------------------
(* Commands that are one call.                                             *)

\* ftp_cmd_MKD
Mkd(s) ==
    /\ Command(s)
    /\ \E a \in FileArguments :
          LET n == Target(s, a)
          IN  Uses(s, a) /\ n \in Nodes /\ CanMake(tree, n) /\ Change(Made(tree, n, "dir"))
    /\ UNCHANGED <<cwd, rename_path, job>>

\* The open(2) of ftp_cmd_STOR when there is no such file yet.  What is stored
\* in it is the matter of FtpFiles.
Store(s) ==
    /\ Command(s)
    /\ \E a \in FileArguments :
          LET n == Target(s, a)
          IN  Uses(s, a) /\ n \in Nodes /\ CanMake(tree, n) /\ Change(Made(tree, n, "file"))
    /\ UNCHANGED <<cwd, rename_path, job>>

\* ftp_cmd_DELE: remove(3) takes empty directories too.
Dele(s) ==
    /\ Command(s)
    /\ \E a \in FileArguments :
          LET n == Target(s, a)
          IN  Uses(s, a) /\ CanRemove(tree, n) /\ Change(Removed(tree, n))
    /\ UNCHANGED <<cwd, rename_path, job>>

\* ftp_cmd_RMD
Rmd(s) ==
    /\ Command(s)
    /\ \E a \in FileArguments :
          LET n == Target(s, a)
          IN  Uses(s, a) /\ CanRemove(tree, n) /\ IsDir(tree, n) /\ Change(Removed(tree, n))
    /\ UNCHANGED <<cwd, rename_path, job>>

-----------------------------------------------------------------------------
(* Renaming.                                                               *)

\* Mutant: the argument is kept as it was sent.
RnfrRelative(s) ==
    /\ Command(s)
    /\ \E a \in FileArguments :
          Uses(s, a) /\ rename_path' = [rename_path EXCEPT ![s] = a.parts]
    /\ UNCHANGED <<tree, cwd, job, quiet>>

\* ftp_cmd_RNFR: rename_path is set before stat says whether it exists.
Rnfr(s) ==
    /\ Command(s)
    /\ \E a \in FileArguments :
          Uses(s, a) /\ rename_path' = [rename_path EXCEPT ![s] = Abspath(s, a)]
    /\ UNCHANGED <<tree, cwd, job, quiet>>

\* ftp_cmd_RNTO: stat of rename_path, which of "" fails.
RntoStat(s) ==
    /\ rename_path[s] # NoText
    /\ Walk(tree, rename_path[s]) \in DOMAIN tree
    /\ Command(s)
    /\ \E a \in FileArguments :
          job' = [job EXCEPT ![s] = [Idle EXCEPT !.pc = "rename", !.arg = a]]
    /\ UNCHANGED <<tree, cwd, rename_path, quiet, asked>>

\* rename(2), of whatever has the path by now; rename_path is kept.
Rename(s) ==
    /\ job[s].pc = "rename"
    /\ Uses(s, job[s].arg)
    /\ LET from == Walk(tree, rename_path[s])
           to   == Target(s, job[s].arg)
       IN  /\ CanRename(tree, from, to)
           /\ to \in Nodes /\ DOMAIN Renamed(tree, from, to) \subseteq Nodes
           /\ Change(Renamed(tree, from, to))
    /\ job' = [job EXCEPT ![s] = Idle]
    /\ UNCHANGED <<cwd, rename_path, budget>>

\* The file is gone, the directory of the new name is missing, ...: 550.
RenameFail(s) ==
    /\ job[s].pc = "rename"
    /\ job' = [job EXCEPT ![s] = Idle]
    /\ UNCHANGED <<tree, cwd, rename_path, quiet, asked, budget>>

-----------------------------------------------------------------------------
(* ftp_cmd_LIST                                                            *)

\* p, the text that is opened: cwd without an argument or with an option.
Opened(s, a) ==
    IF a = NoArg THEN cwd[s]
    ELSE IF a.rooted THEN a.parts
    ELSE ProcessDir \o a.parts

\* pathbuf, the text that stat is asked about: "%s/%s" of p, or
\* "/%s/%s/%s" of cwd and p when p has no leading slash.
Listed(s, a, name) ==
    CASE a = NoArg -> cwd[s] \o <<name>>
      [] a.rooted  -> a.parts \o <<name>>
      [] OTHER     -> Slash \o cwd[s] \o a.parts \o <<name>>

\* opendir; the entries are those of this moment, without "." and "..".
ListOpen(s) ==
    /\ Command(s)
    /\ \E a \in Arguments \cup {NoArg} :
          LET n == Walk(tree, Opened(s, a))
          IN  /\ IsDir(tree, n)
              /\ job' = [job EXCEPT ![s] =
                     [pc |-> "list", arg |-> a, listing |-> {},
                      todo |-> {Last(m) : m \in Children(tree, n)}]]
    /\ quiet' = [quiet EXCEPT ![s] = TRUE]
    /\ UNCHANGED <<tree, cwd, rename_path, asked>>

\* Mutant: stat is given the name alone, behind a slash.
ListLineAtRoot(s) ==
    /\ job[s].pc = "list"
    /\ \E name \in job[s].todo :
          LET n == Walk(tree, <<name>>)
          IN  job' = [job EXCEPT
                 ![s].todo = @ \ {name},
                 ![s].listing = IF n \in DOMAIN tree THEN @ \cup {<<name, tree[n]>>} ELSE @]
    /\ UNCHANGED <<tree, cwd, rename_path, quiet, asked, budget>>

\* An entry is stated and printed, or left out if stat fails.
ListLine(s) ==
    /\ job[s].pc = "list"
    /\ \E name \in job[s].todo :
          LET n == Walk(tree, Listed(s, job[s].arg, name))
          IN  job' = [job EXCEPT
                 ![s].todo = @ \ {name},
                 ![s].listing = IF n \in DOMAIN tree THEN @ \cup {<<name, tree[n]>>} ELSE @]
    /\ UNCHANGED <<tree, cwd, rename_path, quiet, asked, budget>>

\* The data connection and the directory are closed.
ListEnd(s) ==
    /\ job[s].pc = "list" /\ job[s].todo = {}
    /\ job' = [job EXCEPT ![s] = Idle]
    /\ UNCHANGED <<tree, cwd, rename_path, quiet, asked, budget>>

-----------------------------------------------------------------------------
\* The session ends and its client connects again: a new ftp_env_t.
Reconnect(s) ==
    /\ job[s].pc = "idle"
    /\ cwd' = [cwd EXCEPT ![s] = Slash]
    /\ rename_path' = [rename_path EXCEPT ![s] = NoText]
    /\ UNCHANGED <<tree, job, quiet, asked, budget>>

Init ==
    /\ tree \in Trees
    /\ cwd = [s \in Sessions |-> Slash]
    /\ rename_path = [s \in Sessions |-> NoText]
    /\ job = [s \in Sessions |-> Idle]
    /\ quiet = [s \in Sessions |-> TRUE]
    /\ asked = Nothing
    /\ budget = MaxCommands

Next ==
    \E s \in Sessions :
        \/ Cwd(s) \/ Cdup(s)
        \/ Mkd(s) \/ Store(s) \/ Dele(s) \/ Rmd(s)
        \/ Rnfr(s) \/ RntoStat(s) \/ Rename(s) \/ RenameFail(s)
        \/ ListOpen(s) \/ ListLine(s) \/ ListEnd(s)
        \/ Reconnect(s)

Spec == Init /\ [][Next]_vars

-----------------------------------------------------------------------------
(* Properties.                                                             *)

\* The types of the variables.  The file system stays a tree, whatever is
\* removed or renamed, and cwd is never the empty text.
TypeOK ==
    /\ IsTree(tree) /\ DOMAIN tree \subseteq Nodes
    /\ cwd \in [Sessions -> Texts \ {<<>>}]
    /\ rename_path \in [Sessions -> Texts]
    /\ job \in [Sessions -> [pc : {"idle", "rename", "list"}, arg : Arguments \cup {NoArg},
                             todo : SUBSET Names, listing : SUBSET (Names \X Kinds)]]
    /\ quiet \in [Sessions -> BOOLEAN]
    /\ asked \in [who : Sessions, arg : Arguments \cup {NoArg}] \cup {Nothing}
    /\ budget \in 0 .. MaxCommands

\* The texts stand for nodes: with cwd and rename_path read as the nodes they
\* mean, the commands are those of FtpDirectory.  Every directory is made and
\* every file removed or renamed where its client's working directory says,
\* whatever was sent before, and CDUP goes to the parent of a client that has
\* not used "..", "." or a trailing slash.
Directory == INSTANCE FtpDirectory WITH
    tree <- tree,
    wd   <- [s \in Sessions |-> Normal(cwd[s])],
    odd  <- [s \in Sessions |-> ~Plain(cwd[s])],
    asked <- asked,
    from <- [s \in Sessions |-> Normal(rename_path[s])]

ActsWhereMeant == Directory!Spec

\* A client's working directory is a directory that exists, and stays one as
\* long as nobody removes or renames a directory, although CWD checks a path
\* once and keeps its text.
CwdStays ==
    [][ \A s \in Sessions :
          /\ IsDir(tree, Walk(tree, cwd[s]))
          /\ \A n \in DOMAIN tree : IsDir(tree, n) => IsDir(tree', n)
          => IsDir(tree', Walk(tree', cwd'[s])) ]_vars

\* A listing that nobody has disturbed names the entries of the directory the
\* client means, each with its kind: LIST stats the same directory as it has
\* opened.  For an argument without a leading slash this holds only while the
\* working directory is that of the process, and its text can still be walked.
ListExact ==
    \A s \in Sessions :
        LET a   == job[s].arg
            dir == Normal(Abspath(s, a))
        IN  /\ job[s].pc = "list" /\ job[s].todo = {} /\ quiet[s]
            /\ \/ a = NoArg \/ a.rooted
               \/ Normal(cwd[s]) = ProcessDir /\ IsDir(tree, Walk(tree, cwd[s]))
            => job[s].listing = {<<Last(m), tree[m]>> : m \in Children(tree, dir)}
=============================================================================
