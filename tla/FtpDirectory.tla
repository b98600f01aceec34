---------------------------- MODULE FtpDirectory ----------------------------
(***************************************************************************)
(* What the directory commands of the FTP server promise a client.  Each   *)
(* session has a working directory, and every argument means a node of the *)
(* file system relative to it.  FtpPaths implements this with texts.       *)
(***************************************************************************)
EXTENDS Naturals, FileTree

CONSTANTS
    Sessions,
    Arguments,   \* paths a client may send: [rooted, parts]
    Nodes,       \* nodes of the file systems of this instance
    Trees        \* the file systems the server may find

VARIABLES
    tree,  \* the file system
    wd,    \* a session's working directory, a node
    odd,   \* the client has sent "." or ".." or doubled or trailing slashes
           \* since its last plain absolute CWD
    from,  \* the node of the last RNFR
    asked  \* who has sent the argument used last, and which

Nothing == [who |-> "nobody", arg |-> [rooted |-> FALSE, parts |-> <<>>]]

Init ==
    /\ tree \in Trees
    /\ wd = [s \in Sessions |-> Root]
    /\ odd = [s \in Sessions |-> FALSE]
    /\ from = [s \in Sessions |-> Root]
    /\ asked = Nothing

Uses(s, a) == asked' = [who |-> s, arg |-> a]

\* The node that an argument means.
Meant(s, a) == Normal((IF a.rooted THEN <<>> ELSE wd[s]) \o a.parts)

\* CWD
Change(s, a) ==
    /\ Uses(s, a)
    /\ IsDir(tree, Meant(s, a))
    /\ wd' = [wd EXCEPT ![s] = Meant(s, a)]
    /\ odd' = [odd EXCEPT ![s] = ~Plain(a.parts) \/ (~a.rooted /\ @)]
    /\ UNCHANGED <<tree, from>>

\* CDUP goes to the parent; the odd client finds itself elsewhere.
Up(s) ==
    /\ \/ ~odd[s] /\ wd' = [wd EXCEPT ![s] = Parent(@)] /\ UNCHANGED odd
       \/ /\ odd[s]
          /\ \E n \in Nodes, o \in BOOLEAN :
                wd' = [wd EXCEPT ![s] = n] /\ odd' = [odd EXCEPT ![s] = o]
    /\ UNCHANGED <<tree, from, asked>>

\* MKD, and STOR or APPE of a new file.
Create(s, a) ==
    /\ Uses(s, a)
    /\ CanMake(tree, Meant(s, a))
    /\ \E kind \in Kinds : tree' = Made(tree, Meant(s, a), kind)
    /\ UNCHANGED <<wd, odd, from>>

\* DELE and RMD
Delete(s, a) ==
    /\ Uses(s, a)
    /\ CanRemove(tree, Meant(s, a))
    /\ tree' = Removed(tree, Meant(s, a))
    /\ UNCHANGED <<wd, odd, from>>

\* RNFR
Pick(s, a) ==
    /\ Uses(s, a)
    /\ from' = [from EXCEPT ![s] = Meant(s, a)]
    /\ UNCHANGED <<tree, wd, odd>>

\* RNTO: the node named by RNFR, wherever the session has gone since.
Move(s, a) ==
    /\ Uses(s, a)
    /\ CanRename(tree, from[s], Meant(s, a))
    /\ tree' = Renamed(tree, from[s], Meant(s, a))
    /\ UNCHANGED <<wd, odd, from>>

\* A new connection starts at the root.
Connect(s) ==
    /\ wd' = [wd EXCEPT ![s] = Root]
    /\ odd' = [odd EXCEPT ![s] = FALSE]
    /\ from' = [from EXCEPT ![s] = Root]
    /\ UNCHANGED <<tree, asked>>

Next ==
    \E s \in Sessions :
        \/ Up(s) \/ Connect(s)
        \/ \E a \in Arguments :
              Change(s, a) \/ Create(s, a) \/ Delete(s, a) \/ Pick(s, a) \/ Move(s, a)

Spec == Init /\ [][Next]_<<tree, wd, odd, from, asked>>
=============================================================================
