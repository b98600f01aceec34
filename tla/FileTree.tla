------------------------------ MODULE FileTree ------------------------------
(***************************************************************************)
(* The part of a Unix file system that plugin_server/source/ftp/cmd.c      *)
(* calls with paths: stat, opendir, mkdir, rmdir, remove, open with        *)
(* O_CREAT, and rename.  It is the console's, not this repository's.       *)
(*                                                                         *)
(* A node is the sequence of names that leads to it from the root; a tree  *)
(* maps the nodes that exist to "dir" or "file".  There are no links.  The *)
(* text of a path is what stands between its slashes: "/a/../b" is         *)
(* <<"a", "..", "b">>, "/a/" is <<"a", "">> and "/" is <<"">>.             *)
(***************************************************************************)
EXTENDS Naturals, Sequences, SequencesExt, Functions

Root    == <<>>
Nowhere == <<"/">>  \* no node: a slash is in no name

Kinds == {"dir", "file"}

Parent(n) == IF n = Root THEN Root ELSE Front(n)

IsDir(tree, n) == n \in DOMAIN tree /\ tree[n] = "dir"

IsTree(tree) ==
    /\ tree \in [DOMAIN tree -> Kinds]
    /\ IsDir(tree, Root)
    /\ \A n \in DOMAIN tree : IsDir(tree, Parent(n))

Children(tree, n) ==
    {m \in DOMAIN tree : m # Root /\ Front(m) = n}

-----------------------------------------------------------------------------
(* Paths.                                                                  *)

\* One component of a path, read at node n.
Follow(n, part) ==
    CASE part \in {"", "."} -> n
      [] part = ".."        -> Parent(n)
      [] OTHER              -> Append(n, part)

\* The lookup of a component; dirs are the directories.
Lookup(dirs, n, part) == IF n \in dirs THEN Follow(n, part) ELSE Nowhere

\* Where a text leads from node n.  Only the last component need not exist.
Resolve(dirs, n, text) ==
    LET at[i \in 0 .. Len(text)] ==
            IF i = 0 THEN n ELSE Lookup(dirs, at[i - 1], text[i])
    IN  at[Len(text)]

\* What the text means, whatever exists.
Normal(text) == Resolve(Seq(STRING), Root, text)

\* What the kernel makes of it.
Dirs(tree) == {n \in DOMAIN tree : tree[n] = "dir"}

Walk(tree, text) == Resolve(Dirs(tree), Root, text)

\* Only names, after the slashes it may start with.
Plain(text) ==
    \A i \in DOMAIN text :
        /\ text[i] \notin {".", ".."}
        /\ text[i] = "" => \A j \in 1 .. i : text[j] = ""

-----------------------------------------------------------------------------
(* Changes.                                                                *)

\* mkdir(2), and open(2) with O_CREAT: the parent exists, the node does not.
CanMake(tree, n) == n # Root /\ n \notin DOMAIN tree /\ IsDir(tree, Parent(n))

Made(tree, n, kind) ==
    [m \in DOMAIN tree \cup {n} |-> IF m = n THEN kind ELSE tree[m]]

\* remove(3): a file or an empty directory.
CanRemove(tree, n) == n # Root /\ n \in DOMAIN tree /\ Children(tree, n) = {}

Removed(tree, n) == Restrict(tree, DOMAIN tree \ {n})

\* rename(2): not a directory into itself; what the new name already denotes
\* must be of the same kind, and empty.
CanRename(tree, from, to) ==
    /\ from # Root /\ from \in DOMAIN tree
    /\ to # Root /\ IsDir(tree, Parent(to))
    /\ from # to => ~IsPrefix(from, to)
    /\ to \in DOMAIN tree /\ from # to => tree[to] = tree[from] /\ Children(tree, to) = {}

\* The names that lead from n down to m.
Beneath(n, m) == SubSeq(m, Len(n) + 1, Len(m))

\* The node that becomes m, when from is renamed to to.
Source(from, to, m) == IF IsPrefix(to, m) THEN from \o Beneath(to, m) ELSE m

Renamed(tree, from, to) ==
    LET kept  == {m \in DOMAIN tree : ~IsPrefix(from, m) /\ ~IsPrefix(to, m)}
        moved == {to \o Beneath(from, m) : m \in {k \in DOMAIN tree : IsPrefix(from, k)}}
    IN  [m \in kept \cup moved |-> tree[Source(from, to, m)]]
=============================================================================
