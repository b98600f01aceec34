----------------------------- MODULE MCFtpPaths -----------------------------
(* A small instance of FtpPaths for TLC.                                   *)
EXTENDS FtpPaths, TLC

Symmetry == Permutations(Sessions)

Relative(parts) == [rooted |-> FALSE, parts |-> parts]
Absolute(parts) == [rooted |-> TRUE, parts |-> parts]

\* "a", "b", "a/b", "..", "a/", "/", "/a/../b"
SomeArguments ==
    {Relative(<<"a">>), Relative(<<"b">>), Relative(<<"..">>),
     Relative(<<"a", "">>), Absolute(<<"">>),
     Absolute(<<"a", "..", "b">>)}

ShortNodes == SeqOf({"a", "b"}, 2)

\* A directory with nothing or with a file in it, and another file beside it.
SomeTrees ==
    {(Root :> "dir") @@ (<<"a">> :> "dir") @@ (<<"b">> :> "file"),
     (Root :> "dir") @@ (<<"a">> :> "dir") @@ (<<"a", "b">> :> "file") @@ (<<"b">> :> "file")}

TopDir == Root
=============================================================================
