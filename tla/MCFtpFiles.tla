----------------------------- MODULE MCFtpFiles -----------------------------
(* Small instances of FtpFiles for TLC.                                    *)
EXTENDS FtpFiles, TLC

Symmetry ==
    Permutations(Sessions) \cup Permutations(Paths) \cup Permutations(Bytes)

\* Before the start of a file, and inside one.
RestOffsets == {-1, 1}
=============================================================================
