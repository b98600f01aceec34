---------------------------- MODULE MCFtpServer ----------------------------
(* Small instances of FtpServer for TLC.                                   *)
EXTENDS FtpServer, TLC

SessionSymmetry == Permutations(Sessions)
=============================================================================
