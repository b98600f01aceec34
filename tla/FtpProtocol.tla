---------------------------- MODULE FtpProtocol ----------------------------
(***************************************************************************)
(* What an FTP session promises its client: a greeting, then for every     *)
(* command at most one preliminary reply (150) and exactly one final reply *)
(* before the next command is read.  A session may end at any time, the    *)
(* process may end on a command (KILL) or while starting to listen.        *)
(***************************************************************************)
CONSTANT Sessions

VARIABLE phase  \* per session: "closed", "greeting", "await" (a command),
                \* "none", "prelim", "final" (replies to the current one),
                \* "leaving"

Init == phase = [s \in Sessions |-> "closed"]

Move(s, from, to) ==
    /\ phase[s] \in from
    /\ \E p \in to : phase' = [phase EXCEPT ![s] = p]

Arrive(s)  == Move(s, {"closed"}, {"greeting"})
Greet(s)   == Move(s, {"greeting"}, {"await"})
Command(s) == Move(s, {"await"}, {"none"})
Mark(s)    == Move(s, {"none"}, {"prelim"})
Answer(s)  == Move(s, {"none", "prelim"}, {"final", "await"})
Return(s)  == Move(s, {"final"}, {"await"})
Leave(s)   == Move(s, {"greeting", "await", "none", "prelim", "final"}, {"leaving"})
Close(s)   == Move(s, {"leaving"}, {"closed"})

\* The process ends, and with it every session.
Die == phase' = [s \in Sessions |-> "closed"]

Next ==
    \/ \E s \in Sessions :
        \/ Arrive(s) \/ Greet(s) \/ Command(s) \/ Mark(s) \/ Answer(s)
        \/ Return(s) \/ Leave(s) \/ Close(s)
    \/ Die

Spec == Init /\ [][Next]_phase
=============================================================================
