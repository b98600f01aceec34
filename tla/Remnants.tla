------------------------------ MODULE Remnants ------------------------------
(***************************************************************************)
(* What is left of a store of entries when the text that holds it is cut   *)
(* off, at any byte.  Texts are atoms; Begins says which of them begins    *)
(* which: <<u, t>> is in it when t starts with u.                          *)
(***************************************************************************)
CONSTANT Begins

\* An entry whose line was cut after its "=": its value or its comment ends early.
CutShort(e, whole) ==
    /\ e.key = whole.key /\ e.comments_before = whole.comments_before
    /\ <<e.value, whole.value>> \in Begins
    /\ <<e.comment, whole.comment>> \in Begins

\* Some of the entries, one of them at most cut short.
Remains(part, whole) ==
    /\ DOMAIN part \subseteq DOMAIN whole
    /\ \A q \in DOMAIN part : part[q] = whole[q] \/ CutShort(part[q], whole[q])
    /\ \A q, r \in DOMAIN part : part[q] # whole[q] /\ part[r] # whole[r] => q = r
=============================================================================
