--------------------------- MODULE PluginSettings ---------------------------
(***************************************************************************)
(* What plugins.ini promises the person who switches plugins on and off:   *)
(* a store of entries, by section and plugin.  Opening the plugin manager  *)
(* only adds entries that are off, a press changes the one entry it was    *)
(* made on and keeps its comments, and the plugins this project installs   *)
(* cannot be switched.                                                     *)
(*                                                                         *)
(* Entries are lost only by a failure: the owner replaces the file; the    *)
(* power goes or the disk is full, which leaves a part of the entries, one *)
(* of them at most cut short; or the file cannot be opened to be read, and *)
(* the save that follows leaves only the entry it was made for.            *)
(***************************************************************************)
EXTENDS Naturals, Remnants

CONSTANTS Plugins, Builtin, Edits

VARIABLES
    entries,   \* a function from <<section, plugin>> to the entry
    unread,    \* whether the file could not be opened for the save to come
    failures   \* how many failures there have been

Nothing == [q \in {} |-> q]

Key(p) == <<"all", p>>

Off(p) == [key |-> p, value |-> "0", comment |-> "", comments_before |-> <<>>]

Put(old, k, entry) == [q \in DOMAIN old \cup {k} |-> IF q = k THEN entry ELSE old[q]]

WithDefault(old, p) == IF Key(p) \in DOMAIN old THEN old ELSE Put(old, Key(p), Off(p))

Switched(old, p, v) ==
    LET all == WithDefault(old, p) IN [all EXCEPT ![Key(p)].value = v]

Init == entries \in Edits /\ unread = FALSE /\ failures = 0

\* What a handler for p may make of the entries it has read.
Default(old, p) == entries' = WithDefault(old, p)

Switch(old, p) ==
    /\ p \notin Builtin
    /\ \E v \in {"0", "1"} : entries' = Switched(old, p, v)

Save(p) ==
    /\ ~unread
    /\ Default(entries, p) \/ Switch(entries, p)
    /\ UNCHANGED <<unread, failures>>

Forget(p) ==
    /\ unread /\ unread' = FALSE
    /\ Default(Nothing, p) \/ Switch(Nothing, p)
    /\ UNCHANGED failures

Failure == failures' = failures + 1

\* Something fails, and nothing is lost yet.
Fail == Failure /\ unread' \in BOOLEAN /\ UNCHANGED entries

Lose == Failure /\ unread' = FALSE /\ Remains(entries', entries)

Edit == Failure /\ entries' \in Edits /\ UNCHANGED unread

Next == (\E p \in Plugins : Save(p) \/ Forget(p)) \/ Fail \/ Lose \/ Edit

Spec == Init /\ [][Next]_<<entries, unread, failures>>
=============================================================================
