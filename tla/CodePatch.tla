----------------------------- MODULE CodePatch -----------------------------
(***************************************************************************)
(* How a plugin redirects the functions of the process it is in            *)
(* (common/memory.c).  A function is redirected by a handful of writes     *)
(* over its first instructions, none of them atomic with the next:         *)
(*                                                                         *)
(*   - CreatePrologueHook copies those instructions, and a jump to what    *)
(*     follows them, to the next free bytes of one pad ("cave"), so that   *)
(*     the hook can still call the function;                               *)
(*   - WriteJump64 writes a 14 byte jump in two writes;                    *)
(*   - Make32to64Jmp finds 14 bytes of padding in the same module by a     *)
(*     scan, writes a 5 byte jump to them and then the long jump there.    *)
(*                                                                         *)
(* A plan is a sequence of functions to redirect, each with the steps that *)
(* are left for it.  Code is abstracted to whether it is what the firmware *)
(* holds, half written, or redirected; scans to whether they find their    *)
(* pattern.                                                                *)
(***************************************************************************)
EXTENDS Integers, Sequences

CONSTANTS
    Functions, \* what is redirected, or overwritten
    Scanned,   \* those of them found by a pattern that the patch destroys
    PadCount,  \* places of padding in each module's text
    CaveSize,  \* MAX_CAVE_SIZE
    Slack      \* how far the last copied instruction reaches past min_instruction_size

JmpStub == 6                  \* sizeof(JMPstub): jmp qword ptr [$+6]
Jump    == JmpStub + 8        \* and the address it jumps to

Texts == {"eboot", "app"}
Pads  == Texts \X (1 .. PadCount)
NoPad == <<"none", 0>>

ASSUME CodePatchAssumption ==
    /\ Scanned \subseteq Functions
    /\ PadCount \in Nat /\ CaveSize \in Nat /\ Slack \in Nat
    /\ "free" \notin Functions /\ "torn" \notin Functions

VARIABLES
    absent,    \* what this firmware does not have, or has in another form
    todo,      \* the plan of the running handler
    code,      \* per function: "native", "torn" or "hooked"
    via,       \* the padding its 5 byte jump leads to, or NoPad
    pad,       \* per place of padding: "free", "torn", or whose jump it holds
    saved,     \* what CreatePrologueHook copied of it: "none" or its code then
    original,  \* X_Original: "null", "cave", "native", or "hook" for the hook itself
    caveInstSize

textVars  == <<code, via, pad>>
hookVars  == <<saved, original, caveInstSize>>
patchVars == <<absent, todo, textVars, hookVars>>

-----------------------------------------------------------------------------
(* Plans.                                                                  *)

Item(f, min, steps) == [f |-> f, min |-> min, text |-> "none", steps |-> <<"find">> \o steps]

ViaPad == <<"pad", "tear", "jump", "padtear", "padjump">>

\* Mutant: X_Original is set once the jump is in place.
LongLate(f, min) == Item(f, min, <<"save", "tear", "jump", "original">>)

\* CreatePrologueHook, X_Original, WriteJump64.
Long(f, min) == Item(f, min, <<"save", "original", "tear", "jump">>)

\* CreatePrologueHook, X_Original, Make32to64Jmp: for prologues too short.
Near(f) == [Item(f, 6, <<"save", "original">> \o ViaPad) EXCEPT !.text = "app"]

\* PatchCall: a call instruction; its hook calls the function by its symbol.
Call(f) == [Item(f, 0, ViaPad) EXCEPT !.text = "eboot"]

\* WriteJump64 on a 5 byte jump, whose destination becomes X_Original.
Import(f) == Item(f, 0, <<"original", "tear", "jump">>)

\* PatchInternalCallList: a function pointer in a table of the runtime.
Pointer(f) == Item(f, 0, <<"original", "jump">>)

\* Overwritten, with a jump or with other bytes, never to be called again.
Over(f) == Item(f, 0, <<"tear", "jump">>)

-----------------------------------------------------------------------------
(* One step of the plan.                                                   *)

Now == Head(todo)
f   == Now.f

At(step) == todo # <<>> /\ Head(Now.steps) = step

\* On to the item's next step, or to the next item.
Did == todo' = IF Len(Now.steps) > 1
               THEN <<[Now EXCEPT !.steps = Tail(@)]>> \o Tail(todo)
               ELSE Tail(todo)

\* Mutant: an item given up ends the handler.
DropAll == todo' = <<>>

\* The item is given up.
Drop == todo' = Tail(todo)

Found(g) == g \notin absent /\ (g \in Scanned => code[g] = "native")

Find ==
    /\ At("find")
    /\ IF Found(f) THEN Did ELSE Drop
    /\ UNCHANGED <<absent, textVars, hookVars>>

\* CreatePrologueHook: only the stub's first part is counted when it asks for
\* room.
Save ==
    LET size == Now.min + Slack
    IN  /\ At("save")
        /\ IF caveInstSize + size + JmpStub <= CaveSize
           THEN /\ saved' = [saved EXCEPT ![f] = code[f]]
                /\ caveInstSize' = caveInstSize + size + Jump
                /\ Did
           ELSE Drop /\ UNCHANGED <<saved, caveInstSize>>
        /\ UNCHANGED <<absent, textVars, original>>

SetOriginal ==
    /\ At("original")
    /\ original' = [original EXCEPT ![f] =
                       IF Now.min > 0 THEN "cave"
                       ELSE IF code[f] = "native" THEN "native" ELSE "hook"]
    /\ Did
    /\ UNCHANGED <<absent, textVars, saved, caveInstSize>>

\* The first place of padding whose bytes are untouched; without one the
\* function is left as it is.
FindPad ==
    LET free == {n \in 1 .. PadCount : pad[<<Now.text, n>>] = "free"}
    IN  /\ At("pad")
        /\ IF free = {} THEN Drop /\ UNCHANGED via
           ELSE /\ \E n \in free : /\ \A m \in free : n <= m
                                   /\ via' = [via EXCEPT ![f] = <<Now.text, n>>]
                /\ Did
        /\ UNCHANGED <<absent, code, pad, hookVars>>

\* The first write of a jump, and the last.
Tear ==
    /\ At("tear")
    /\ code' = [code EXCEPT ![f] = "torn"]
    /\ Did
    /\ UNCHANGED <<absent, via, pad, hookVars>>

Redirect ==
    /\ At("jump")
    /\ code' = [code EXCEPT ![f] = "hooked"]
    /\ Did
    /\ UNCHANGED <<absent, via, pad, hookVars>>

TearPad ==
    /\ At("padtear")
    /\ pad' = [pad EXCEPT ![via[f]] = "torn"]
    /\ Did
    /\ UNCHANGED <<absent, code, via, hookVars>>

WritePad ==
    /\ At("padjump")
    /\ pad' = [pad EXCEPT ![via[f]] = f]
    /\ Did
    /\ UNCHANGED <<absent, code, via, hookVars>>

Patch == Find \/ Save \/ SetOriginal \/ FindPad \/ Tear \/ Redirect \/ TearPad \/ WritePad

\* The text of a process that has just started.
Fresh ==
    [code |-> [g \in Functions |-> "native"], via |-> [g \in Functions |-> NoPad],
     pad |-> [p \in Pads |-> "free"], saved |-> [g \in Functions |-> "none"],
     original |-> [g \in Functions |-> "null"]]

-----------------------------------------------------------------------------
(* What a thread meets in a function.                                      *)

Enter(g) ==
    CASE code[g] = "native" -> "native"
      [] code[g] = "torn"   -> "wild"
      [] code[g] = "hooked" -> IF via[g] = NoPad \/ pad[via[g]] = g THEN "hook" ELSE "wild"

\* X_Original leads to the firmware's own code, and not back to the hook.
OriginalIsNative(g) ==
    original[g] = "native" \/ (original[g] = "cave" /\ saved[g] = "native")
=============================================================================
