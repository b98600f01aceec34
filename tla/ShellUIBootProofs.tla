------------------------- MODULE ShellUIBootProofs -------------------------
(***************************************************************************)
(* What holds of ShellUIBoot for every firmware, pad and text: where every *)
(* function's calls go, when an original may be called, what the mark says *)
(* of a patched SceShellCore, how far the pad may be overrun, and, of a    *)
(* pad with room enough, that nothing is left unpatched by the boot.       *)
(***************************************************************************)
EXTENDS ShellUIBoot, TLAPS

-----------------------------------------------------------------------------
(* The mark.                                                               *)

\* BgftFixupThread touches the mark only after it has written the check, or tried.
TouchesPatched == bgft = "touch" => core = "patched" \/ refused

\* Every step keeps what the mark says: only WriteCore and TouchMark change it or
\* the core, and TouchMark runs after a write.
LEMMA MarkNext ==
    ASSUME MarkSound, TouchesPatched, [Next]_vars
    PROVE  MarkSound' /\ TouchesPatched'
<1> USE DEF MarkSound, TouchesPatched
<1>1. ASSUME UNCHANGED <<coreVars, scanVars>>
      PROVE  MarkSound' /\ TouchesPatched'
  BY <1>1 DEF coreVars, scanVars
<1>2. CASE UNCHANGED vars
  BY <1>1, <1>2 DEF vars
<1>3. CASE PluginLoad \/ AppExeLoaded \/ RootDomainFound \/ Branch \/ Tick
  BY <1>1, <1>3 DEF PluginLoad, AppExeLoaded, RootDomainFound, Branch, Tick
<1>4. CASE PatchStep \/ HandlerEnd
  BY <1>1, <1>4 DEF PatchStep, HandlerEnd
<1>5. CASE UploadBgftFixup
  BY <1>5 DEF UploadBgftFixup, coreVars
<1>6. CASE BgftFixupThread
  <2>1. CASE FindProcess \/ GetCodeInfo \/ ScanChunk \/ ReadRefused
    BY <1>6, <2>1 DEF FindProcess, GetCodeInfo, ScanChunk, ReadRefused, coreVars
  <2>2. CASE WriteCore
    BY <2>2 DEF WriteCore
  <2>3. CASE TouchMark
    <3>1. (core = "patched" \/ refused) /\ core' = core /\ refused' = refused /\ bgft' = "end"
      BY <2>3 DEF TouchMark
    <3> QED BY <3>1
  <2> QED BY <1>6, <2>1, <2>2, <2>3 DEF BgftFixupThread
<1>7. CASE Restart \/ Reboot
  BY <1>7 DEF Restart, Reboot, NewShellUI, coreVars
<1> QED BY <1>2, <1>3, <1>4, <1>5, <1>6, <1>7 DEF Next

\* The file in /user/temp says that SceShellCore is patched only when it is, or
\* when the write to it, whose result nobody looks at, has failed: wherever
\* ShellUI was killed or the console switched off.
THEOREM MarkIsTrue == Spec => []MarkSound
<1>1. Init => MarkSound /\ TouchesPatched
  BY DEF Init, MarkSound, TouchesPatched
<1>2. MarkSound /\ TouchesPatched /\ [Next]_vars => MarkSound' /\ TouchesPatched'
  BY MarkNext
<1> QED BY <1>1, <1>2, PTL DEF Spec

-----------------------------------------------------------------------------
(* The pad.                                                                *)

\* What CreatePrologueHook is asked for is a number of bytes.
Sized == todo \in Seq(Items) /\ caveInstSize \in Nat

\* CreatePrologueHook overruns the pad by the 8 bytes it does not ask for, at
\* most.
Overrun == caveInstSize <= CaveSize + (Jump - JmpStub)

\* Short tuples and concatenations of sequences are sequences.
LEMMA Tuples ==
    ASSUME NEW S
    PROVE  /\ <<>> \in Seq(S)
           /\ \A a \in S : <<a>> \in Seq(S)
           /\ \A a, b \in S : <<a, b>> \in Seq(S)
           /\ \A a, b, c \in S : <<a, b, c>> \in Seq(S)
           /\ \A a, b, c, d \in S : <<a, b, c, d>> \in Seq(S)
           /\ \A s, t \in Seq(S) : s \o t \in Seq(S)
OBVIOUS

\* An item is typed when its function, its length and its steps are.
LEMMA ItemTyped ==
    ASSUME NEW g \in Functions \cup {"Bgft"}, NEW n \in Nat, NEW steps \in Seq(Steps)
    PROVE  Item(g, n, steps) \in Items
<1>1. <<"find">> \o steps \in Seq(Steps)
  BY Tuples DEF Steps
<1> QED BY <1>1 DEF Item, Items

\* The steps after "find" of every kind of item.
LEMMA StepsTyped ==
    /\ ViaPad \in Seq(Steps) /\ <<"save", "original">> \o ViaPad \in Seq(Steps)
    /\ <<"save", "original", "tear", "jump">> \in Seq(Steps)
    /\ <<"original", "tear", "jump">> \in Seq(Steps)
    /\ <<"original", "jump">> \in Seq(Steps) /\ <<"tear", "jump">> \in Seq(Steps)
    /\ <<"bgft">> \in Seq(Steps)
BY Tuples DEF ViaPad, Steps

\* Every kind of item is one.
LEMMA KindsTyped ==
    ASSUME NEW g \in Functions
    PROVE  /\ \A n \in Nat : Long(g, n) \in Items
           /\ Near(g) \in Items /\ Call(g) \in Items /\ Over(g) \in Items
           /\ Import(g) \in Items /\ Pointer(g) \in Items
<1>1. \A n \in Nat : Long(g, n) \in Items
  BY ItemTyped, StepsTyped DEF Long
<1>2. Near(g) \in Items
  <2>1. Item(g, 6, <<"save", "original">> \o ViaPad) \in Items
    BY ItemTyped, StepsTyped
  <2> QED BY <2>1 DEF Near, Items, Texts
<1>3. Call(g) \in Items
  <2>1. Item(g, 0, ViaPad) \in Items
    BY ItemTyped, StepsTyped
  <2> QED BY <2>1 DEF Call, Items, Texts
<1>4. Over(g) \in Items /\ Import(g) \in Items /\ Pointer(g) \in Items
  BY ItemTyped, StepsTyped DEF Over, Import, Pointer
<1> QED BY <1>1, <1>2, <1>3, <1>4

\* What every handler patches is a sequence of items.
LEMMA PlansTyped ==
    /\ LoadPlan \in Seq(Items) /\ RunPost \in Seq(Items)
    /\ BranchPlan \in Seq(Items) /\ PrintTimeTick \in Seq(Items)
<1> USE KindsTyped, BootAssumption DEF Redirected
<1>1. LoadPlan \in Seq(Items)
  BY Tuples DEF LoadPlan
<1>2. RunPost \in Seq(Items)
  <2>1. Item("Bgft", 0, <<"bgft">>) \in Items
    BY ItemTyped, StepsTyped
  <2>2. /\ UploadRegStrCall \in Seq(Items) /\ UploadRemotePlayPatch \in Seq(Items)
        /\ UploadFinishBootEffectCode \in Seq(Items) /\ UploadDebugSettingsPatch \in Seq(Items)
    BY Tuples DEF UploadRegStrCall, UploadRemotePlayPatch, UploadFinishBootEffectCode,
                  UploadDebugSettingsPatch
  <2>3. /\ <<Call("EventProxy")>> \in Seq(Items) /\ <<Over("HwSerial")>> \in Seq(Items)
        /\ <<Item("Bgft", 0, <<"bgft">>)>> \in Seq(Items)
    BY <2>1, Tuples
  <2> QED BY <2>2, <2>3, Tuples DEF RunPost
<1>3. BranchPlan \in Seq(Items)
  <2>1. UploadNewPkgInstallerPath \in Seq(Items)
    BY Tuples DEF UploadNewPkgInstallerPath
  <2>2. UploadOnBranch \in Seq(Items)
    BY DEF UploadOnBranch
  <2> QED BY <2>1, <2>2, Tuples DEF BranchPlan
<1>4. PrintTimeTick \in Seq(Items)
  BY Tuples DEF PrintTimeTick, UploadResourceStreamBranch, MainThreadCheck
<1> QED BY <1>1, <1>2, <1>3, <1>4

\* Going on to an item's next step, or to the next item, keeps the plan typed.
LEMMA DidTyped ==
    ASSUME Sized, NEW step, At(step), Did \/ Drop
    PROVE  todo' \in Seq(Items)
<1>1. Now \in Items /\ Tail(todo) \in Seq(Items)
  BY DEF Sized, At, Now
<1>2. Now.steps \in Seq(Steps)
  BY <1>1 DEF Items
<1>3. CASE Drop
  BY <1>1, <1>3 DEF Drop
<1>4. CASE Did
  <2>1. CASE Len(Now.steps) > 1
    <3>1. \A i \in Items, t \in Seq(Steps) : [i EXCEPT !.steps = t] \in Items
      BY DEF Items
    <3>2. Tail(Now.steps) \in Seq(Steps)
      BY <1>2, <2>1
    <3>3. [Now EXCEPT !.steps = Tail(@)] \in Items
      BY <1>1, <3>1, <3>2
    <3> QED BY <1>1, <1>4, <2>1, <3>3, Tuples DEF Did
  <2>2. CASE ~(Len(Now.steps) > 1)
    BY <1>1, <1>4, <2>2 DEF Did
  <2> QED BY <2>1, <2>2
<1> QED BY <1>3, <1>4

\* Every step keeps the overrun within the 8 bytes: only Save counts bytes.
LEMMA OverrunNext ==
    ASSUME Sized, Overrun, [Next]_vars
    PROVE  Sized' /\ Overrun'
<1> USE CodePatchAssumption DEF Sized, Overrun, Jump, JmpStub
<1>1. CASE UNCHANGED vars
  BY <1>1 DEF vars, patchVars, hookVars
<1>2. CASE PluginLoad \/ AppExeLoaded \/ RootDomainFound \/ Branch
  BY <1>2, PlansTyped
  DEF PluginLoad, AppExeLoaded, RootDomainFound, Branch, Start, hookVars, patchVars
<1>3. CASE Tick
  <2>1. todo' = PrintTimeTick \/ todo' = <<>>
    BY <1>3 DEF Tick, Start
  <2>2. UNCHANGED caveInstSize
    BY <1>3 DEF Tick, hookVars
  <2> QED BY <2>1, <2>2, PlansTyped, Tuples
<1>4. CASE PatchStep
  <2>1. CASE Save
    <3>1. todo' \in Seq(Items)
      BY <2>1, DidTyped DEF Save
    <3>2. Now.min \in Nat
      <4>1. Now \in Items
        BY <2>1 DEF Save, At, Now
      <4> QED BY <4>1 DEF Items
    <3>3. caveInstSize' \in Nat /\ Overrun'
      BY <2>1, <3>2 DEF Save
    <3> QED BY <3>1, <3>3
  <2>2. CASE Find \/ SetOriginal \/ FindPad \/ Tear \/ Redirect \/ TearPad \/ WritePad
    <3>1. UNCHANGED caveInstSize
      BY <2>2 DEF Find, SetOriginal, FindPad, Tear, Redirect, TearPad, WritePad, hookVars
    <3>2. todo' \in Seq(Items)
      BY <2>2, DidTyped DEF Find, SetOriginal, FindPad, Tear, Redirect, TearPad, WritePad
    <3> QED BY <3>1, <3>2
  <2> QED BY <1>4, <2>1, <2>2 DEF PatchStep, Patch
<1>5. CASE UploadBgftFixup
  <2>1. UNCHANGED caveInstSize
    BY <1>5 DEF UploadBgftFixup, hookVars
  <2>2. todo' = Tail(todo) \/ todo' = <<Pointer("CallList")>> \o Tail(todo)
    BY <1>5 DEF UploadBgftFixup, Drop
  <2>3. Tail(todo) \in Seq(Items)
    BY <1>5 DEF UploadBgftFixup, At
  <2>4. Pointer("CallList") \in Items
    BY KindsTyped, BootAssumption DEF Redirected
  <2> QED BY <2>1, <2>2, <2>3, <2>4, Tuples
<1>6. CASE HandlerEnd \/ BgftFixupThread
  BY <1>6 DEF HandlerEnd, BgftFixupThread, FindProcess, GetCodeInfo, ScanChunk,
              ReadRefused, WriteCore, TouchMark, UiUnchanged,
              patchVars, hookVars
<1>7. CASE Restart \/ Reboot
  <2>1. todo' = <<>> /\ caveInstSize' = 0
    BY <1>7 DEF Restart, Reboot, NewShellUI
  <2> QED BY <2>1, Tuples
<1> QED BY <1>1, <1>2, <1>3, <1>4, <1>5, <1>6, <1>7 DEF Next

\* CreatePrologueHook asks for 6 of the 14 bytes of the jump it adds: whatever
\* the sizes of the pad and of the hooks, the pad is overrun by those 8 at most.
THEOREM PadOverrun == Spec => []Overrun
<1>1. Init => Sized /\ Overrun
  BY CodePatchAssumption DEF Init, Sized, Overrun, Jump, JmpStub
<1>2. Sized /\ Overrun /\ [Next]_vars => Sized' /\ Overrun'
  BY OverrunNext
<1> QED BY <1>1, <1>2, PTL DEF Spec

-----------------------------------------------------------------------------
(* What a redirected function leads to.                                    *)

\* The functions each handler redirects.
OfLoad == {"LoadModule"}
OfPost == {"EventProxy", "RegStr", "SystemName", "Icons", "RemotePlay", "CallList",
           "FinishBoot", "HwSerial", "DebugMenu"}
OfBranch == {"SearchDir", "NewElement", "OnPress", "OnPreCreate", "OnPageActivating",
             "OnCheckVisible", "StartSettingsPage", "SetImage", "GetString", "OfflinePanel",
             "InitProperty", "OnConfirm", "OnPageDeactivating", "LaunchPlugin"}
OfTick == {"ResourceStream", "MainThread"}

Of(handler) ==
    IF handler = "load" THEN OfLoad
    ELSE IF handler = "post" THEN OfPost
    ELSE IF handler = "branch" THEN OfBranch
    ELSE IF handler = "tick" THEN OfTick
    ELSE {}

\* What an item of a plan is going to redirect: UploadBgftFixup puts an item for
\* the call list in its own place.
Target(i) == IF i.f = "Bgft" THEN "CallList" ELSE i.f

\* The rests of the plans, from the step that is due.
Jump1 == <<"jump">>
Jump2 == <<"tear", "jump">>
Jump3 == <<"original", "tear", "jump">>
Jump4 == <<"save", "original", "tear", "jump">>
Slot2 == <<"original", "jump">>
Via1  == <<"padjump">>
Via2  == <<"padtear", "padjump">>
Via3  == <<"jump", "padtear", "padjump">>
Via4  == <<"tear", "jump", "padtear", "padjump">>
Via5  == <<"pad", "tear", "jump", "padtear", "padjump">>
Via6  == <<"original", "pad", "tear", "jump", "padtear", "padjump">>
Via7  == <<"save", "original", "pad", "tear", "jump", "padtear", "padjump">>

\* An item that nobody has begun; a function whose original nothing calls may do
\* without one.
Whole(i) ==
    \/ /\ i.f \in Functions
       /\ \/ i = Long(i.f, i.min) /\ i.min # 0
          \/ i \in {Near(i.f), Import(i.f), Pointer(i.f)}
          \/ i \in {Call(i.f), Over(i.f)} /\ i.f \notin CallsOriginal
    \/ i = Item("Bgft", 0, <<"bgft">>)

\* The firmware's code, with no padding chosen for it.
Plain(g) == code[g] = "native" /\ via[g] = NoPad

\* A hook that calls the function gets to the firmware's code.
HasOriginal(g) == g \in CallsOriginal => OriginalIsNative(g)

\* A function that is left as it was, or wholly redirected.
Settled(g) ==
    \/ Plain(g)
    \/ /\ code[g] = "hooked" /\ HasOriginal(g)
       /\ via[g] = NoPad \/ (via[g] \in Pads /\ pad[via[g]] = g)

\* Padding is chosen for the function, and holds so much of its jump.
Chosen(g, what) == via[g] \in Pads /\ pad[via[g]] = what

\* How far the function of an item is when these steps are left for it.
Stage(i) ==
    \/ /\ i.steps \in {Jump4, Via7} /\ i.min # 0 /\ Plain(i.f)
    \/ /\ i.steps \in {Jump3, Via6} /\ i.min # 0 /\ Plain(i.f) /\ saved[i.f] = "native"
    \/ /\ i.steps \in {Jump3, Slot2} /\ i.min = 0 /\ Plain(i.f)
    \/ /\ HasOriginal(i.f)
       /\ \/ i.steps \in {Jump1, Jump2, Via5} /\ Plain(i.f)
          \/ i.steps = Jump1 /\ code[i.f] = "torn" /\ via[i.f] = NoPad
          \/ i.steps = Via4 /\ code[i.f] = "native" /\ Chosen(i.f, "free")
          \/ i.steps = Via3 /\ code[i.f] = "torn" /\ Chosen(i.f, "free")
          \/ i.steps = Via2 /\ code[i.f] = "hooked" /\ Chosen(i.f, "free")
          \/ i.steps = Via1 /\ code[i.f] = "hooked" /\ Chosen(i.f, "torn")

InWork(i) ==
    \/ /\ i.f \in Functions /\ Stage(i)
       /\ i.steps \in {Via5, Via6, Via7} => i.text \in Texts
    \/ i.f = "Bgft" /\ i.steps = <<"bgft">> /\ Plain("CallList")

\* The first item may be one that plugin_load repeats.
First(i) ==
    \/ Whole(i) /\ (Plain(Target(i)) \/ i = Import("LoadModule"))
    \/ InWork(i)

\* Those behind it have not been begun, nor their functions touched.
Waits(s) == \A k \in 1 .. Len(s) : Whole(s[k]) /\ Plain(Target(s[k]))

Apart(s) == \A k, l \in 1 .. Len(s) : k # l => Target(s[k]) # Target(s[l])

Queue ==
    /\ todo # <<>> => First(Head(todo)) /\ Waits(Tail(todo))
    /\ Apart(todo)
    /\ \A k \in 1 .. Len(todo) : Target(todo[k]) \in Of(busy)

\* What a handler redirects is untouched before it has run, and it runs once.
Untouched ==
    /\ ~test /\ busy # "post" => \A g \in OfPost : Plain(g)
    /\ ~app_exe => \A g \in OfBranch : Plain(g)
    /\ ~ticked /\ busy # "tick" => \A g \in OfTick : Plain(g)
    /\ app_exe => root_domain
    /\ busy = "branch" => app_exe

\* The function of the first item is begun and not finished.
Begun(g) == todo # <<>> /\ f = g /\ Now.steps # <<"bgft">> /\ ~At("find")

Texted ==
    /\ code \in [Functions -> {"native", "torn", "hooked"}]
    /\ via \in [Functions -> Pads \cup {NoPad}]
    /\ pad \in [Pads -> {"free", "torn"} \cup Functions]
    /\ saved \in [Functions -> {"none", "native", "torn", "hooked"}]
    /\ original \in [Functions -> {"null", "cave", "native", "hook"}]

IInv ==
    /\ Sized /\ Overrun /\ Texted
    /\ \A g \in Functions : ~Begun(g) => Settled(g)
    /\ Queue
    /\ Untouched

\* No function is redirected by two handlers.
LEMMA OwnFunctions ==
    /\ \A h : Of(h) \subseteq Functions
    /\ \A h : h # "post" => Of(h) \cap OfPost = {}
    /\ \A h : h # "branch" => Of(h) \cap OfBranch = {}
    /\ \A h : h # "tick" => Of(h) \cap OfTick = {}
    /\ OfPost \subseteq Functions /\ OfBranch \subseteq Functions /\ OfTick \subseteq Functions
<1> USE DEF OfLoad, OfPost, OfBranch, OfTick
<1>1. \A h : h # "post" => Of(h) \cap OfPost = {}
  BY DEF Of
<1>2. \A h : h # "branch" => Of(h) \cap OfBranch = {}
  BY DEF Of
<1>3. \A h : h # "tick" => Of(h) \cap OfTick = {}
  BY DEF Of
<1>4. /\ OfLoad \subseteq Functions /\ OfPost \subseteq Functions
      /\ OfBranch \subseteq Functions /\ OfTick \subseteq Functions
  BY BootAssumption DEF Redirected
<1>5. \A h : Of(h) \subseteq Functions
  BY <1>4 DEF Of
<1> QED BY <1>1, <1>2, <1>3, <1>4, <1>5

\* What is due, and what is left after it.
LEMMA Rests ==
    /\ Jump1 \in Seq(Steps) /\ Len(Jump1) = 1 /\ Head(Jump1) = "jump"
    /\ Jump2 \in Seq(Steps) /\ Len(Jump2) = 2 /\ Head(Jump2) = "tear" /\ Tail(Jump2) = Jump1
    /\ Jump3 \in Seq(Steps) /\ Len(Jump3) = 3 /\ Head(Jump3) = "original" /\ Tail(Jump3) = Jump2
    /\ Jump4 \in Seq(Steps) /\ Len(Jump4) = 4 /\ Head(Jump4) = "save" /\ Tail(Jump4) = Jump3
    /\ Slot2 \in Seq(Steps) /\ Len(Slot2) = 2 /\ Head(Slot2) = "original" /\ Tail(Slot2) = Jump1
    /\ Via1 \in Seq(Steps) /\ Len(Via1) = 1 /\ Head(Via1) = "padjump"
    /\ Via2 \in Seq(Steps) /\ Len(Via2) = 2 /\ Head(Via2) = "padtear" /\ Tail(Via2) = Via1
    /\ Via3 \in Seq(Steps) /\ Len(Via3) = 3 /\ Head(Via3) = "jump" /\ Tail(Via3) = Via2
    /\ Via4 \in Seq(Steps) /\ Len(Via4) = 4 /\ Head(Via4) = "tear" /\ Tail(Via4) = Via3
    /\ Via5 \in Seq(Steps) /\ Len(Via5) = 5 /\ Head(Via5) = "pad" /\ Tail(Via5) = Via4
    /\ Via6 \in Seq(Steps) /\ Len(Via6) = 6 /\ Head(Via6) = "original" /\ Tail(Via6) = Via5
    /\ Via7 \in Seq(Steps) /\ Len(Via7) = 7 /\ Head(Via7) = "save" /\ Tail(Via7) = Via6
    /\ <<"bgft">> \in Seq(Steps) /\ Len(<<"bgft">>) = 1 /\ Head(<<"bgft">>) = "bgft"
<1>1. Jump1 \in Seq(Steps) /\ Len(Jump1) = 1 /\ Head(Jump1) = "jump"
  BY DEF Jump1, Steps
<1>2. Jump2 \in Seq(Steps) /\ Len(Jump2) = 2 /\ Head(Jump2) = "tear" /\ Tail(Jump2) = Jump1
  BY DEF Jump2, Jump1, Steps
<1>3. Jump3 \in Seq(Steps) /\ Len(Jump3) = 3 /\ Head(Jump3) = "original" /\ Tail(Jump3) = Jump2
  BY DEF Jump3, Jump2, Steps
<1>4. Jump4 \in Seq(Steps) /\ Len(Jump4) = 4 /\ Head(Jump4) = "save" /\ Tail(Jump4) = Jump3
  BY DEF Jump4, Jump3, Steps
<1>5. Slot2 \in Seq(Steps) /\ Len(Slot2) = 2 /\ Head(Slot2) = "original" /\ Tail(Slot2) = Jump1
  BY DEF Slot2, Jump1, Steps
<1>6. Via1 \in Seq(Steps) /\ Len(Via1) = 1 /\ Head(Via1) = "padjump"
  BY DEF Via1, Steps
<1>7. Via2 \in Seq(Steps) /\ Len(Via2) = 2 /\ Head(Via2) = "padtear" /\ Tail(Via2) = Via1
  BY DEF Via2, Via1, Steps
<1>8. Via3 \in Seq(Steps) /\ Len(Via3) = 3 /\ Head(Via3) = "jump" /\ Tail(Via3) = Via2
  BY DEF Via3, Via2, Steps
<1>9. Via4 \in Seq(Steps) /\ Len(Via4) = 4 /\ Head(Via4) = "tear" /\ Tail(Via4) = Via3
  BY DEF Via4, Via3, Steps
<1>10. Via5 \in Seq(Steps) /\ Len(Via5) = 5 /\ Head(Via5) = "pad" /\ Tail(Via5) = Via4
  BY DEF Via5, Via4, Steps
<1>11. Via6 \in Seq(Steps) /\ Len(Via6) = 6 /\ Head(Via6) = "original" /\ Tail(Via6) = Via5
  BY DEF Via6, Via5, Steps
<1>12. Via7 \in Seq(Steps) /\ Len(Via7) = 7 /\ Head(Via7) = "save" /\ Tail(Via7) = Via6
  BY DEF Via7, Via6, Steps
<1>13. <<"bgft">> \in Seq(Steps) /\ Len(<<"bgft">>) = 1 /\ Head(<<"bgft">>) = "bgft"
  BY DEF Steps
<1> QED BY <1>1, <1>2, <1>3, <1>4, <1>5, <1>6, <1>7, <1>8, <1>9, <1>10, <1>11, <1>12, <1>13

\* The rests that still need padding are no others.
LEMMA PadRests ==
    /\ Jump1 \notin {Via5, Via6, Via7} /\ Jump2 \notin {Via5, Via6, Via7}
    /\ Jump3 \notin {Via5, Via6, Via7} /\ Jump4 \notin {Via5, Via6, Via7}
    /\ Slot2 \notin {Via5, Via6, Via7} /\ <<"bgft">> \notin {Via5, Via6, Via7}
    /\ Via1 \notin {Via5, Via6, Via7} /\ Via2 \notin {Via5, Via6, Via7}
    /\ Via3 \notin {Via5, Via6, Via7} /\ Via4 \notin {Via5, Via6, Via7}
<1>1. Len(Via5) = 5 /\ Len(Via6) = 6 /\ Len(Via7) = 7
  BY Rests
<1>2. /\ Len(Jump1) = 1 /\ Len(Jump2) = 2 /\ Len(Jump3) = 3 /\ Len(Jump4) = 4
      /\ Len(Slot2) = 2 /\ Len(<<"bgft">>) = 1
      /\ Len(Via1) = 1 /\ Len(Via2) = 2 /\ Len(Via3) = 3 /\ Len(Via4) = 4
  BY Rests
<1> QED BY <1>1, <1>2

LEMMA FindThen ==
    ASSUME NEW rest \in Seq(Steps), Len(rest) > 0, NEW steps, steps = <<"find">> \o rest
    PROVE  Head(steps) = "find" /\ Len(steps) > 1 /\ Tail(steps) = rest
<1>1. Head(steps) = "find" /\ Len(steps) > 1
  OBVIOUS
<1>2. Tail(steps) = rest
  OBVIOUS
<1> QED BY <1>1, <1>2

\* An item that has not been begun looks for its function first.
LEMMA WholeSteps ==
    ASSUME NEW i, Whole(i)
    PROVE  /\ Head(i.steps) = "find" /\ Len(i.steps) > 1
           /\ \/ /\ i.f \in Functions
                 /\ \/ Tail(i.steps) \in {Jump4, Via7} /\ i.min # 0
                    \/ Tail(i.steps) \in {Jump3, Slot2} /\ i.min = 0
                    \/ Tail(i.steps) \in {Jump2, Via5} /\ i.f \notin CallsOriginal
              \/ i.f = "Bgft" /\ Tail(i.steps) = <<"bgft">>
           /\ Tail(i.steps) \in {Via5, Via6, Via7} => i.text \in Texts
<1>1. CASE i = Long(i.f, i.min) /\ i.min # 0 /\ i.f \in Functions
  <2>1. i.steps = <<"find">> \o Jump4
    BY <1>1 DEF Long, Item, Jump4
  <2>2. Head(i.steps) = "find" /\ Len(i.steps) > 1 /\ Tail(i.steps) = Jump4
    <3>1. Jump4 \in Seq(Steps) /\ Len(Jump4) > 0
      BY Rests
    <3> QED BY <2>1, <3>1, FindThen
  <2> QED BY <1>1, <2>1, <2>2, PadRests
<1>2. CASE i = Near(i.f) /\ i.f \in Functions
  <2>1. i.steps = <<"find">> \o Via7 /\ i.min = 6 /\ i.text = "app"
    BY <1>2 DEF Near, Item, Via7, ViaPad
  <2>2. Head(i.steps) = "find" /\ Len(i.steps) > 1 /\ Tail(i.steps) = Via7
    <3>1. Via7 \in Seq(Steps) /\ Len(Via7) > 0
      BY Rests
    <3> QED BY <2>1, <3>1, FindThen
  <2> QED BY <1>2, <2>1, <2>2, PadRests DEF Texts
<1>3. CASE i = Import(i.f) /\ i.f \in Functions
  <2>1. i.steps = <<"find">> \o Jump3 /\ i.min = 0
    BY <1>3 DEF Import, Item, Jump3
  <2>2. Head(i.steps) = "find" /\ Len(i.steps) > 1 /\ Tail(i.steps) = Jump3
    <3>1. Jump3 \in Seq(Steps) /\ Len(Jump3) > 0
      BY Rests
    <3> QED BY <2>1, <3>1, FindThen
  <2> QED BY <1>3, <2>1, <2>2, PadRests
<1>4. CASE i = Pointer(i.f) /\ i.f \in Functions
  <2>1. i.steps = <<"find">> \o Slot2 /\ i.min = 0
    BY <1>4 DEF Pointer, Item, Slot2
  <2>2. Head(i.steps) = "find" /\ Len(i.steps) > 1 /\ Tail(i.steps) = Slot2
    <3>1. Slot2 \in Seq(Steps) /\ Len(Slot2) > 0
      BY Rests
    <3> QED BY <2>1, <3>1, FindThen
  <2> QED BY <1>4, <2>1, <2>2, PadRests
<1>5. CASE i = Call(i.f) /\ i.f \in Functions /\ i.f \notin CallsOriginal
  <2>1. i.steps = <<"find">> \o Via5 /\ i.text = "eboot"
    BY <1>5 DEF Call, Item, Via5, ViaPad
  <2>2. Head(i.steps) = "find" /\ Len(i.steps) > 1 /\ Tail(i.steps) = Via5
    <3>1. Via5 \in Seq(Steps) /\ Len(Via5) > 0
      BY Rests
    <3> QED BY <2>1, <3>1, FindThen
  <2> QED BY <1>5, <2>1, <2>2, PadRests DEF Texts
<1>6. CASE i = Over(i.f) /\ i.f \in Functions /\ i.f \notin CallsOriginal
  <2>1. i.steps = <<"find">> \o Jump2
    BY <1>6 DEF Over, Item, Jump2
  <2>2. Head(i.steps) = "find" /\ Len(i.steps) > 1 /\ Tail(i.steps) = Jump2
    <3>1. Jump2 \in Seq(Steps) /\ Len(Jump2) > 0
      BY Rests
    <3> QED BY <2>1, <3>1, FindThen
  <2> QED BY <1>6, <2>1, <2>2, PadRests
<1>7. CASE i = Item("Bgft", 0, <<"bgft">>)
  <2>1. i.steps = <<"find">> \o <<"bgft">> /\ i.f = "Bgft"
    BY <1>7 DEF Item
  <2>2. Head(i.steps) = "find" /\ Len(i.steps) > 1 /\ Tail(i.steps) = <<"bgft">>
    <3>1. <<"bgft">> \in Seq(Steps) /\ Len(<<"bgft">>) > 0
      BY Rests
    <3> QED BY <2>1, <3>1, FindThen
  <2> QED BY <1>7, <2>1, <2>2, PadRests
<1> QED BY <1>1, <1>2, <1>3, <1>4, <1>5, <1>6, <1>7 DEF Whole

\* A plan whose first item goes on to its next step.
LEMMA QueueGoesOn ==
    ASSUME todo \in Seq(Items), todo # <<>>, Queue, NEW j, Target(j) = Target(Now),
           todo' = <<j>> \o Tail(todo), First(j)', UNCHANGED busy,
           \A h \in Functions : h # Target(Now) /\ Plain(h) => Plain(h)'
    PROVE  Queue'
<1>0. PICK rest : rest = Tail(todo)
  OBVIOUS
<1>1. /\ rest \in Seq(Items) /\ Len(rest) = Len(todo) - 1 /\ Len(todo) \in Nat \ {0}
      /\ \A k \in 1 .. Len(rest) : rest[k] = todo[k + 1]
  BY <1>0
<1>2. todo[1] = Now
  BY DEF Now
<1>3. /\ Len(todo') = Len(todo) /\ todo'[1] = j /\ Head(todo') = j
      /\ \A k \in 2 .. Len(todo) : todo'[k] = todo[k]
  <2>1. Len(<<j>>) = 1 /\ <<j>>[1] = j
    OBVIOUS
  <2>2. /\ Len(<<j>> \o rest) = 1 + Len(rest) /\ (<<j>> \o rest)[1] = j
        /\ \A k \in 2 .. Len(rest) + 1 : (<<j>> \o rest)[k] = rest[k - 1]
    BY <1>1
  <2>3. \A k \in 2 .. Len(todo) : rest[k - 1] = todo[k]
    BY <1>1
  <2> QED BY <1>0, <1>1, <2>2, <2>3
<1>4. Tail(todo') = rest
  BY <1>0, <1>1
<1>5. \A k \in 1 .. Len(todo) : Target(todo'[k]) = Target(todo[k])
  BY <1>2, <1>3
<1>6. Apart(todo)'
  BY <1>3, <1>5 DEF Queue, Apart
<1>7. \A k \in 1 .. Len(todo') : Target(todo'[k]) \in Of(busy')
  BY <1>3, <1>5 DEF Queue
<1>8. Waits(rest)'
  <2>1. ASSUME NEW k \in 1 .. Len(rest)
        PROVE  Whole(rest[k]) /\ Plain(Target(rest[k]))'
    <3>1. k + 1 \in 1 .. Len(todo) /\ 1 \in 1 .. Len(todo) /\ k + 1 # 1
      BY <1>1
    <3>2. Target(rest[k]) # Target(Now) /\ Target(rest[k]) \in Functions
      BY <1>1, <1>2, <3>1, OwnFunctions DEF Queue, Apart
    <3>3. Whole(rest[k]) /\ Plain(Target(rest[k]))
      BY <1>0 DEF Queue, Waits
    <3> QED BY <3>2, <3>3
  <2> QED BY <2>1 DEF Waits
<1> QED BY <1>3, <1>4, <1>6, <1>7, <1>8 DEF Queue

\* A plan whose first item is done, or given up.
LEMMA QueuePops ==
    ASSUME todo \in Seq(Items), todo # <<>>, Queue, todo' = Tail(todo), UNCHANGED busy,
           \A h \in Functions : h # Target(Now) /\ Plain(h) => Plain(h)'
    PROVE  Queue'
<1>0. PICK rest : rest = Tail(todo)
  OBVIOUS
<1>1. /\ rest \in Seq(Items) /\ Len(rest) = Len(todo) - 1 /\ Len(todo) \in Nat \ {0}
      /\ \A k \in 1 .. Len(rest) : rest[k] = todo[k + 1]
  BY <1>0
<1>2. todo[1] = Now
  BY DEF Now
<1>3. ASSUME NEW k \in 1 .. Len(rest)
      PROVE  Whole(rest[k]) /\ Plain(Target(rest[k]))'
  <2>1. k + 1 \in 1 .. Len(todo) /\ 1 \in 1 .. Len(todo) /\ k + 1 # 1
    BY <1>1
  <2>2. Target(rest[k]) # Target(Now) /\ Target(rest[k]) \in Functions
    BY <1>1, <1>2, <2>1, OwnFunctions DEF Queue, Apart
  <2>3. Whole(rest[k]) /\ Plain(Target(rest[k]))
    BY <1>0 DEF Queue, Waits
  <2> QED BY <2>2, <2>3
<1>4. Apart(rest)
  <2>1. \A k, l \in 1 .. Len(rest) : k # l => k + 1 \in 1 .. Len(todo)
                                              /\ l + 1 \in 1 .. Len(todo) /\ k + 1 # l + 1
    BY <1>1
  <2> QED BY <1>1, <2>1 DEF Queue, Apart
<1>5. \A k \in 1 .. Len(rest) : Target(rest[k]) \in Of(busy)
  BY <1>1 DEF Queue
<1>6. ASSUME rest # <<>>
      PROVE  First(Head(rest))' /\ Waits(Tail(rest))'
  <2>1. 1 \in 1 .. Len(rest) /\ Head(rest) = rest[1]
    BY <1>1, <1>6
  <2>2. /\ Len(Tail(rest)) = Len(rest) - 1
        /\ \A k \in 1 .. Len(Tail(rest)) : k + 1 \in 1 .. Len(rest) /\ Tail(rest)[k] = rest[k + 1]
    BY <1>1, <1>6
  <2>3. \A k \in 1 .. Len(Tail(rest)) : Whole(Tail(rest)[k]) /\ Plain(Target(Tail(rest)[k]))'
    BY <1>3, <2>2
  <2> QED BY <1>3, <2>1, <2>3 DEF First, Waits
<1> QED BY <1>0, <1>4, <1>5, <1>6 DEF Queue

\* A step on one function leaves what other handlers redirect untouched.
LEMMA StaysUntouched ==
    ASSUME Untouched, Queue, todo \in Seq(Items), todo # <<>>, UNCHANGED bootVars,
           \A h \in Functions : h # Target(Now) /\ Plain(h) => Plain(h)'
    PROVE  Untouched'
<1>1. Target(Now) \in Of(busy)
  <2>1. todo[1] = Now /\ 1 \in 1 .. Len(todo)
    BY DEF Now
  <2> QED BY <2>1 DEF Queue
<1> QED BY <1>1, OwnFunctions DEF Untouched, bootVars

\* A plan for some functions: no item of it is begun, and no two are for the same.
PlanFor(s, fns) ==
    /\ s \in Seq(Items)
    /\ \A k \in 1 .. Len(s) : Whole(s[k]) /\ Target(s[k]) \in fns
    /\ Apart(s)

\* Every kind of item is whole, and redirects its function.
LEMMA WholeKinds ==
    ASSUME NEW g \in Functions
    PROVE  /\ Whole(Long(g, 15)) /\ Target(Long(g, 15)) = g
           /\ Whole(Long(g, 17)) /\ Target(Long(g, 17)) = g
           /\ Whole(Near(g)) /\ Target(Near(g)) = g
           /\ Whole(Import(g)) /\ Target(Import(g)) = g
           /\ Whole(Pointer(g)) /\ Target(Pointer(g)) = g
           /\ g \notin CallsOriginal => Whole(Call(g)) /\ Whole(Over(g))
           /\ Target(Call(g)) = g /\ Target(Over(g)) = g
<1>1. /\ Long(g, 15).f = g /\ Long(g, 15).min = 15 /\ Long(g, 17).f = g /\ Long(g, 17).min = 17
      /\ Near(g).f = g /\ Import(g).f = g /\ Pointer(g).f = g /\ Call(g).f = g /\ Over(g).f = g
  BY DEF Long, Near, Import, Pointer, Call, Over, Item
<1>2. g # "Bgft"
  BY BootAssumption
<1> QED BY <1>1, <1>2 DEF Whole, Target

\* One item is a plan for its function.
LEMMA PlanOfOne ==
    ASSUME NEW i \in Items, Whole(i)
    PROVE  PlanFor(<<i>>, {Target(i)})
BY Tuples DEF PlanFor, Apart

\* Two plans for different functions make one.
LEMMA PlanJoin ==
    ASSUME NEW s, NEW t, NEW fns, NEW gns, PlanFor(s, fns), PlanFor(t, gns),
           fns \cap gns = {}, NEW both, both = fns \cup gns
    PROVE  PlanFor(s \o t, both)
<1>0. s \in Seq(Items) /\ t \in Seq(Items) /\ s \o t \in Seq(Items)
  BY Tuples DEF PlanFor
<1>1. Len(s) \in Nat /\ Len(t) \in Nat /\ Len(s \o t) = Len(s) + Len(t)
  BY <1>0
<1>2. ASSUME NEW k \in 1 .. Len(s \o t)
      PROVE  \/ k \in 1 .. Len(s) /\ (s \o t)[k] = s[k]
             \/ k - Len(s) \in 1 .. Len(t) /\ (s \o t)[k] = t[k - Len(s)]
  BY <1>0, <1>1
<1>3. \A k \in 1 .. Len(s) : Whole(s[k]) /\ Target(s[k]) \in fns
  BY DEF PlanFor
<1>4. \A k \in 1 .. Len(t) : Whole(t[k]) /\ Target(t[k]) \in gns
  BY DEF PlanFor
<1>5. \A k \in 1 .. Len(s \o t) : Whole((s \o t)[k]) /\ Target((s \o t)[k]) \in fns \cup gns
  <2>1. SUFFICES ASSUME NEW k \in 1 .. Len(s \o t)
                 PROVE  Whole((s \o t)[k]) /\ Target((s \o t)[k]) \in fns \cup gns
    OBVIOUS
  <2> QED BY <1>2, <1>3, <1>4
<1>6. ASSUME NEW k \in 1 .. Len(s \o t), NEW l \in 1 .. Len(s \o t), k # l
      PROVE  Target((s \o t)[k]) # Target((s \o t)[l])
  <2>1. CASE k \in 1 .. Len(s) /\ l \in 1 .. Len(s)
    <3>1. (s \o t)[k] = s[k] /\ (s \o t)[l] = s[l]
      BY <1>0, <2>1
    <3> QED BY <2>1, <3>1, <1>6 DEF PlanFor, Apart
  <2>2. CASE k \notin 1 .. Len(s) /\ l \notin 1 .. Len(s)
    <3>1. /\ k - Len(s) \in 1 .. Len(t) /\ (s \o t)[k] = t[k - Len(s)]
          /\ l - Len(s) \in 1 .. Len(t) /\ (s \o t)[l] = t[l - Len(s)]
      BY <1>2, <2>2
    <3>2. k - Len(s) # l - Len(s)
      BY <1>1, <1>6
    <3> QED BY <3>1, <3>2 DEF PlanFor, Apart
  <2>3. CASE k \in 1 .. Len(s) /\ l \notin 1 .. Len(s)
    <3>1. Target((s \o t)[k]) \in fns
      BY <1>3, <2>3
    <3>2. Target((s \o t)[l]) \in gns
      BY <1>2, <1>4, <2>3
    <3> QED BY <3>1, <3>2
  <2>4. CASE k \notin 1 .. Len(s) /\ l \in 1 .. Len(s)
    <3>1. Target((s \o t)[l]) \in fns
      BY <1>3, <2>4
    <3>2. Target((s \o t)[k]) \in gns
      BY <1>2, <1>4, <2>4
    <3> QED BY <3>1, <3>2
  <2> QED BY <2>1, <2>2, <2>3, <2>4
<1> QED BY <1>0, <1>5, <1>6 DEF PlanFor, Apart

\* Each handler's plan names each of its functions once.
LEMMA LoadPlanWhole == PlanFor(LoadPlan, OfLoad)
<1>1. "LoadModule" \in Functions
  BY BootAssumption DEF Redirected
<1> QED BY <1>1, KindsTyped, WholeKinds, PlanOfOne DEF LoadPlan, OfLoad

LEMMA TickPlanWhole == PlanFor(PrintTimeTick, OfTick)
<1>1. "ResourceStream" \in Functions /\ "MainThread" \in Functions
  BY BootAssumption DEF Redirected
<1>2. PlanFor(UploadResourceStreamBranch, {"ResourceStream"})
  BY <1>1, KindsTyped, WholeKinds, PlanOfOne DEF UploadResourceStreamBranch
<1>3. PlanFor(MainThreadCheck, {"MainThread"})
  <2>1. "MainThread" \notin CallsOriginal
    BY DEF CallsOriginal
  <2> QED BY <1>1, <2>1, KindsTyped, WholeKinds, PlanOfOne DEF MainThreadCheck
<1>4. OfTick = {"ResourceStream"} \cup {"MainThread"}
  BY DEF OfTick
<1>5. {"ResourceStream"} \cap {"MainThread"} = {}
  OBVIOUS
<1> QED BY <1>2, <1>3, <1>4, <1>5, PlanJoin DEF PrintTimeTick

LEMMA PostPlanWhole == PlanFor(RunPost, OfPost)
<1>1. OfPost \subseteq Functions
  BY OwnFunctions
<1>2. \A g \in OfPost \ {"CallList", "FinishBoot"} :
         /\ Whole(Call(g)) /\ Target(Call(g)) = g /\ Call(g) \in Items
         /\ Whole(Over(g)) /\ Target(Over(g)) = g /\ Over(g) \in Items
  <2>1. OfPost \cap CallsOriginal = {"CallList", "FinishBoot"}
    BY DEF OfPost, CallsOriginal
  <2> QED BY <1>1, <2>1, KindsTyped, WholeKinds
<1>3. PlanFor(<<Call("EventProxy")>>, {"EventProxy"})
  BY <1>2, PlanOfOne DEF OfPost
<1>4. PlanFor(UploadRegStrCall, {"RegStr", "SystemName", "Icons"})
  <2>1. /\ "RegStr" \in OfPost \ {"CallList", "FinishBoot"}
        /\ "SystemName" \in OfPost \ {"CallList", "FinishBoot"}
        /\ "Icons" \in OfPost \ {"CallList", "FinishBoot"}
    BY DEF OfPost
  <2>2. UploadRegStrCall \in Seq(Items)
    BY <1>2, <2>1, Tuples DEF UploadRegStrCall
  <2> QED BY <1>2, <2>1, <2>2 DEF PlanFor, Apart, UploadRegStrCall
<1>5. PlanFor(UploadRemotePlayPatch, {"RemotePlay"})
  BY <1>2, PlanOfOne DEF OfPost, UploadRemotePlayPatch
<1>6. PlanFor(<<Item("Bgft", 0, <<"bgft">>)>>, {"CallList"})
  <2>1. Item("Bgft", 0, <<"bgft">>).f = "Bgft" /\ Item("Bgft", 0, <<"bgft">>) \in Items
    BY ItemTyped, StepsTyped DEF Item
  <2>2. /\ Whole(Item("Bgft", 0, <<"bgft">>))
        /\ Target(Item("Bgft", 0, <<"bgft">>)) = "CallList"
    BY <2>1 DEF Whole, Target
  <2> QED BY <2>1, <2>2, PlanOfOne
<1>7. PlanFor(UploadFinishBootEffectCode, {"FinishBoot"})
  BY <1>1, KindsTyped, WholeKinds, PlanOfOne DEF OfPost, UploadFinishBootEffectCode
<1>8. PlanFor(<<Over("HwSerial")>>, {"HwSerial"})
  BY <1>2, PlanOfOne DEF OfPost
<1>9. PlanFor(UploadDebugSettingsPatch, {"DebugMenu"})
  BY <1>2, PlanOfOne DEF OfPost, UploadDebugSettingsPatch
<1> DEFINE first == <<Call("EventProxy")>> \o UploadRegStrCall
           shell == first \o UploadRemotePlayPatch
           bgfts == shell \o <<Item("Bgft", 0, <<"bgft">>)>>
           boots == bgfts \o UploadFinishBootEffectCode
           names == boots \o <<Over("HwSerial")>>
<1>10. PlanFor(first, {"EventProxy", "RegStr", "SystemName", "Icons"})
  <2>1. /\ {"EventProxy"} \cap {"RegStr", "SystemName", "Icons"} = {}
        /\ {"EventProxy", "RegStr", "SystemName", "Icons"}
              = {"EventProxy"} \cup {"RegStr", "SystemName", "Icons"}
    OBVIOUS
  <2> QED BY <1>3, <1>4, <2>1, PlanJoin
<1> HIDE DEF first
<1>11. PlanFor(shell, {"EventProxy", "RegStr", "SystemName", "Icons", "RemotePlay"})
  <2>1. /\ {"EventProxy", "RegStr", "SystemName", "Icons"} \cap {"RemotePlay"} = {}
        /\ {"EventProxy", "RegStr", "SystemName", "Icons", "RemotePlay"}
              = {"EventProxy", "RegStr", "SystemName", "Icons"} \cup {"RemotePlay"}
    OBVIOUS
  <2> QED BY <1>5, <1>10, <2>1, PlanJoin
<1> HIDE DEF shell
<1>12. PlanFor(bgfts, OfPost \ {"FinishBoot", "HwSerial", "DebugMenu"})
  <2>1. /\ {"EventProxy", "RegStr", "SystemName", "Icons", "RemotePlay"} \cap {"CallList"} = {}
        /\ OfPost \ {"FinishBoot", "HwSerial", "DebugMenu"}
              = {"EventProxy", "RegStr", "SystemName", "Icons", "RemotePlay"} \cup {"CallList"}
    BY DEF OfPost
  <2> QED BY <1>6, <1>11, <2>1, PlanJoin
<1> HIDE DEF bgfts
<1>13. PlanFor(boots, OfPost \ {"HwSerial", "DebugMenu"})
  <2>1. OfPost \ {"HwSerial", "DebugMenu"}
           = (OfPost \ {"FinishBoot", "HwSerial", "DebugMenu"}) \cup {"FinishBoot"}
    BY DEF OfPost
  <2> QED BY <1>7, <1>12, <2>1, PlanJoin
<1> HIDE DEF boots
<1>14. PlanFor(names, OfPost \ {"DebugMenu"})
  <2>1. OfPost \ {"DebugMenu"} = (OfPost \ {"HwSerial", "DebugMenu"}) \cup {"HwSerial"}
    BY DEF OfPost
  <2> QED BY <1>8, <1>13, <2>1, PlanJoin
<1> HIDE DEF names
<1>15. PlanFor(names \o UploadDebugSettingsPatch, OfPost)
  <2>1. OfPost = (OfPost \ {"DebugMenu"}) \cup {"DebugMenu"}
    BY DEF OfPost
  <2> QED BY <1>9, <1>14, <2>1, PlanJoin
<1> QED BY <1>15 DEF RunPost, first, shell, bgfts, boots, names

LEMMA BranchPlanWhole == PlanFor(BranchPlan, OfBranch)
<1>1. OfBranch \subseteq Functions
  BY OwnFunctions
<1>2. \A g \in OfBranch :
         /\ Whole(Long(g, 15)) /\ Target(Long(g, 15)) = g /\ Long(g, 15) \in Items
         /\ Whole(Near(g)) /\ Target(Near(g)) = g /\ Near(g) \in Items
         /\ g \notin CallsOriginal =>
               Whole(Over(g)) /\ Target(Over(g)) = g /\ Over(g) \in Items
  BY <1>1, KindsTyped, WholeKinds
<1>3. PlanFor(UploadNewPkgInstallerPath, {"SearchDir", "NewElement"})
  <2>1. "SearchDir" \in OfBranch /\ "NewElement" \in OfBranch
    BY DEF OfBranch
  <2>2. UploadNewPkgInstallerPath \in Seq(Items)
    BY <1>2, <2>1, Tuples DEF UploadNewPkgInstallerPath
  <2> QED BY <1>2, <2>1, <2>2 DEF PlanFor, Apart, UploadNewPkgInstallerPath
<1>4. PlanFor(UploadOnBranch, OfBranch \ {"SearchDir", "NewElement"})
  <2> DEFINE names == <<"OnPress", "OnPreCreate", "OnPageActivating", "OnCheckVisible",
                        "StartSettingsPage", "SetImage", "GetString", "OfflinePanel",
                        "InitProperty", "OnConfirm", "OnPageDeactivating", "LaunchPlugin">>
  <2>1. UploadOnBranch \in Seq(Items) /\ Len(UploadOnBranch) = 12
    <3>1. UploadOnBranch \in Seq(Items)
      BY KindsTyped, BootAssumption DEF UploadOnBranch, Redirected
    <3> QED BY <3>1 DEF UploadOnBranch
  <2>2. \A k, l \in 1 .. 12 : k # l => names[k] # names[l]
    OBVIOUS
  <2>3. \A k \in 1 .. 12 : names[k] \in OfBranch \ {"SearchDir", "NewElement"}
    BY DEF OfBranch
  <2>4. names[8] \notin CallsOriginal /\ names[9] \notin CallsOriginal
        /\ names[11] \notin CallsOriginal /\ names[12] \notin CallsOriginal
    BY DEF CallsOriginal
  <2>5. UploadOnBranch =
          <<Long(names[1], 15), Long(names[2], 15), Long(names[3], 15), Near(names[4]),
            Near(names[5]), Near(names[6]), Near(names[7]), Over(names[8]), Over(names[9]),
            Long(names[10], 15), Over(names[11]), Over(names[12])>>
    BY DEF UploadOnBranch
  <2> HIDE DEF names
  <2>6. ASSUME NEW k \in 1 .. 12
        PROVE  Whole(UploadOnBranch[k]) /\ Target(UploadOnBranch[k]) = names[k]
    <3>1. k \in {1, 2, 3, 10} => UploadOnBranch[k] = Long(names[k], 15)
      BY <2>5
    <3>2. k \in {4, 5, 6, 7} => UploadOnBranch[k] = Near(names[k])
      BY <2>5
    <3>3. k \in {8, 9, 11, 12} =>
             UploadOnBranch[k] = Over(names[k]) /\ names[k] \notin CallsOriginal
      BY <2>4, <2>5
    <3>4. k \in {1, 2, 3, 10} \cup {4, 5, 6, 7} \cup {8, 9, 11, 12}
      OBVIOUS
    <3> QED BY <1>2, <2>3, <3>1, <3>2, <3>3, <3>4
  <2> QED BY <2>1, <2>2, <2>3, <2>6 DEF PlanFor, Apart
<1>5. OfBranch = {"SearchDir", "NewElement"} \cup (OfBranch \ {"SearchDir", "NewElement"})
  BY DEF OfBranch
<1> QED BY <1>3, <1>4, <1>5, PlanJoin DEF BranchPlan

\* No padding is NoPad.
LEMMA NoPadding == NoPad \notin Pads
BY DEF NoPad, Pads, Texts

\* A handler that starts has a queue to work through.
LEMMA HandlerStarts ==
    ASSUME NEW plan, PlanFor(plan, Of(busy')), todo' = plan,
           \/ plan = LoadPlan
           \/ \A g \in Of(busy') : Plain(g)'
    PROVE  Queue'
<1>1. plan \in Seq(Items) /\ Apart(plan)
  BY DEF PlanFor
<1>2. \A k \in 1 .. Len(plan) : Whole(plan[k]) /\ Target(plan[k]) \in Of(busy')
  BY DEF PlanFor
<1>3. Apart(todo)' /\ \A k \in 1 .. Len(todo') : Target(todo'[k]) \in Of(busy')
  BY <1>1, <1>2 DEF Apart
<1>4. ASSUME plan # <<>>
      PROVE  First(Head(plan))' /\ Waits(Tail(plan))'
  <2>1. 1 \in 1 .. Len(plan) /\ Head(plan) = plan[1]
    BY <1>1, <1>4
  <2>2. /\ Len(Tail(plan)) = Len(plan) - 1
        /\ \A k \in 1 .. Len(Tail(plan)) : k + 1 \in 1 .. Len(plan) /\ Tail(plan)[k] = plan[k + 1]
    BY <1>1, <1>4
  <2>3. CASE plan = LoadPlan
    <3>1. Len(plan) = 1 /\ plan[1] = Import("LoadModule")
      BY <2>3 DEF LoadPlan
    <3>2. First(plan[1])'
      BY <1>2, <2>1, <3>1 DEF First
    <3>3. \A k \in 1 .. Len(Tail(plan)) : FALSE
      BY <2>2, <3>1
    <3> QED BY <2>1, <3>2, <3>3 DEF Waits
  <2>4. CASE \A g \in Of(busy') : Plain(g)'
    <3>1. First(plan[1])'
      BY <1>2, <2>1, <2>4 DEF First
    <3>2. \A k \in 1 .. Len(Tail(plan)) : Whole(Tail(plan)[k]) /\ Plain(Target(Tail(plan)[k]))'
      BY <1>2, <2>2, <2>4
    <3> QED BY <2>1, <3>1, <3>2 DEF Waits
  <2> QED BY <2>3, <2>4
<1> QED BY <1>3, <1>4 DEF Queue

\* What the item that is due is.
LEMMA AtHead ==
    ASSUME IInv, NEW step, At(step)
    PROVE  /\ todo \in Seq(Items) /\ todo # <<>> /\ Now \in Items
           /\ First(Now) /\ Target(Now) \in Functions
           /\ f \in Functions => f = Target(Now)
           /\ step = "find" \/ step = "bgft" \/ (f \in Functions /\ InWork(Now))
           /\ step = "find" => Whole(Now)
<1>1. todo \in Seq(Items) /\ todo # <<>> /\ Now \in Items /\ Head(Now.steps) = step
  BY DEF IInv, Sized, At, Now
<1>2. First(Now) /\ Target(Now) \in Functions
  <2>1. todo[1] = Now /\ 1 \in 1 .. Len(todo)
    BY <1>1 DEF Now
  <2> QED BY <1>1, <2>1, OwnFunctions DEF IInv, Queue, Now
<1>3. f \in Functions => f = Target(Now)
  BY BootAssumption DEF Target, f
<1>4. Whole(Now) => step = "find"
  BY <1>1, WholeSteps
<1>5. InWork(Now) => step # "find" /\ (step = "bgft" \/ f \in Functions)
  BY <1>1, Rests DEF InWork, Stage, f
<1> QED BY <1>1, <1>2, <1>3, <1>4, <1>5 DEF First

\* What a step on one function leaves of the others.
Spares(g) ==
    /\ code'[g] = code[g] /\ via'[g] = via[g]
    /\ saved'[g] = saved[g] /\ original'[g] = original[g]
    /\ via[g] \in Pads /\ pad[via[g]] = g => pad'[via[g]] = g

LEMMA Spared ==
    ASSUME NEW g \in Functions, Spares(g)
    PROVE  /\ Plain(g) => Plain(g)'
           /\ Settled(g) => Settled(g)'
BY DEF Spares, Plain, Settled, HasOriginal, OriginalIsNative

\* The item that is due is done, or given up: its function is settled.
LEMMA ItemEnds ==
    ASSUME IInv, NEW step, At(step), todo' = Tail(todo), UNCHANGED bootVars,
           Sized', Overrun', Texted',
           \A h \in Functions : h # Target(Now) => Spares(h),
           NEW g \in Functions, g = Target(Now), Settled(g)'
    PROVE  IInv'
<1>1. todo \in Seq(Items) /\ todo # <<>> /\ (f \in Functions => f = Target(Now))
  BY AtHead
<1>2. \A h \in Functions : h # Target(Now) /\ Plain(h) => Plain(h)'
  BY Spared
<1>3. Queue' /\ Untouched'
  BY <1>1, <1>2, QueuePops, StaysUntouched DEF IInv, bootVars
<1>4. \A h \in Functions : Settled(h)'
  <2>1. SUFFICES ASSUME NEW h \in Functions, h # g
                 PROVE  Settled(h)'
    OBVIOUS
  <2>2. ~Begun(h)
    BY <1>1, <2>1 DEF Begun
  <2> QED BY <2>1, <2>2, Spared DEF IInv
<1> QED BY <1>3, <1>4 DEF IInv

\* The item that is due goes on to its next step.
LEMMA ItemGoesOn ==
    ASSUME IInv, NEW step, At(step), NEW j, todo' = <<j>> \o Tail(todo), UNCHANGED bootVars,
           Sized', Overrun', Texted', NEW g \in Functions, f = g, j.f = g, InWork(j)',
           \A h \in Functions : h # g => Spares(h)
    PROVE  IInv'
<1>1. todo \in Seq(Items) /\ todo # <<>> /\ g = Target(Now)
  BY AtHead
<1>2. \A h \in Functions : h # g /\ Plain(h) => Plain(h)'
  BY Spared
<1>3. Target(j) = g
  BY BootAssumption DEF Target
<1>4. Queue' /\ Untouched'
  BY <1>1, <1>2, <1>3, QueueGoesOn, StaysUntouched DEF IInv, bootVars, First
<1>5. Head(todo') = j /\ todo' # <<>>
  <2>1. PICK rest : rest = Tail(todo)
    OBVIOUS
  <2>2. rest \in Seq(Items) /\ todo' = <<j>> \o rest
    BY <1>1, <2>1
  <2>3. Len(<<j>> \o rest) = 1 + Len(rest) /\ (<<j>> \o rest)[1] = j
    BY <2>2
  <2> QED BY <2>1, <2>2, <2>3
<1>6. Begun(g)'
  <2>1. Stage(j)'
    BY <1>3, BootAssumption DEF InWork
  <2>2. j.steps # <<"bgft">> /\ Head(j.steps) # "find"
    BY <2>1, Rests DEF Stage
  <2> QED BY <1>5, <2>2 DEF Begun, At, Now, f
<1>7. ASSUME NEW h \in Functions, h # g
      PROVE  Settled(h)'
  <2>1. ~Begun(h)
    BY <1>7 DEF Begun
  <2> QED BY <1>7, <2>1, Spared DEF IInv
<1> QED BY <1>4, <1>6, <1>7 DEF IInv

\* The rest of an item, and which step follows.
LEMMA DidThen ==
    ASSUME todo \in Seq(Items), todo # <<>>, Now \in Items, Did,
           NEW steps, Now.steps = steps, steps \in Seq(Steps)
    PROVE  /\ Len(steps) > 1 =>
                 \E j \in Items : /\ todo' = <<j>> \o Tail(todo)
                                  /\ j.f = Now.f /\ j.min = Now.min /\ j.text = Now.text
                                  /\ j.steps = Tail(steps)
           /\ Len(steps) = 1 => todo' = Tail(todo)
<1>1. ASSUME Len(steps) > 1
      PROVE  \E j \in Items : /\ todo' = <<j>> \o Tail(todo)
                              /\ j.f = Now.f /\ j.min = Now.min /\ j.text = Now.text
                              /\ j.steps = Tail(steps)
  <2>1. PICK j : j = [Now EXCEPT !.steps = Tail(@)]
    OBVIOUS
  <2>2. Tail(steps) \in Seq(Steps)
    BY <1>1
  <2>3. /\ j.f = Now.f /\ j.min = Now.min /\ j.text = Now.text /\ j.steps = Tail(steps)
        /\ j \in Items
    BY <2>1, <2>2 DEF Items
  <2>4. todo' = <<j>> \o Tail(todo)
    BY <1>1, <2>1 DEF Did
  <2> QED BY <2>3, <2>4
<1>2. Len(steps) = 1 => todo' = Tail(todo)
  BY DEF Did
<1> QED BY <1>1, <1>2

\* Which item may be due for each step.
LEMMA StageAt ==
    ASSUME NEW i, Stage(i)
    PROVE  /\ Head(i.steps) = "save" =>
                 /\ i.steps \in {Jump4, Via7} /\ i.min # 0 /\ Plain(i.f)
           /\ Head(i.steps) = "original" =>
                 \/ i.steps \in {Jump3, Via6} /\ i.min # 0 /\ Plain(i.f) /\ saved[i.f] = "native"
                 \/ i.steps \in {Jump3, Slot2} /\ i.min = 0 /\ Plain(i.f)
           /\ Head(i.steps) = "pad" =>
                 i.steps = Via5 /\ HasOriginal(i.f) /\ Plain(i.f)
           /\ Head(i.steps) = "tear" =>
                 /\ HasOriginal(i.f)
                 /\ \/ i.steps = Jump2 /\ Plain(i.f)
                    \/ i.steps = Via4 /\ Chosen(i.f, "free")
           /\ Head(i.steps) = "jump" =>
                 /\ HasOriginal(i.f)
                 /\ \/ i.steps = Jump1 /\ via[i.f] = NoPad
                    \/ i.steps = Via3 /\ Chosen(i.f, "free")
           /\ Head(i.steps) = "padtear" =>
                 /\ HasOriginal(i.f) /\ i.steps = Via2 /\ code[i.f] = "hooked"
                 /\ Chosen(i.f, "free")
           /\ Head(i.steps) = "padjump" =>
                 /\ HasOriginal(i.f) /\ i.steps = Via1 /\ code[i.f] = "hooked"
                 /\ Chosen(i.f, "torn")
<1>1. /\ Head(Jump1) = "jump" /\ Head(Jump2) = "tear" /\ Head(Jump3) = "original"
      /\ Head(Jump4) = "save" /\ Head(Slot2) = "original"
      /\ Head(Via1) = "padjump" /\ Head(Via2) = "padtear" /\ Head(Via3) = "jump"
      /\ Head(Via4) = "tear" /\ Head(Via5) = "pad" /\ Head(Via6) = "original"
      /\ Head(Via7) = "save"
  BY Rests
<1> QED BY <1>1 DEF Stage, Plain

\* The scan for a function finds it unpatched, or the item is given up.
LEMMA FindKeeps ==
    ASSUME IInv, Find, UNCHANGED bootVars, Sized', Overrun'
    PROVE  IInv'
<1>1. /\ todo \in Seq(Items) /\ todo # <<>> /\ Now \in Items /\ Whole(Now) /\ First(Now)
      /\ Target(Now) \in Functions /\ (f \in Functions => f = Target(Now)) /\ At("find")
  BY AtHead DEF Find
<1>2. Texted' /\ \A h \in Functions : Spares(h)
  BY DEF Find, textVars, hookVars, IInv, Texted, Spares
<1>3. PICK g \in Functions : g = Target(Now)
  BY <1>1
<1>4. Settled(g)
  <2>1. ~Begun(g)
    BY <1>1 DEF Begun
  <2> QED BY <2>1 DEF IInv
<1>5. CASE ~Found(f)
  <2>1. todo' = Tail(todo)
    BY <1>5 DEF Find, Drop
  <2>2. Settled(g)'
    BY <1>2, <1>3, <1>4, Spared
  <2> QED BY <1>1, <1>2, <1>3, <2>1, <2>2, ItemEnds
<1>6. CASE Found(f)
  <2>1. Did
    BY <1>6 DEF Find
  <2>2. /\ Len(Now.steps) > 1
        /\ \/ /\ Now.f \in Functions
              /\ \/ Tail(Now.steps) \in {Jump4, Via7} /\ Now.min # 0
                 \/ Tail(Now.steps) \in {Jump3, Slot2} /\ Now.min = 0
                 \/ Tail(Now.steps) \in {Jump2, Via5} /\ Now.f \notin CallsOriginal
           \/ Now.f = "Bgft" /\ Tail(Now.steps) = <<"bgft">>
        /\ Tail(Now.steps) \in {Via5, Via6, Via7} => Now.text \in Texts
    BY <1>1, WholeSteps
  <2>3. Now.steps \in Seq(Steps)
    BY <1>1 DEF Items
  <2>4. PICK j \in Items : /\ todo' = <<j>> \o Tail(todo)
                           /\ j.f = Now.f /\ j.min = Now.min /\ j.text = Now.text
                           /\ j.steps = Tail(Now.steps)
    BY <1>1, <2>1, <2>2, <2>3, DidThen
  <2>5. Plain(g)
    <3>1. CASE Plain(Target(Now))
      BY <1>3, <3>1
    <3>2. CASE Now = Import("LoadModule")
      <4>1. f = "LoadModule" /\ g = "LoadModule"
        <5>1. "LoadModule" \in Functions
          BY BootAssumption DEF Redirected
        <5> QED BY <1>1, <1>3, <3>2, <5>1 DEF f, Import, Item
      <4>2. code[g] = "native"
        BY <1>6, <4>1, BootAssumption DEF Found
      <4> QED BY <1>4, <4>2 DEF Settled, Plain
    <3>3. ~InWork(Now)
      <4>1. Head(Now.steps) = "find"
        BY <1>1 DEF At
      <4> QED BY <4>1, Rests DEF InWork, Stage
    <3> QED BY <1>1, <3>1, <3>2, <3>3 DEF First
  <2>6. Plain(g)'
    BY <1>2, <2>5, Spared
  <2>7. CASE Now.f \in Functions
    <3>1. f = g /\ j.f = g
      BY <1>1, <1>3, <2>4, <2>7 DEF f
    <3>2. InWork(j)'
      <4>1. j.steps \in {Via5, Via6, Via7} => j.text \in Texts
        BY <2>2, <2>4
      <4>2. Stage(j)'
        <5>1. HasOriginal(g)' \/ g \in CallsOriginal
          BY DEF HasOriginal
        <5>2. \/ j.steps \in {Jump4, Via7} /\ j.min # 0
              \/ j.steps \in {Jump3, Slot2} /\ j.min = 0
              \/ j.steps \in {Jump2, Via5} /\ g \notin CallsOriginal
          BY <2>2, <2>4, <2>7, <3>1, BootAssumption DEF f
        <5> QED BY <2>6, <3>1, <5>1, <5>2 DEF Stage
      <4> QED BY <3>1, <4>1, <4>2 DEF InWork
    <3> QED BY <1>1, <1>2, <2>4, <3>1, <3>2, ItemGoesOn
  <2>8. CASE Now.f = "Bgft" /\ Tail(Now.steps) = <<"bgft">>
    <3>1. g = "CallList" /\ Target(j) = g
      BY <1>3, <2>4, <2>8 DEF Target
    <3>2. InWork(j)'
      BY <2>4, <2>6, <2>8, <3>1 DEF InWork
    <3>3. \A h \in Functions : Plain(h) => Plain(h)'
      BY <1>2, Spared
    <3>4. Queue' /\ Untouched'
      BY <1>1, <1>3, <2>4, <3>1, <3>2, <3>3, QueueGoesOn, StaysUntouched
      DEF IInv, bootVars, First
    <3>5. ASSUME NEW h \in Functions
          PROVE  Settled(h)'
      <4>1. ~Begun(h)
        BY <1>1 DEF Begun
      <4> QED BY <1>2, <4>1, Spared DEF IInv
    <3> QED BY <1>2, <3>4, <3>5 DEF IInv
  <2> QED BY <2>2, <2>7, <2>8
<1> QED BY <1>5, <1>6

\* The prologue that is copied is the firmware's.
LEMMA SaveKeeps ==
    ASSUME IInv, Save, UNCHANGED bootVars, Sized', Overrun'
    PROVE  IInv'
<1>1. /\ todo \in Seq(Items) /\ todo # <<>> /\ Now \in Items /\ InWork(Now)
      /\ f \in Functions /\ f = Target(Now) /\ At("save") /\ Head(Now.steps) = "save"
  BY AtHead DEF Save, At
<1>2. PICK g \in Functions : g = f
  BY <1>1
<1>3. Now.f = g /\ Now.f # "Bgft"
  BY <1>2, BootAssumption DEF f
<1>4. /\ Now.steps \in {Jump4, Via7} /\ Now.min # 0 /\ Plain(g)
      /\ Now.steps = Via7 => Now.text \in Texts
  BY <1>1, <1>3, StageAt DEF InWork
<1>5. UNCHANGED <<code, via, pad, original>>
  BY DEF Save, textVars
<1>6. saved' \in [Functions -> {"none", "native", "torn", "hooked"}]
      /\ \A h \in Functions : h # g => saved'[h] = saved[h]
  BY <1>2 DEF Save, IInv, Texted
<1>7. Texted' /\ \A h \in Functions : h # g => Spares(h)
  BY <1>5, <1>6 DEF IInv, Texted, Spares
<1>8. CASE Drop /\ UNCHANGED <<saved, caveInstSize>>
  <2>1. todo' = Tail(todo)
    BY <1>8 DEF Drop
  <2>2. Settled(g)'
    BY <1>4, <1>5 DEF Settled, Plain
  <2> QED BY <1>1, <1>2, <1>7, <2>1, <2>2, ItemEnds
<1>9. CASE saved' = [saved EXCEPT ![f] = code[f]] /\ Did
  <2>0. PICK steps : steps = Now.steps
    OBVIOUS
  <2>1. /\ steps \in Seq(Steps) /\ Len(steps) > 1
        /\ \/ Tail(steps) = Jump3
           \/ Tail(steps) = Via6 /\ Now.text \in Texts
    <3>1. CASE steps = Jump4
      BY <3>1, Rests
    <3>2. CASE steps = Via7
      BY <1>4, <2>0, <3>2, Rests
    <3> QED BY <1>4, <2>0, <3>1, <3>2
  <2>2. PICK j \in Items : /\ todo' = <<j>> \o Tail(todo)
                           /\ j.f = Now.f /\ j.min = Now.min /\ j.text = Now.text
                           /\ j.steps = Tail(steps)
    BY <1>1, <1>9, <2>0, <2>1, DidThen
  <2>3. saved'[g] = "native"
    BY <1>2, <1>4, <1>9 DEF IInv, Texted, Plain
  <2>4. Plain(g)'
    BY <1>4, <1>5 DEF Plain
  <2>5. Stage(j)'
    BY <1>3, <1>4, <2>1, <2>2, <2>3, <2>4 DEF Stage
  <2>6. InWork(j)'
    BY <1>3, <2>1, <2>2, <2>5, PadRests DEF InWork
  <2> QED BY <1>1, <1>2, <1>3, <1>7, <2>2, <2>6, ItemGoesOn
<1> QED BY <1>8, <1>9 DEF Save

\* X_Original leads to the firmware's code: to the copied prologue, or to the
\* function itself, which is not redirected yet.
LEMMA OriginalKeeps ==
    ASSUME IInv, SetOriginal, UNCHANGED bootVars, Sized', Overrun'
    PROVE  IInv'
<1>1. /\ todo \in Seq(Items) /\ todo # <<>> /\ Now \in Items /\ InWork(Now)
      /\ f \in Functions /\ At("original") /\ Head(Now.steps) = "original" /\ Did
  BY AtHead DEF SetOriginal, At
<1>2. PICK g \in Functions : g = f
  BY <1>1
<1>3. Now.f = g /\ Now.f # "Bgft"
  BY <1>2, BootAssumption DEF f
<1>4. PICK steps : steps = Now.steps
  OBVIOUS
<1>5. /\ Plain(g)
      /\ \/ steps \in {Jump3, Via6} /\ Now.min # 0 /\ saved[g] = "native"
         \/ steps \in {Jump3, Slot2} /\ Now.min = 0
      /\ steps = Via6 => Now.text \in Texts
  BY <1>1, <1>3, <1>4, StageAt DEF InWork
<1>6. UNCHANGED <<code, via, pad, saved>>
  BY DEF SetOriginal, textVars
<1>7. Now.min \in Nat
  BY <1>1 DEF Items
<1>8. original'[g] = IF Now.min > 0 THEN "cave" ELSE "native"
  BY <1>2, <1>5 DEF SetOriginal, IInv, Texted, Plain
<1>9. /\ original' \in [Functions -> {"null", "cave", "native", "hook"}]
      /\ \A h \in Functions : h # g => original'[h] = original[h]
  BY <1>2 DEF SetOriginal, IInv, Texted
<1>10. Texted' /\ \A h \in Functions : h # g => Spares(h)
  BY <1>6, <1>9 DEF IInv, Texted, Spares
<1>11. Plain(g)' /\ HasOriginal(g)'
  BY <1>5, <1>6, <1>7, <1>8 DEF Plain, HasOriginal, OriginalIsNative
<1>12. /\ steps \in Seq(Steps) /\ Len(steps) > 1
       /\ \/ Tail(steps) \in {Jump1, Jump2}
          \/ Tail(steps) = Via5 /\ Now.text \in Texts
  <2>1. CASE steps = Jump3
    BY <2>1, Rests
  <2>2. CASE steps = Via6
    BY <1>5, <2>2, Rests
  <2>3. CASE steps = Slot2
    BY <2>3, Rests
  <2> QED BY <1>5, <2>1, <2>2, <2>3
<1>13. PICK j \in Items : /\ todo' = <<j>> \o Tail(todo)
                          /\ j.f = Now.f /\ j.min = Now.min /\ j.text = Now.text
                          /\ j.steps = Tail(steps)
  BY <1>1, <1>4, <1>12, DidThen
<1>14. Stage(j)'
  BY <1>3, <1>11, <1>12, <1>13 DEF Stage
<1>15. InWork(j)'
  BY <1>3, <1>12, <1>13, <1>14, PadRests DEF InWork
<1> QED BY <1>1, <1>2, <1>3, <1>10, <1>13, <1>15, ItemGoesOn

\* The padding that is chosen is free, or there is none and the function stays
\* as it is.
LEMMA FindPadKeeps ==
    ASSUME IInv, FindPad, UNCHANGED bootVars, Sized', Overrun'
    PROVE  IInv'
<1>1. /\ todo \in Seq(Items) /\ todo # <<>> /\ Now \in Items /\ InWork(Now)
      /\ f \in Functions /\ f = Target(Now) /\ At("pad") /\ Head(Now.steps) = "pad"
  BY AtHead DEF FindPad, At
<1>2. PICK g \in Functions : g = f
  BY <1>1
<1>3. Now.f = g /\ Now.f # "Bgft"
  BY <1>2, BootAssumption DEF f
<1>4. PICK steps : steps = Now.steps
  OBVIOUS
<1>5. steps = Via5 /\ HasOriginal(g) /\ Plain(g) /\ Now.text \in Texts
  BY <1>1, <1>3, <1>4, StageAt DEF InWork
<1>6. UNCHANGED <<code, pad, saved, original>>
  BY DEF FindPad, hookVars
<1>7. CASE Drop /\ UNCHANGED via
  <2>1. todo' = Tail(todo)
    BY <1>7 DEF Drop
  <2>2. Texted' /\ \A h \in Functions : Spares(h)
    BY <1>6, <1>7 DEF IInv, Texted, Spares
  <2>3. Settled(g)'
    BY <1>5, <1>6, <1>7 DEF Settled, Plain
  <2> QED BY <1>1, <1>2, <2>1, <2>2, <2>3, ItemEnds
<1>8. CASE /\ Did
           /\ \E n \in 1 .. PadCount : /\ pad[<<Now.text, n>>] = "free"
                                       /\ via' = [via EXCEPT ![f] = <<Now.text, n>>]
  <2>1. PICK n \in 1 .. PadCount : /\ pad[<<Now.text, n>>] = "free"
                                   /\ via' = [via EXCEPT ![f] = <<Now.text, n>>]
    BY <1>8
  <2>2. <<Now.text, n>> \in Pads
    BY <1>5 DEF Pads
  <2>3. via' \in [Functions -> Pads \cup {NoPad}] /\ via'[g] = <<Now.text, n>>
        /\ \A h \in Functions : h # g => via'[h] = via[h]
    BY <1>2, <2>1, <2>2 DEF IInv, Texted
  <2>4. Texted' /\ \A h \in Functions : h # g => Spares(h)
    BY <1>6, <2>3 DEF IInv, Texted, Spares
  <2>5. code'[g] = "native" /\ Chosen(g, "free")' /\ HasOriginal(g)'
    BY <1>5, <1>6, <2>1, <2>2, <2>3 DEF Plain, Chosen, HasOriginal, OriginalIsNative
  <2>6. steps \in Seq(Steps) /\ Len(steps) > 1 /\ Tail(steps) = Via4
    BY <1>5, Rests
  <2>7. PICK j \in Items : /\ todo' = <<j>> \o Tail(todo)
                           /\ j.f = Now.f /\ j.min = Now.min /\ j.text = Now.text
                           /\ j.steps = Tail(steps)
    BY <1>1, <1>4, <1>8, <2>6, DidThen
  <2>8. InWork(j)'
    BY <1>3, <2>5, <2>6, <2>7, PadRests DEF InWork, Stage
  <2> QED BY <1>1, <1>2, <1>3, <2>4, <2>7, <2>8, ItemGoesOn
<1> QED BY <1>7, <1>8 DEF FindPad

\* The first write over the function's code.
LEMMA TearKeeps ==
    ASSUME IInv, Tear, UNCHANGED bootVars, Sized', Overrun'
    PROVE  IInv'
<1>1. /\ todo \in Seq(Items) /\ todo # <<>> /\ Now \in Items /\ InWork(Now)
      /\ f \in Functions /\ At("tear") /\ Head(Now.steps) = "tear" /\ Did
  BY AtHead DEF Tear, At
<1>2. PICK g \in Functions : g = f
  BY <1>1
<1>3. Now.f = g /\ Now.f # "Bgft"
  BY <1>2, BootAssumption DEF f
<1>4. PICK steps : steps = Now.steps
  OBVIOUS
<1>5. /\ HasOriginal(g)
      /\ (steps = Jump2 /\ Plain(g)) \/ (steps = Via4 /\ Chosen(g, "free"))
  <2>1. Stage(Now)
    BY <1>1, <1>3 DEF InWork
  <2>2. /\ HasOriginal(Now.f)
        /\ \/ Now.steps = Jump2 /\ Plain(Now.f)
           \/ Now.steps = Via4 /\ Chosen(Now.f, "free")
    BY <1>1, <2>1, StageAt
  <2>3. Now.f = g /\ Now.steps = steps
    BY <1>3, <1>4
  <2> QED BY ONLY <2>2, <2>3 DEF Plain
<1>6. UNCHANGED <<via, pad, saved, original>>
  BY DEF Tear, hookVars
<1>7. /\ code' \in [Functions -> {"native", "torn", "hooked"}] /\ code'[g] = "torn"
      /\ \A h \in Functions : h # g => code'[h] = code[h]
  BY <1>2 DEF Tear, IInv, Texted
<1>8. Texted' /\ \A h \in Functions : h # g => Spares(h)
  BY <1>6, <1>7 DEF IInv, Texted, Spares
<1>9. /\ steps \in Seq(Steps) /\ Len(steps) > 1
      /\ \/ Tail(steps) = Jump1 /\ via'[g] = NoPad
         \/ Tail(steps) = Via3 /\ Chosen(g, "free")'
      /\ HasOriginal(g)'
  <2>1. HasOriginal(g)'
    BY <1>5, <1>6 DEF HasOriginal, OriginalIsNative
  <2>2. CASE steps = Jump2 /\ Plain(g)
    <3>1. via'[g] = NoPad
      BY <1>6, <2>2 DEF Plain
    <3> QED BY <2>1, <2>2, <3>1, Rests
  <2>3. CASE steps = Via4 /\ Chosen(g, "free")
    <3>1. Chosen(g, "free")'
      BY <1>6, <2>3 DEF Chosen
    <3> QED BY <2>1, <2>3, <3>1, Rests
  <2> QED BY <1>5, <2>2, <2>3
<1>10. PICK j \in Items : /\ todo' = <<j>> \o Tail(todo)
                          /\ j.f = Now.f /\ j.min = Now.min /\ j.text = Now.text
                          /\ j.steps = Tail(steps)
  BY <1>1, <1>4, <1>9, DidThen
<1>11. InWork(j)'
  BY <1>3, <1>7, <1>9, <1>10, PadRests DEF InWork, Stage
<1> QED BY <1>1, <1>2, <1>3, <1>8, <1>10, <1>11, ItemGoesOn

\* The last write over the function's code: it leads to its hook, or to padding
\* nobody else leads to.
LEMMA RedirectKeeps ==
    ASSUME IInv, Redirect, UNCHANGED bootVars, Sized', Overrun'
    PROVE  IInv'
<1>1. /\ todo \in Seq(Items) /\ todo # <<>> /\ Now \in Items /\ InWork(Now)
      /\ f \in Functions /\ f = Target(Now)
      /\ At("jump") /\ Head(Now.steps) = "jump" /\ Did
  BY AtHead DEF Redirect, At
<1>2. PICK g \in Functions : g = f
  BY <1>1
<1>3. Now.f = g /\ Now.f # "Bgft"
  BY <1>2, BootAssumption DEF f
<1>4. PICK steps : steps = Now.steps
  OBVIOUS
<1>5. /\ HasOriginal(g)
      /\ (steps = Jump1 /\ via[g] = NoPad) \/ (steps = Via3 /\ Chosen(g, "free"))
  <2>1. Stage(Now)
    BY <1>1, <1>3 DEF InWork
  <2>2. /\ HasOriginal(Now.f)
        /\ \/ Now.steps = Jump1 /\ via[Now.f] = NoPad
           \/ Now.steps = Via3 /\ Chosen(Now.f, "free")
    BY <1>1, <2>1, StageAt
  <2>3. Now.f = g /\ Now.steps = steps
    BY <1>3, <1>4
  <2> QED BY ONLY <2>2, <2>3 DEF Plain
<1>6. UNCHANGED <<via, pad, saved, original>>
  BY DEF Redirect, hookVars
<1>7. /\ code' \in [Functions -> {"native", "torn", "hooked"}] /\ code'[g] = "hooked"
      /\ \A h \in Functions : h # g => code'[h] = code[h]
  BY <1>2 DEF Redirect, IInv, Texted
<1>8. Texted' /\ \A h \in Functions : h # g => Spares(h)
  BY <1>6, <1>7 DEF IInv, Texted, Spares
<1>9. HasOriginal(g)'
  BY <1>5, <1>6 DEF HasOriginal, OriginalIsNative
<1>10. CASE steps = Jump1 /\ via[g] = NoPad
  <2>1. todo' = Tail(todo)
    BY <1>1, <1>4, <1>10, DidThen, Rests
  <2>2. Settled(g)'
    BY <1>6, <1>7, <1>9, <1>10 DEF Settled
  <2> QED BY <1>1, <1>2, <1>8, <2>1, <2>2, ItemEnds
<1>11. CASE steps = Via3 /\ Chosen(g, "free")
  <2>1. steps \in Seq(Steps) /\ Len(steps) > 1 /\ Tail(steps) = Via2
    BY <1>11, Rests
  <2>2. PICK j \in Items : /\ todo' = <<j>> \o Tail(todo)
                           /\ j.f = Now.f /\ j.min = Now.min /\ j.text = Now.text
                           /\ j.steps = Tail(steps)
    BY <1>1, <1>4, <2>1, DidThen
  <2>3. Chosen(g, "free")'
    BY <1>6, <1>11 DEF Chosen
  <2>4. InWork(j)'
    BY <1>3, <1>7, <1>9, <2>1, <2>2, <2>3, PadRests DEF InWork, Stage
  <2> QED BY <1>1, <1>2, <1>3, <1>8, <2>2, <2>4, ItemGoesOn
<1> QED BY <1>5, <1>10, <1>11

\* A write to padding that was chosen disturbs no function that leads to its own.
LEMMA PadSpares ==
    ASSUME Texted, NEW g \in Functions, NEW what \in {"free", "torn"}, Chosen(g, what),
           NEW jump \in {"free", "torn"} \cup Functions,
           pad' = [pad EXCEPT ![via[g]] = jump], UNCHANGED <<code, via, saved, original>>
    PROVE  Texted' /\ (\A h \in Functions : h # g => Spares(h)) /\ Chosen(g, jump)'
<1>1. via[g] \in Pads /\ pad[via[g]] = what
  BY DEF Chosen
<1>2. pad' \in [Pads -> {"free", "torn"} \cup Functions] /\ pad'[via[g]] = jump
      /\ \A p \in Pads : p # via[g] => pad'[p] = pad[p]
  BY <1>1 DEF Texted
<1>3. Texted'
  BY <1>2 DEF Texted
<1>4. ASSUME NEW h \in Functions, h # g
      PROVE  Spares(h)
  <2>1. via[h] \in Pads /\ pad[via[h]] = h => via[h] # via[g]
    BY <1>1, CodePatchAssumption
  <2> QED BY <1>2, <2>1 DEF Spares
<1>5. Chosen(g, jump)'
  BY <1>1, <1>2 DEF Chosen
<1> QED BY <1>3, <1>4, <1>5

\* The first write of the long jump, into padding that was free.
LEMMA TearPadKeeps ==
    ASSUME IInv, TearPad, UNCHANGED bootVars, Sized', Overrun'
    PROVE  IInv'
<1>1. /\ todo \in Seq(Items) /\ todo # <<>> /\ Now \in Items /\ InWork(Now)
      /\ f \in Functions /\ At("padtear") /\ Head(Now.steps) = "padtear" /\ Did
  BY AtHead DEF TearPad, At
<1>2. PICK g \in Functions : g = f
  BY <1>1
<1>3. Now.f = g /\ Now.f # "Bgft"
  BY <1>2, BootAssumption DEF f
<1>4. PICK steps : steps = Now.steps
  OBVIOUS
<1>5. HasOriginal(g) /\ steps = Via2 /\ code[g] = "hooked" /\ Chosen(g, "free")
  BY <1>1, <1>3, <1>4, StageAt DEF InWork
<1>6. UNCHANGED <<code, via, saved, original>> /\ pad' = [pad EXCEPT ![via[g]] = "torn"]
  BY <1>2 DEF TearPad, hookVars
<1>7. Texted' /\ (\A h \in Functions : h # g => Spares(h)) /\ Chosen(g, "torn")'
  BY <1>5, <1>6, PadSpares DEF IInv
<1>8. HasOriginal(g)' /\ code'[g] = "hooked"
  BY <1>5, <1>6 DEF HasOriginal, OriginalIsNative
<1>9. steps \in Seq(Steps) /\ Len(steps) > 1 /\ Tail(steps) = Via1
  BY <1>5, Rests
<1>10. PICK j \in Items : /\ todo' = <<j>> \o Tail(todo)
                          /\ j.f = Now.f /\ j.min = Now.min /\ j.text = Now.text
                          /\ j.steps = Tail(steps)
  BY <1>1, <1>4, <1>9, DidThen
<1>11. InWork(j)'
  BY <1>3, <1>7, <1>8, <1>9, <1>10, PadRests DEF InWork, Stage
<1> QED BY <1>1, <1>2, <1>3, <1>7, <1>10, <1>11, ItemGoesOn

\* The last: the function is redirected.
LEMMA WritePadKeeps ==
    ASSUME IInv, WritePad, UNCHANGED bootVars, Sized', Overrun'
    PROVE  IInv'
<1>1. /\ todo \in Seq(Items) /\ todo # <<>> /\ Now \in Items /\ InWork(Now)
      /\ f \in Functions /\ f = Target(Now)
      /\ At("padjump") /\ Head(Now.steps) = "padjump" /\ Did
  BY AtHead DEF WritePad, At
<1>2. PICK g \in Functions : g = f
  BY <1>1
<1>3. Now.f = g /\ Now.f # "Bgft"
  BY <1>2, BootAssumption DEF f
<1>4. PICK steps : steps = Now.steps
  OBVIOUS
<1>5. HasOriginal(g) /\ steps = Via1 /\ code[g] = "hooked" /\ Chosen(g, "torn")
  BY <1>1, <1>3, <1>4, StageAt DEF InWork
<1>6. UNCHANGED <<code, via, saved, original>> /\ pad' = [pad EXCEPT ![via[g]] = g]
  BY <1>2 DEF WritePad, hookVars
<1>7. Texted' /\ (\A h \in Functions : h # g => Spares(h)) /\ Chosen(g, g)'
  BY <1>5, <1>6, PadSpares DEF IInv
<1>8. HasOriginal(g)' /\ code'[g] = "hooked"
  BY <1>5, <1>6 DEF HasOriginal, OriginalIsNative
<1>9. Settled(g)'
  BY <1>7, <1>8 DEF Settled, Chosen
<1>10. todo' = Tail(todo)
  BY <1>1, <1>4, <1>5, DidThen, Rests
<1> QED BY <1>1, <1>2, <1>7, <1>9, <1>10, ItemEnds

\* UploadBgftFixup puts the call list's item, which nobody has begun, in its own
\* place.
LEMMA UploadBgftFixupKeeps ==
    ASSUME IInv, UploadBgftFixup, Sized', Overrun'
    PROVE  IInv'
<1>1. /\ todo \in Seq(Items) /\ todo # <<>> /\ Now \in Items /\ First(Now)
      /\ Target(Now) \in Functions /\ At("bgft") /\ Head(Now.steps) = "bgft"
  BY AtHead DEF UploadBgftFixup, At
<1>2. UNCHANGED bootVars /\ Texted' /\ \A h \in Functions : Spares(h)
  BY DEF UploadBgftFixup, textVars, hookVars, IInv, Texted, Spares
<1>3. Now.f = "Bgft" /\ Now.steps = <<"bgft">> /\ Plain("CallList")
  <2>1. ~Whole(Now)
    BY <1>1, WholeSteps
  <2>2. ~Stage(Now)
    BY <1>1, Rests DEF Stage
  <2> QED BY <1>1, <2>1, <2>2 DEF First, InWork
<1>4. Target(Now) = "CallList" /\ "CallList" \in Functions
  BY <1>1, <1>3 DEF Target
<1>5. \A h \in Functions : Settled(h)'
  <2>1. \A h \in Functions : ~Begun(h)
    BY <1>3 DEF Begun
  <2> QED BY <1>2, <2>1, Spared DEF IInv
<1>6. \A h \in Functions : Plain(h) => Plain(h)'
  BY <1>2, Spared
<1>7. UNCHANGED busy
  BY <1>2 DEF bootVars
<1>8. Untouched'
  BY <1>1, <1>2, <1>6, StaysUntouched DEF IInv
<1>9. Queue'
  <2>1. CASE todo' = Tail(todo)
    BY <1>1, <1>6, <1>7, <2>1, QueuePops DEF IInv
  <2>2. CASE todo' = <<Pointer("CallList")>> \o Tail(todo)
    <3>1. Whole(Pointer("CallList")) /\ Target(Pointer("CallList")) = "CallList"
      BY <1>4, WholeKinds
    <3>2. Plain("CallList")'
      BY <1>3, <1>4, <1>6
    <3>3. First(Pointer("CallList"))'
      BY <3>1, <3>2 DEF First
    <3> QED BY <1>1, <1>4, <1>6, <1>7, <2>2, <3>1, <3>3, QueueGoesOn DEF IInv
  <2> QED BY <2>1, <2>2 DEF UploadBgftFixup, Drop
<1> QED BY <1>2, <1>5, <1>8, <1>9 DEF IInv

\* Between two handlers every function is settled; starting one, or ending it,
\* writes to none.
LEMMA HandlerKeeps ==
    ASSUME IInv, todo = <<>>, UNCHANGED <<textVars, hookVars>>,
           Sized', Overrun', Queue', Untouched'
    PROVE  IInv'
<1>1. Texted' /\ \A h \in Functions : Spares(h)
  BY DEF textVars, hookVars, IInv, Texted, Spares
<1>2. \A h \in Functions : Settled(h)'
  <2>1. \A h \in Functions : ~Begun(h)
    BY DEF Begun
  <2> QED BY <1>1, <2>1, Spared DEF IInv
<1> QED BY <1>1, <1>2 DEF IInv

\* No plan, no queue.
LEMMA EmptyQueue ==
    ASSUME todo' = <<>>
    PROVE  Queue'
BY DEF Queue, Apart

\* Each handler starts with functions nobody has touched, but for LoadModule.
LEMMA StartKeeps ==
    ASSUME IInv, PluginLoad \/ AppExeLoaded \/ Branch \/ Tick, Sized', Overrun'
    PROVE  IInv'
<1>1. todo = <<>> /\ busy = "none" /\ UNCHANGED <<textVars, hookVars>>
  BY DEF PluginLoad, AppExeLoaded, Branch, Tick, Hooked, Idle
<1>2. \A h : Plain(h)' <=> Plain(h)
  BY <1>1 DEF textVars, Plain
<1>3. CASE PluginLoad
  <2>1. busy' = "load" /\ todo' = LoadPlan /\ UNCHANGED <<test, root_domain, app_exe, ticked>>
    BY <1>3 DEF PluginLoad, Start
  <2>2. Queue'
    BY <2>1, LoadPlanWhole, HandlerStarts DEF Of
  <2>3. Untouched'
    BY <1>1, <1>2, <2>1 DEF IInv, Untouched
  <2> QED BY <1>1, <2>2, <2>3, HandlerKeeps
<1>4. CASE AppExeLoaded
  <2>1. /\ busy' = "post" /\ todo' = RunPost /\ ~test
        /\ UNCHANGED <<test, root_domain, app_exe, ticked>>
    BY <1>4 DEF AppExeLoaded, Start
  <2>2. \A g \in OfPost : Plain(g)'
    BY <1>1, <1>2, <2>1 DEF IInv, Untouched
  <2>3. Queue'
    BY <2>1, <2>2, PostPlanWhole, HandlerStarts DEF Of
  <2>4. Untouched'
    BY <1>1, <1>2, <2>1 DEF IInv, Untouched
  <2> QED BY <1>1, <2>3, <2>4, HandlerKeeps
<1>5. CASE Branch
  <2>1. /\ busy' = "branch" /\ todo' = BranchPlan /\ ~app_exe /\ app_exe' = TRUE /\ root_domain
        /\ UNCHANGED <<test, root_domain, ticked>>
    BY <1>5 DEF Branch, Start
  <2>2. \A g \in OfBranch : Plain(g)'
    BY <1>2, <2>1 DEF IInv, Untouched
  <2>3. Queue'
    BY <2>1, <2>2, BranchPlanWhole, HandlerStarts DEF Of
  <2>4. Untouched'
    BY <1>1, <1>2, <2>1 DEF IInv, Untouched
  <2> QED BY <1>1, <2>3, <2>4, HandlerKeeps
<1>6. CASE Tick
  <2>1. /\ busy' = "tick" /\ (todo' = PrintTimeTick \/ todo' = <<>>) /\ ~ticked
        /\ app_exe' = root_domain /\ UNCHANGED <<test, root_domain, ticked>>
    BY <1>6 DEF Tick, Start
  <2>2. \A g \in OfTick : Plain(g)'
    BY <1>1, <1>2, <2>1 DEF IInv, Untouched
  <2>3. Queue'
    BY <2>1, <2>2, TickPlanWhole, HandlerStarts, EmptyQueue DEF Of
  <2>4. Untouched'
    BY <1>1, <1>2, <2>1 DEF IInv, Untouched
  <2> QED BY <1>1, <2>3, <2>4, HandlerKeeps
<1> QED BY <1>3, <1>4, <1>5, <1>6

\* The text of a process that has just started.
LEMMA FreshKeeps ==
    ASSUME NewShellUI, Sized', Overrun'
    PROVE  IInv'
<1>1. /\ code' = [g \in Functions |-> "native"] /\ via' = [g \in Functions |-> NoPad]
      /\ pad' = [p \in Pads |-> "free"] /\ saved' = [g \in Functions |-> "none"]
      /\ original' = [g \in Functions |-> "null"]
  BY DEF NewShellUI, Fresh
<1>2. Texted' /\ \A g \in Functions : Plain(g)'
  BY <1>1 DEF Texted, Plain
<1>3. Queue'
  BY EmptyQueue DEF NewShellUI
<1>4. Untouched'
  BY <1>2, OwnFunctions DEF Untouched, NewShellUI
<1> QED BY <1>2, <1>3, <1>4 DEF IInv, Settled

\* Every step keeps the invariant.
LEMMA IInvNext ==
    ASSUME IInv, [Next]_vars
    PROVE  IInv'
<1>1. Sized' /\ Overrun'
  BY OverrunNext DEF IInv
<1>2. CASE PluginLoad \/ AppExeLoaded \/ Branch \/ Tick
  BY <1>1, <1>2, StartKeeps
<1>3. CASE PatchStep
  <2>1. UNCHANGED bootVars
    BY <1>3 DEF PatchStep
  <2> QED BY <1>1, <1>3, <2>1, FindKeeps, SaveKeeps, OriginalKeeps, FindPadKeeps, TearKeeps,
             RedirectKeeps, TearPadKeeps, WritePadKeeps DEF PatchStep, Patch
<1>4. CASE UploadBgftFixup
  BY <1>1, <1>4, UploadBgftFixupKeeps
<1>5. CASE Restart \/ Reboot
  BY <1>1, <1>5, FreshKeeps DEF Restart, Reboot
<1>6. CASE RootDomainFound \/ HandlerEnd
  <2>1. todo = <<>> /\ todo' = <<>> /\ UNCHANGED <<textVars, hookVars>>
    BY <1>6 DEF RootDomainFound, HandlerEnd, Hooked, Idle, patchVars
  <2>2. \A h : Plain(h)' <=> Plain(h)
    BY <2>1 DEF textVars, Plain
  <2>3. Queue'
    BY <2>1, EmptyQueue
  <2>4. Untouched'
    <3>1. CASE RootDomainFound
      BY <2>2, <3>1 DEF RootDomainFound, IInv, Untouched
    <3>2. CASE HandlerEnd
      BY <2>2, <3>2 DEF HandlerEnd, IInv, Untouched
    <3> QED BY <1>6, <3>1, <3>2
  <2> QED BY <1>1, <2>1, <2>3, <2>4, HandlerKeeps
<1>7. CASE BgftFixupThread \/ UNCHANGED vars
  <2>1. UNCHANGED <<patchVars, bootVars>>
    BY <1>7 DEF BgftFixupThread, FindProcess, GetCodeInfo, ScanChunk, ReadRefused, WriteCore,
                TouchMark,
                UiUnchanged, vars
  <2>2. UNCHANGED <<todo, code, via, pad, saved, original, caveInstSize,
                    busy, test, root_domain, app_exe, ticked>>
    BY <2>1 DEF patchVars, textVars, hookVars, bootVars
  <2>3. \A h : (Plain(h)' <=> Plain(h)) /\ (HasOriginal(h)' <=> HasOriginal(h))
               /\ (Settled(h)' <=> Settled(h)) /\ (Begun(h)' <=> Begun(h))
    BY <2>2 DEF Plain, HasOriginal, OriginalIsNative, Settled, Begun, At, Now, f
  <2>4. \A i : (Stage(i)' <=> Stage(i)) /\ (InWork(i)' <=> InWork(i)) /\ (First(i)' <=> First(i))
    BY <2>2, <2>3 DEF Stage, InWork, First, Chosen
  <2>5. Queue'
    BY <2>2, <2>3, <2>4 DEF IInv, Queue, Waits
  <2>6. Untouched' /\ Texted'
    BY <2>2, <2>3 DEF IInv, Untouched, Texted
  <2> QED BY <1>1, <2>3, <2>5, <2>6 DEF IInv
<1> QED BY <1>2, <1>3, <1>4, <1>5, <1>6, <1>7 DEF Next

\* Fresh text, nothing to do.
LEMMA IInvInit == Init => IInv
<1> SUFFICES ASSUME Init
             PROVE  IInv
  OBVIOUS
<1>1. Sized /\ Overrun
  BY Tuples, CodePatchAssumption DEF Init, Sized, Overrun, Jump, JmpStub
<1>2. /\ code = [g \in Functions |-> "native"] /\ via = [g \in Functions |-> NoPad]
      /\ pad = [p \in Pads |-> "free"] /\ saved = [g \in Functions |-> "none"]
      /\ original = [g \in Functions |-> "null"]
  BY DEF Init, Fresh
<1>3. Texted /\ \A g \in Functions : Plain(g)
  BY <1>2 DEF Texted, Plain
<1>4. Queue
  BY DEF Init, Queue, Apart
<1>5. Untouched
  BY <1>3, OwnFunctions DEF Untouched, Init
<1> QED BY <1>1, <1>3, <1>4, <1>5 DEF IInv, Settled

\* Between two steps of a handler every function but the one at hand is as the
\* firmware left it, or redirected with its original kept; what waits in a plan
\* is untouched; and no handler's functions are touched before it runs.
THEOREM Invariant == Spec => []IInv
BY IInvInit, IInvNext, PTL DEF Spec

\* A settled function leads to its own code or to its own hook.
LEMMA SettledReaches ==
    ASSUME NEW g \in Functions, Settled(g)
    PROVE  /\ Enter(g) # "wild"
           /\ Enter(g) = "hook" /\ g \in CallsOriginal => OriginalIsNative(g)
BY DEF Settled, Plain, HasOriginal, Enter

\* On every firmware, in whatever order modules load and the boot effect ends,
\* whatever the scans find and wherever the padding runs out, a function leads to
\* its own code or its own hook, and a hook's X_Original to the firmware's code.
THEOREM FunctionsReach == Spec => []Reaches
<1>1. IInv => Reaches
  <2>1. SUFFICES ASSUME IInv, NEW g \in Functions, ~Underway(g)
                 PROVE  /\ Enter(g) # "wild"
                        /\ Enter(g) = "hook" /\ g \in CallsOriginal => OriginalIsNative(g)
    BY DEF Reaches
  <2>2. ~Begun(g)
    BY <2>1 DEF Begun, Underway
  <2> QED BY <2>1, <2>2, SettledReaches DEF IInv
<1> QED BY <1>1, Invariant, PTL

\* A hook can be entered only when X_Original and App_Exe, if it uses them, are
\* there, also while the writes that install it go on.
THEOREM OriginalsReady == Spec => []OriginalReady
<1>1. IInv => OriginalReady
  <2>1. SUFFICES ASSUME IInv, NEW g \in Functions, Enter(g) = "hook"
                 PROVE  /\ g \in CallsOriginal => original[g] # "null"
                        /\ g \in UsesAppExe => app_exe
    BY DEF OriginalReady
  <2>2. code[g] = "hooked"
    BY <2>1 DEF IInv, Texted, Enter
  <2>3. HasOriginal(g)
    <3>1. CASE ~Begun(g)
      BY <2>1, <2>2, <3>1 DEF IInv, Settled, Plain
    <3>2. CASE Begun(g)
      <4>1. todo # <<>> /\ Now.f = g /\ Now.steps # <<"bgft">> /\ Head(Now.steps) # "find"
        BY <3>2 DEF Begun, At, f
      <4>2. First(Now)
        BY <2>1, <4>1 DEF IInv, Queue, Now
      <4>3. Stage(Now)
        BY <4>1, <4>2, WholeSteps, BootAssumption DEF First, InWork
      <4> QED BY <2>2, <4>1, <4>3 DEF Stage, Plain
    <3> QED BY <3>1, <3>2
  <2>4. g \in UsesAppExe => app_exe
    <3>1. UsesAppExe \subseteq OfBranch
      BY DEF UsesAppExe, OfBranch
    <3> QED BY <2>1, <2>2, <3>1 DEF IInv, Untouched, Plain
  <2> QED BY <2>3, <2>4 DEF HasOriginal, OriginalIsNative
<1> QED BY <1>1, Invariant, PTL

-----------------------------------------------------------------------------
(* The types.                                                              *)

\* What the handlers and the other thread keep beside the plans and the texts.
Flags ==
    /\ absent \subseteq Functions
    /\ busy \in {"none", "load", "post", "branch", "tick"}
    /\ {test, root_domain, app_exe, once, ticked, mark, refused} \subseteq BOOLEAN
    /\ loads \in 0 .. 2 /\ restarts \in 0 .. MaxRestarts
    /\ core \in {"native", "patched"} /\ place \in Nowhere .. Chunks - 1
    /\ bgft \in BgftLabels /\ chunk \in 0 .. Chunks - 1

LEMMA FlagsNext ==
    ASSUME Flags, [Next]_vars
    PROVE  Flags'
<1> USE DEF Flags
<1>1. ASSUME UNCHANGED <<absent, bootVars, coreVars, place, scanVars, restarts>>
      PROVE  Flags'
  BY <1>1 DEF bootVars, coreVars, scanVars
<1>0. CASE UNCHANGED vars
  BY <1>0, <1>1 DEF vars, patchVars
<1>2. CASE PluginLoad \/ AppExeLoaded
  BY <1>2 DEF PluginLoad, AppExeLoaded, Start, coreVars, scanVars
<1>3. CASE RootDomainFound \/ Branch
  <2>1. loads' \in 0 .. 2
    BY <1>3 DEF RootDomainFound, Branch, Counted
  <2> QED BY <1>3, <2>1 DEF RootDomainFound, Branch, Start, patchVars, coreVars, scanVars
<1>4. CASE Tick
  BY <1>4 DEF Tick, Start, coreVars, scanVars
<1>5. CASE PatchStep
  <2>1. UNCHANGED absent
    BY <1>5 DEF PatchStep, Patch, Find, Save, SetOriginal, FindPad, Tear, Redirect, TearPad,
                WritePad
  <2> QED BY <1>1, <1>5, <2>1 DEF PatchStep
<1>6. CASE UploadBgftFixup
  BY <1>6 DEF UploadBgftFixup, bootVars, coreVars, BgftLabels
<1>7. CASE HandlerEnd
  BY <1>7 DEF HandlerEnd, patchVars, coreVars, scanVars
<1>8. CASE BgftFixupThread
  <2> USE DEF BgftLabels, UiUnchanged, patchVars, bootVars, coreVars
  <2>1. CASE FindProcess \/ GetCodeInfo
    BY <2>1 DEF FindProcess, GetCodeInfo
  <2>2. CASE ScanChunk \/ ReadRefused
    BY <2>2, BootAssumption DEF ScanChunk, ReadRefused
  <2>3. CASE WriteCore \/ TouchMark
    BY <2>3 DEF WriteCore, TouchMark
  <2> QED BY <1>8, <2>1, <2>2, <2>3 DEF BgftFixupThread
<1>9. CASE Restart \/ Reboot
  <2>1. restarts' \in 0 .. MaxRestarts /\ chunk' \in 0 .. Chunks - 1 /\ loads' \in 0 .. 2
    BY <1>9, BootAssumption DEF Restart, Reboot, NewShellUI
  <2>2. UNCHANGED <<absent, place>> /\ busy' = "none" /\ bgft' = "none"
    BY <1>9 DEF Restart, Reboot, NewShellUI
  <2>3. /\ test' = FALSE /\ root_domain' = FALSE /\ app_exe' = FALSE /\ once' = FALSE
        /\ ticked' = FALSE
    BY <1>9 DEF Restart, Reboot, NewShellUI
  <2>4. \/ UNCHANGED <<core, mark, refused>>
        \/ core' = "native" /\ mark' = FALSE /\ refused' = FALSE
    BY <1>9 DEF Restart, Reboot, coreVars
  <2> QED BY <2>1, <2>2, <2>3, <2>4 DEF BgftLabels
<1> QED BY <1>0, <1>2, <1>3, <1>4, <1>5, <1>6, <1>7, <1>8, <1>9 DEF Next

LEMMA FlagsInit == Init => Flags
<1>1. Init => absent \subseteq Functions
  BY BootAssumption DEF Init
<1>2. Init => restarts \in 0 .. MaxRestarts /\ chunk \in 0 .. Chunks - 1 /\ loads \in 0 .. 2
  BY BootAssumption DEF Init
<1> QED BY <1>1, <1>2 DEF Init, Flags, BgftLabels

\* Every variable has its type, whatever the firmware, the pad and the text.
THEOREM TypeInvariant == Spec => []TypeOK
<1>1. Init => Flags
  BY FlagsInit
<1>2. Flags /\ [Next]_vars => Flags'
  BY FlagsNext
<1>3. IInv /\ Flags => TypeOK
  <2>1. IInv => caveInstSize \in 0 .. CaveSize + (Jump - JmpStub)
    BY CodePatchAssumption DEF IInv, Sized, Overrun, Jump, JmpStub
  <2> QED BY <2>1 DEF IInv, Sized, Texted, Flags, TypeOK
<1> QED BY <1>1, <1>2, <1>3, Invariant, PTL DEF Spec

-----------------------------------------------------------------------------
(* What is left unpatched when the boot effect has ended.                  *)

\* What is left of an item of a plan keeps its function, the bytes it asks for
\* and its text; the call list's item has come in the place of "Bgft".
Kin(i, j) ==
    \/ i.f = j.f /\ i.text = j.text
    \/ j.f = "Bgft"

\* What BootComplete wants of an item.
Achieved(i) ==
    \/ i.f \in absent \cup {"Bgft"}
    \/ Enter(i.f) = "hook"
    \/ i.text # "none" /\ Exhausted(i.text)

\* Every item of a plan is achieved, or is left for the running handler.
Covered(plan) ==
    \A l \in DOMAIN plan :
        Achieved(plan[l]) \/ \E k \in DOMAIN todo : Kin(todo[k], plan[l])

Gone(plan) == \A l \in DOMAIN plan : Achieved(plan[l])

Working ==
    /\ busy = "post" => Covered(RunPost)
    /\ busy = "branch" => Covered(BranchPlan)
    /\ busy = "tick" /\ loads = 2 => Covered(PrintTimeTick)

Behind ==
    /\ test => Gone(RunPost)
    /\ once => Gone(BranchPlan)
    /\ ticked /\ loads = 2 => Gone(PrintTimeTick)

\* The order of the loads: the first that counts finds Root_Domain, and the
\* second starts the branch's handler, which is through before the tick.
Loaded ==
    /\ loads # 0 => root_domain /\ test
    /\ loads = 2 => once \/ (busy = "branch" /\ ~ticked)

\* The most an item may ask the pad for; plugin_load's asks for nothing.
Small ==
    \A k \in DOMAIN todo : todo[k].min <= IF busy = "load" THEN 0 ELSE 17

\* The most an item may take of the pad.
Most == 17 + Slack + Jump

\* How many items of the running handler may still take some of it, and how many
\* of the handlers that are still to come.
Here ==
    IF busy \in {"none", "load"} \/ todo = <<>> THEN 0
    ELSE IF Head(Now.steps) \in {"find", "save", "bgft"} THEN Len(todo)
    ELSE Len(todo) - 1

Later ==
    (IF test \/ busy = "post" THEN 0 ELSE 9)
      + (IF app_exe THEN 0 ELSE 14)
      + (IF ticked \/ busy = "tick" THEN 0 ELSE 2)

Room == caveInstSize + Most * (Here + Later) <= Most * 25

\* The pad has room for every item, as large as the largest.
Roomy == Most * 25 <= CaveSize

Booting == Working /\ Behind /\ Loaded /\ Small /\ Room

BInv == IInv /\ Flags /\ Booting

\* A product grows with its factor.
LEMMA MostGrows ==
    ASSUME NEW m \in Nat, NEW n \in Nat
    PROVE  m <= n => Most * m <= Most * n
<1>1. Most \in Nat
  BY CodePatchAssumption DEF Most, Jump, JmpStub
<1> HIDE DEF Most
<1>2. ASSUME m <= n
      PROVE  Most * m <= Most * n
  <2>1. PICK d \in Nat : n = m + d
    <3>1. n - m \in Nat /\ n = m + (n - m)
      BY <1>2
    <3> QED BY <3>1
  <2>2. Most * d \in Nat /\ Most * m \in Nat
    BY <1>1
  <2>3. Most * (m + d) = Most * m + Most * d
    BY <1>1
  <2> QED BY <2>1, <2>2, <2>3
<1> QED BY <1>2

\* What is left of an item is what the item is.
LEMMA KinAchieved ==
    ASSUME NEW i, NEW j, Kin(i, j), Achieved(i)
    PROVE  Achieved(j)
BY DEF Kin, Achieved

\* What begins is not yet redirected.
LEMMA BegunIsNoHook ==
    ASSUME IInv, NEW g \in Functions, Begun(g)
    PROVE  Enter(g) # "hook"
<1>1. todo # <<>> /\ Now.f = g /\ Now.steps # <<"bgft">> /\ Head(Now.steps) # "find"
  BY DEF Begun, At, f
<1>2. First(Now)
  BY <1>1 DEF IInv, Queue, Now
<1>3. Stage(Now)
  BY <1>1, <1>2, WholeSteps, BootAssumption DEF First, InWork
<1>4. \/ code[g] \in {"native", "torn"}
      \/ code[g] = "hooked" /\ (Chosen(g, "free") \/ Chosen(g, "torn"))
  BY <1>1, <1>3 DEF Stage, Plain
<1>5. CASE code[g] \in {"native", "torn"}
  BY <1>5 DEF Enter
<1>6. CASE code[g] = "hooked" /\ (Chosen(g, "free") \/ Chosen(g, "torn"))
  <2>1. via[g] # NoPad /\ pad[via[g]] # g
    BY <1>6, NoPadding, CodePatchAssumption DEF Chosen
  <2> QED BY <1>6, <2>1 DEF Enter
<1> QED BY <1>4, <1>5, <1>6

\* A function that is settled, and not as the firmware left it, leads to its hook.
LEMMA SettledHooks ==
    ASSUME NEW g \in Functions, Settled(g), code[g] # "native"
    PROVE  Enter(g) = "hook"
BY DEF Settled, Plain, Enter

\* A step of a plan leaves every other function, the padding that is used and
\* what the firmware lacks.
PatchLeaves ==
    /\ UNCHANGED absent
    /\ \A p \in Pads : pad[p] # "free" => pad'[p] # "free"
    /\ \A g \in Functions : ~Begun(g) => Spares(g)

\* What is achieved stays so.
LEMMA AchievedStays ==
    ASSUME IInv, PatchLeaves, NEW i \in Items, Achieved(i)
    PROVE  Achieved(i)'
<1>1. CASE i.f \in absent \cup {"Bgft"}
  BY <1>1 DEF Achieved, PatchLeaves
<1>2. CASE i.f \notin absent \cup {"Bgft"} /\ Enter(i.f) = "hook"
  <2>1. PICK g \in Functions : g = i.f
    BY <1>2 DEF Items
  <2>2. Spares(g)
    BY <1>2, <2>1, BegunIsNoHook DEF PatchLeaves
  <2>3. code[g] = "hooked"
    BY <1>2, <2>1 DEF IInv, Texted, Enter
  <2>4. via[g] = NoPad \/ pad[via[g]] = g
    BY <1>2, <2>1, <2>3 DEF Enter
  <2>5. via[g] \in Pads \cup {NoPad}
    BY DEF IInv, Texted
  <2>6. code'[g] = "hooked" /\ (via'[g] = NoPad \/ pad'[via'[g]] = g)
    BY <2>2, <2>3, <2>4, <2>5 DEF Spares
  <2>7. Enter(g)' = "hook"
    BY <2>6 DEF Enter
  <2> QED BY <2>1, <2>7 DEF Achieved
<1>3. CASE i.text # "none" /\ Exhausted(i.text)
  <2>1. i.text \in Texts
    BY <1>3 DEF Items
  <2>2. \A n \in 1 .. PadCount : <<i.text, n>> \in Pads
    BY <2>1 DEF Pads
  <2>3. Exhausted(i.text)'
    BY <1>3, <2>2 DEF Exhausted, PatchLeaves
  <2> QED BY <1>3, <2>3 DEF Achieved
<1> QED BY <1>1, <1>2, <1>3 DEF Achieved

\* The function that is due is begun.
LEMMA DueIsBegun ==
    ASSUME IInv, NEW step, At(step), step # "find", step # "bgft"
    PROVE  /\ todo \in Seq(Items) /\ todo # <<>> /\ Now \in Items /\ InWork(Now)
           /\ f \in Functions /\ Now.f = f /\ f # "Bgft" /\ Head(Now.steps) = step
           /\ Stage(Now)
           /\ \A g \in Functions : ~Begun(g) => g # f
<1>1. /\ todo \in Seq(Items) /\ todo # <<>> /\ Now \in Items /\ InWork(Now)
      /\ f \in Functions /\ Head(Now.steps) = step
  BY AtHead DEF At
<1>2. Now.f = f /\ f # "Bgft"
  BY <1>1, BootAssumption DEF f
<1>3. Stage(Now)
  BY <1>1, <1>2 DEF InWork
<1>4. Now.steps # <<"bgft">> /\ ~At("find")
  BY <1>1, Rests DEF At
<1> QED BY <1>1, <1>2, <1>3, <1>4 DEF Begun

\* What each step of a plan leaves.
LEMMA PatchSpares ==
    ASSUME IInv, Patch
    PROVE  PatchLeaves
<1>1. CASE Find
  BY <1>1 DEF Find, textVars, hookVars, PatchLeaves, Spares
<1>2. CASE Save
  <2>1. f \in Functions /\ \A g \in Functions : ~Begun(g) => g # f
    BY <1>2, DueIsBegun DEF Save
  <2>2. UNCHANGED <<absent, code, via, pad, original>>
    BY <1>2 DEF Save, textVars
  <2>3. \A g \in Functions : g # f => saved'[g] = saved[g]
    BY <1>2 DEF Save, IInv, Texted
  <2> QED BY <2>1, <2>2, <2>3 DEF PatchLeaves, Spares
<1>3. CASE SetOriginal
  <2>1. f \in Functions /\ \A g \in Functions : ~Begun(g) => g # f
    BY <1>3, DueIsBegun DEF SetOriginal
  <2>2. UNCHANGED <<absent, code, via, pad, saved>>
    BY <1>3 DEF SetOriginal, textVars
  <2>3. \A g \in Functions : g # f => original'[g] = original[g]
    BY <1>3 DEF SetOriginal, IInv, Texted
  <2> QED BY <2>1, <2>2, <2>3 DEF PatchLeaves, Spares
<1>4. CASE FindPad
  <2>1. f \in Functions /\ \A g \in Functions : ~Begun(g) => g # f
    BY <1>4, DueIsBegun DEF FindPad
  <2>2. UNCHANGED <<absent, code, pad, saved, original>>
    BY <1>4 DEF FindPad, hookVars
  <2>3. \A g \in Functions : g # f => via'[g] = via[g]
    BY <1>4 DEF FindPad, IInv, Texted
  <2> QED BY <2>1, <2>2, <2>3 DEF PatchLeaves, Spares
<1>5. CASE Tear \/ Redirect
  <2>1. f \in Functions /\ \A g \in Functions : ~Begun(g) => g # f
    BY <1>5, DueIsBegun DEF Tear, Redirect
  <2>2. UNCHANGED <<absent, via, pad, saved, original>>
    BY <1>5 DEF Tear, Redirect, hookVars
  <2>3. \A g \in Functions : g # f => code'[g] = code[g]
    BY <1>5 DEF Tear, Redirect, IInv, Texted
  <2> QED BY <2>1, <2>2, <2>3 DEF PatchLeaves, Spares
<1>6. CASE TearPad \/ WritePad
  <2>1. PICK step \in {"padtear", "padjump"} : At(step)
    BY <1>6 DEF TearPad, WritePad
  <2>2. /\ f \in Functions /\ Now.f = f /\ Head(Now.steps) = step /\ Stage(Now)
        /\ \A g \in Functions : ~Begun(g) => g # f
    BY <2>1, DueIsBegun
  <2>3. PICK what \in {"free", "torn"} : Chosen(f, what)
    BY <2>1, <2>2, StageAt
  <2>4. PICK jump \in {"torn"} \cup Functions : pad' = [pad EXCEPT ![via[f]] = jump]
    BY <1>6, <2>2 DEF TearPad, WritePad
  <2>5. UNCHANGED <<absent, code, via, saved, original>>
    BY <1>6 DEF TearPad, WritePad, hookVars
  <2>6. \A h \in Functions : h # f => Spares(h)
    BY <2>2, <2>3, <2>4, <2>5, PadSpares DEF IInv
  <2>7. \A p \in Pads : pad[p] # "free" => pad'[p] # "free"
    BY <2>4, CodePatchAssumption DEF IInv, Texted
  <2> QED BY <2>2, <2>5, <2>6, <2>7 DEF PatchLeaves
<1> QED BY <1>1, <1>2, <1>3, <1>4, <1>5, <1>6 DEF Patch

\* The item that is due goes on to its next step.
GoesOn ==
    /\ Len(Now.steps) > 1
    /\ \E j \in Items : /\ todo' = <<j>> \o Tail(todo)
                        /\ j.f = Now.f /\ j.min = Now.min /\ j.text = Now.text
                        /\ j.steps = Tail(Now.steps)

\* It is done, or given up.
Ends == todo' = Tail(todo) /\ \E i \in Items : i = Now /\ Achieved(i)'

\* The pad has room for what CreatePrologueHook asks for.
HasRoom == At("save") => caveInstSize + (Now.min + Slack) + JmpStub <= CaveSize

\* All but the last step of an item have one behind them.
LEMMA Longer ==
    ASSUME NEW steps \in {Jump2, Jump3, Jump4, Slot2, Via2, Via3, Via4, Via5, Via6, Via7}
    PROVE  Len(steps) > 1
<1>1. /\ Len(Jump2) > 1 /\ Len(Jump3) > 1 /\ Len(Jump4) > 1 /\ Len(Slot2) > 1
      /\ Len(Via2) > 1 /\ Len(Via3) > 1 /\ Len(Via4) > 1 /\ Len(Via5) > 1
      /\ Len(Via6) > 1 /\ Len(Via7) > 1
  BY Rests
<1> QED BY <1>1, Zenon

LEMMA FindOutcome ==
    ASSUME IInv, Find
    PROVE  GoesOn \/ Ends
<1>1. /\ todo \in Seq(Items) /\ todo # <<>> /\ Now \in Items /\ Whole(Now) /\ At("find")
      /\ Now.steps \in Seq(Steps) /\ Len(Now.steps) > 1
  BY AtHead, WholeSteps DEF Find, Items
<1>2. CASE Found(f)
  BY <1>1, <1>2, DidThen DEF Find, GoesOn
<1>3. CASE ~Found(f)
  <2>1. todo' = Tail(todo) /\ PatchLeaves
    BY <1>3, PatchSpares DEF Find, Drop, Patch
  <2>2. Achieved(Now)
    <3>1. CASE f \in absent \cup {"Bgft"}
      BY <3>1 DEF Achieved, f
    <3>2. CASE f \notin absent \cup {"Bgft"}
      <4>1. PICK g \in Functions : g = f /\ g = Now.f
        BY <1>1, <3>2 DEF Items, f
      <4>2. code[g] # "native"
        BY <1>3, <3>2, <4>1 DEF Found
      <4>3. Settled(g)
        <5>1. ~Begun(g)
          BY <1>1 DEF Begun
        <5> QED BY <5>1 DEF IInv
      <4>4. Enter(g) = "hook"
        BY <4>2, <4>3, SettledHooks
      <4> QED BY <4>1, <4>4 DEF Achieved
    <3> QED BY <3>1, <3>2
  <2>3. PICK i \in Items : i = Now
    BY <1>1
  <2>4. Achieved(i)'
    BY <2>1, <2>2, <2>3, AchievedStays
  <2> QED BY <2>1, <2>3, <2>4 DEF Ends
<1> QED BY <1>2, <1>3

\* A step of a plan goes on with its item, or ends with the function redirected,
\* or absent, or without padding.
LEMMA PatchOutcome ==
    ASSUME IInv, HasRoom, Patch
    PROVE  GoesOn \/ Ends
<1>0. ASSUME NEW step, At(step), step # "find", step # "bgft", Did
      PROVE  /\ Len(Now.steps) > 1 => GoesOn
             /\ Len(Now.steps) = 1 => todo' = Tail(todo)
  <2>1. todo \in Seq(Items) /\ todo # <<>> /\ Now \in Items /\ Now.steps \in Seq(Steps)
    BY <1>0, DueIsBegun DEF Items
  <2> QED BY <1>0, <2>1, DidThen DEF GoesOn
<1>1. CASE Find
  BY <1>1, FindOutcome
<1>2. CASE Save
  <2>1. At("save") /\ Did
    <3>1. Now \in Items /\ caveInstSize \in Nat
      BY <1>2, DueIsBegun DEF Save, IInv, Sized
    <3>2. caveInstSize + (Now.min + Slack) + JmpStub <= CaveSize
      BY <1>2, <3>1, CodePatchAssumption DEF Save, HasRoom, Items, JmpStub
    <3> QED BY <1>2, <3>2 DEF Save
  <2>2. Now.steps \in {Jump4, Via7}
    BY <2>1, DueIsBegun, StageAt
  <2>3. Len(Now.steps) > 1
    BY <2>2, Longer
  <2> QED BY <1>0, <2>1, <2>3
<1>3. CASE SetOriginal
  <2>1. Now.steps \in {Jump3, Via6, Slot2}
    BY <1>3, DueIsBegun, StageAt DEF SetOriginal
  <2>2. Len(Now.steps) > 1
    BY <2>1, Longer
  <2> QED BY <1>0, <1>3, <2>2 DEF SetOriginal
<1>4. CASE FindPad
  <2>1. /\ Now.steps = Via5 /\ InWork(Now) /\ Now.f = f /\ f # "Bgft"
    BY <1>4, DueIsBegun, StageAt DEF FindPad
  <2>2. Now.text \in Texts
    BY <2>1 DEF InWork
  <2>3. CASE Did
    <3>1. Len(Now.steps) > 1
      BY <2>1, Longer
    <3> QED BY <1>0, <1>4, <2>3, <3>1 DEF FindPad
  <2>4. CASE ~Did
    <3>1. /\ todo' = Tail(todo) /\ pad' = pad
          /\ {n \in 1 .. PadCount : pad[<<Now.text, n>>] = "free"} = {}
      BY <1>4, <2>4 DEF FindPad, Drop
    <3>2. PICK i \in Items : i = Now
      BY <1>4, DueIsBegun DEF FindPad
    <3>3. \A n \in 1 .. PadCount : pad'[<<i.text, n>>] # "free"
      BY <3>1, <3>2
    <3>4. i.text # "none"
      BY <2>2, <3>2 DEF Texts
    <3>5. Achieved(i)'
      BY <3>3, <3>4 DEF Achieved, Exhausted
    <3> QED BY <3>1, <3>2, <3>5 DEF Ends
  <2> QED BY <2>3, <2>4
<1>5. CASE Tear
  <2>1. Now.steps \in {Jump2, Via4}
    BY <1>5, DueIsBegun, StageAt DEF Tear
  <2>2. Len(Now.steps) > 1
    BY <2>1, Longer
  <2> QED BY <1>0, <1>5, <2>2 DEF Tear
<1>6. CASE Redirect
  <2>0. At("jump") /\ Did
    BY <1>6 DEF Redirect
  <2>1. /\ f \in Functions /\ Now.f = f
        /\ (Now.steps = Jump1 /\ via[f] = NoPad) \/ Now.steps = Via3
    BY <2>0, DueIsBegun, StageAt
  <2>2. CASE Now.steps = Via3
    <3>1. Len(Now.steps) > 1
      BY <2>2, Longer
    <3> QED BY <1>0, <2>0, <3>1
  <2>3. CASE Now.steps = Jump1 /\ via[f] = NoPad
    <3>1. Len(Now.steps) = 1
      BY <2>3, Rests
    <3>2. todo' = Tail(todo)
      BY <1>0, <2>0, <3>1
    <3>3. PICK g \in Functions : g = f /\ g = Now.f
      BY <2>1
    <3>4. code'[g] = "hooked" /\ via'[g] = NoPad
      BY <1>6, <2>3, <3>3 DEF Redirect, IInv, Texted
    <3>5. Enter(g)' = "hook"
      BY <3>4 DEF Enter
    <3>6. PICK i \in Items : i = Now
      BY <2>0, DueIsBegun
    <3>7. Achieved(i)'
      BY <3>3, <3>5, <3>6 DEF Achieved
    <3> QED BY <3>2, <3>6, <3>7 DEF Ends
  <2> QED BY <2>1, <2>2, <2>3
<1>7. CASE TearPad
  <2>1. Now.steps = Via2
    BY <1>7, DueIsBegun, StageAt DEF TearPad
  <2>2. Len(Now.steps) > 1
    BY <2>1, Longer
  <2> QED BY <1>0, <1>7, <2>2 DEF TearPad
<1>8. CASE WritePad
  <2>0. At("padjump") /\ Did
    BY <1>8 DEF WritePad
  <2>1. /\ f \in Functions /\ Now.f = f /\ Now.steps = Via1
        /\ code[f] = "hooked" /\ Chosen(f, "torn")
    BY <2>0, DueIsBegun, StageAt
  <2>2. todo' = Tail(todo)
    BY <1>0, <2>0, <2>1, Rests
  <2>3. PICK g \in Functions : g = f /\ g = Now.f
    BY <2>1
  <2>4. code'[g] = "hooked" /\ pad'[via'[g]] = g
    BY <1>8, <2>1, <2>3 DEF WritePad, IInv, Texted, Chosen
  <2>5. Enter(g)' = "hook"
    BY <2>4 DEF Enter
  <2>6. PICK i \in Items : i = Now
    BY <2>0, DueIsBegun
  <2>7. Achieved(i)'
    BY <2>3, <2>5, <2>6 DEF Achieved
  <2> QED BY <2>2, <2>6, <2>7 DEF Ends
<1> QED BY <1>1, <1>2, <1>3, <1>4, <1>5, <1>6, <1>7, <1>8 DEF Patch

\* A plan's items stay achieved or left.
LEMMA CoveredStays ==
    ASSUME IInv, PatchLeaves, todo \in Seq(Items), todo # <<>>,
           NEW plan \in Seq(Items), Covered(plan),
           \/ Ends
           \/ \E j \in Items : /\ todo' = <<j>> \o Tail(todo)
                               /\ \A i : Kin(Now, i) => Kin(j, i)
    PROVE  Covered(plan)'
<1>1. SUFFICES ASSUME NEW l \in DOMAIN plan, ~Achieved(plan[l])'
               PROVE  \E k \in DOMAIN todo' : Kin(todo'[k], plan[l])
  BY DEF Covered, Kin
<1>2. PICK i \in Items : i = plan[l]
  OBVIOUS
<1>3. ~Achieved(i)
  BY <1>1, <1>2, AchievedStays
<1>4. PICK k \in DOMAIN todo : Kin(todo[k], i)
  BY <1>2, <1>3 DEF Covered
<1>5. PICK rest : rest = Tail(todo)
  OBVIOUS
<1>6. /\ rest \in Seq(Items) /\ Len(rest) = Len(todo) - 1 /\ Len(todo) \in Nat
      /\ \A m \in 1 .. Len(rest) : rest[m] = todo[m + 1]
      /\ k \in 1 .. Len(todo) /\ DOMAIN rest = 1 .. Len(rest) /\ todo[1] = Now
  BY <1>5 DEF Now
<1>7. CASE Ends
  <2>1. PICK m \in Items : m = Now /\ Achieved(m)'
    BY <1>7 DEF Ends
  <2>2. k # 1
    <3>1. ASSUME k = 1
          PROVE  FALSE
      <4>1. Kin(m, i)
        BY <1>4, <1>6, <2>1, <3>1
      <4>2. Achieved(i)'
        BY <2>1, <4>1 DEF Kin, Achieved
      <4> QED BY <1>1, <1>2, <4>2
    <3> QED BY <3>1
  <2>3. k - 1 \in 1 .. Len(rest) /\ rest[k - 1] = todo[k]
    BY <1>6, <2>2
  <2>4. todo' = rest
    BY <1>5, <1>7 DEF Ends
  <2> QED BY <1>2, <1>4, <1>6, <2>3, <2>4
<1>8. CASE \E j \in Items : /\ todo' = <<j>> \o Tail(todo)
                            /\ \A other : Kin(Now, other) => Kin(j, other)
  <2>1. PICK j \in Items : todo' = <<j>> \o rest /\ (\A other : Kin(Now, other) => Kin(j, other))
    BY <1>5, <1>8
  <2>2. /\ DOMAIN todo' = 1 .. Len(todo) /\ todo'[1] = j
        /\ \A m \in 2 .. Len(todo) : todo'[m] = rest[m - 1]
    <3>1. /\ DOMAIN (<<j>> \o rest) = 1 .. 1 + Len(rest) /\ (<<j>> \o rest)[1] = j
          /\ \A m \in 2 .. Len(rest) + 1 : (<<j>> \o rest)[m] = rest[m - 1]
      BY <1>6
    <3> QED BY <1>6, <2>1, <3>1
  <2>3. CASE k = 1
    <3>1. Kin(todo'[1], i) /\ 1 \in DOMAIN todo'
      BY <1>4, <1>6, <2>1, <2>2, <2>3
    <3> QED BY <1>2, <3>1
  <2>4. CASE k # 1
    <3>0. k \in 2 .. Len(todo) /\ k - 1 \in 1 .. Len(rest) /\ rest[k - 1] = todo[k]
      BY <1>6, <2>4
    <3>1. k \in DOMAIN todo' /\ todo'[k] = todo[k]
      BY <1>6, <2>2, <3>0
    <3> QED BY <1>2, <1>4, <3>1
  <2> QED BY <2>3, <2>4
<1> QED BY <1>7, <1>8

\* What is due after a step of an item that has been begun asks the pad for
\* nothing.
LEMMA StepBehind ==
    ASSUME IInv, NEW step, At(step), step # "find", step # "bgft", Len(Now.steps) > 1
    PROVE  Head(Tail(Now.steps)) \notin {"find", "save", "bgft"}
<1>1. Stage(Now)
  BY DueIsBegun
<1>2. PICK steps : steps = Now.steps
  OBVIOUS
<1>3. steps \in {Jump1, Jump2, Jump3, Jump4, Slot2, Via1, Via2, Via3, Via4, Via5, Via6, Via7}
  BY <1>1, <1>2 DEF Stage
<1>4. steps # Jump1 /\ steps # Via1
  <2>1. Len(Jump1) = 1 /\ Len(Via1) = 1 /\ Len(steps) > 1
    BY <1>2, Rests
  <2>2. Len(steps) # Len(Jump1) /\ Len(steps) # Len(Via1)
    BY <2>1
  <2> QED BY <2>2, Zenon
<1>5. Tail(steps) \in {Jump1, Jump2, Jump3, Via1, Via2, Via3, Via4, Via5, Via6}
  <2>1. /\ Tail(Jump2) = Jump1 /\ Tail(Jump3) = Jump2 /\ Tail(Jump4) = Jump3
        /\ Tail(Slot2) = Jump1 /\ Tail(Via2) = Via1 /\ Tail(Via3) = Via2 /\ Tail(Via4) = Via3
        /\ Tail(Via5) = Via4 /\ Tail(Via6) = Via5 /\ Tail(Via7) = Via6
    BY Rests
  <2> QED BY <1>3, <1>4, <2>1, Zenon
<1>6. /\ Head(Jump1) = "jump" /\ Head(Jump2) = "tear" /\ Head(Jump3) = "original"
      /\ Head(Via1) = "padjump" /\ Head(Via2) = "padtear" /\ Head(Via3) = "jump"
      /\ Head(Via4) = "tear" /\ Head(Via5) = "pad" /\ Head(Via6) = "original"
  BY Rests
<1>7. PICK rest : rest = Tail(steps)
  OBVIOUS
<1>8. Head(rest) \in {"jump", "tear", "original", "padjump", "padtear", "pad"}
  BY <1>5, <1>6, <1>7, Zenon
<1> QED BY <1>2, <1>7, <1>8

\* How many items may still take some of the pad.
LEMMA Counts ==
    ASSUME todo \in Seq(Items)
    PROVE  Here \in Nat /\ Later \in Nat
<1>1. Len(todo) \in Nat /\ (todo # <<>> => Len(todo) >= 1)
  OBVIOUS
<1>2. Here \in Nat
  BY <1>1 DEF Here
<1> QED BY <1>2 DEF Later

\* No step of a plan raises that number, and CreatePrologueHook lowers it.
LEMMA HereFalls ==
    ASSUME IInv, Sized', Patch, GoesOn \/ Ends, UNCHANGED busy
    PROVE  /\ Here' <= Here
           /\ At("save") /\ GoesOn /\ busy \notin {"none", "load"} => Here' + 1 <= Here
<1>1. todo \in Seq(Items) /\ todo # <<>> /\ todo' \in Seq(Items)
  BY DEF IInv, Sized, Patch, Find, Save, SetOriginal, FindPad, Tear, Redirect, TearPad, WritePad, At
<1>2. PICK rest : rest = Tail(todo)
  OBVIOUS
<1>3. rest \in Seq(Items) /\ Len(rest) = Len(todo) - 1 /\ Len(todo) \in Nat
  BY <1>1, <1>2
<1>4. CASE busy \in {"none", "load"}
  BY <1>4 DEF Here
<1>5. CASE busy \notin {"none", "load"} /\ Ends
  <2>1. Len(todo') = Len(todo) - 1
    BY <1>2, <1>3, <1>5 DEF Ends
  <2>2. Here' <= Len(todo')
    BY <1>1, <1>5, <2>1 DEF Here
  <2>3. Len(todo) - 1 <= Here
    BY <1>1, <1>3, <1>5 DEF Here
  <2>4. ~GoesOn
    <3>1. ASSUME NEW j \in Items
          PROVE  todo' # <<j>> \o Tail(todo)
      <4>1. Len(<<j>> \o rest) = Len(todo)
        BY <1>3
      <4> QED BY <1>2, <1>3, <2>1, <4>1
    <3> QED BY <3>1 DEF GoesOn
  <2>5. Here \in Nat /\ Here' \in Nat
    BY <1>1, Counts, <1>5, <2>1 DEF Here
  <2>6. Here' <= Here
    <3>1. ASSUME NEW a \in Int, NEW b \in Int, NEW c \in Int, a <= c, c <= b
          PROVE  a <= b
      BY <3>1
    <3>2. Len(todo') \in Int /\ Len(todo') <= Here
      BY <1>3, <2>1, <2>3
    <3> QED BY <2>2, <2>5, <3>1, <3>2
  <2> QED BY <2>4, <2>6
<1>6. CASE busy \notin {"none", "load"} /\ GoesOn
  <2>1. PICK j \in Items : todo' = <<j>> \o rest /\ j.steps = Tail(Now.steps)
    BY <1>2, <1>6 DEF GoesOn
  <2>2. Len(todo') = Len(todo) /\ Head(todo') = j /\ todo' # <<>>
    BY <1>3, <2>1
  <2>3. Here' = IF Head(j.steps) \in {"find", "save", "bgft"} THEN Len(todo) ELSE Len(todo) - 1
    BY <1>6, <2>2 DEF Here, Now
  <2>4. Here = IF Head(Now.steps) \in {"find", "save", "bgft"} THEN Len(todo) ELSE Len(todo) - 1
    BY <1>1, <1>6 DEF Here
  <2>5. CASE At("find")
    BY <1>1, <1>3, <2>3, <2>4, <2>5 DEF At
  <2>6. CASE ~At("find")
    <3>1. PICK step : At(step) /\ step # "find" /\ step # "bgft"
      BY <2>6 DEF Patch, Find, Save, SetOriginal, FindPad, Tear, Redirect, TearPad, WritePad
    <3>2. Head(j.steps) \notin {"find", "save", "bgft"}
      BY <1>6, <2>1, <3>1, StepBehind DEF GoesOn
    <3>3. Here' = Len(todo) - 1
      BY <2>3, <3>2
    <3>4. At("save") => Here = Len(todo)
      BY <2>4 DEF At
    <3>5. Len(todo) - 1 <= Here
      BY <1>3, <2>4
    <3> QED BY <1>3, <3>3, <3>4, <3>5
  <2>7. At("save") => ~At("find")
    BY DEF At
  <2> QED BY <2>5, <2>6, <2>7
<1> QED BY <1>4, <1>5, <1>6

\* A plan of so many items, none of which asks for more than the largest.
PlanOf(s, n) ==
    s \in Seq(Items) /\ Len(s) = n /\ \A k \in 1 .. n : s[k].min <= 17

LEMMA PlanOfJoin ==
    ASSUME NEW s, NEW t, NEW m \in Nat, NEW n \in Nat, PlanOf(s, m), PlanOf(t, n)
    PROVE  PlanOf(s \o t, m + n)
<1>0. s \in Seq(Items) /\ t \in Seq(Items) /\ Len(s) = m /\ Len(t) = n
  BY DEF PlanOf
<1>1. s \o t \in Seq(Items) /\ Len(s \o t) = m + n
  BY <1>0, Tuples
<1>2. ASSUME NEW k \in 1 .. m + n
      PROVE  (s \o t)[k].min <= 17
  <2>1. CASE k \in 1 .. m
    <3>1. (s \o t)[k] = s[k]
      BY <1>0, <2>1
    <3> QED BY <2>1, <3>1 DEF PlanOf
  <2>2. CASE k \notin 1 .. m
    <3>1. k - m \in 1 .. n /\ (s \o t)[k] = t[k - m]
      BY <1>0, <2>2
    <3> QED BY <3>1 DEF PlanOf
  <2> QED BY <2>1, <2>2
<1> QED BY <1>1, <1>2 DEF PlanOf

LEMMA PlanOfDomain ==
    ASSUME NEW s, NEW n \in Nat, PlanOf(s, n)
    PROVE  DOMAIN s = 1 .. n /\ (n # 0 => s # <<>>)
<1>1. s \in Seq(Items) /\ Len(s) = n
  BY DEF PlanOf
<1> QED BY <1>1

\* What each kind of item asks for.
LEMMA KindsAsk ==
    ASSUME NEW g
    PROVE  /\ \A n : Long(g, n).min = n
           /\ Near(g).min = 6 /\ Call(g).min = 0 /\ Over(g).min = 0
           /\ Import(g).min = 0 /\ Pointer(g).min = 0
           /\ Item("Bgft", 0, <<"bgft">>).min = 0
BY DEF Long, Near, Call, Over, Import, Pointer, Item

LEMMA BranchSize == PlanOf(UploadOnBranch, 12)
<1>1. UploadOnBranch \in Seq(Items)
  BY KindsTyped, BootAssumption DEF UploadOnBranch, Redirected
<1>2. Len(UploadOnBranch) = 12
  BY <1>1 DEF UploadOnBranch
<1>3. /\ UploadOnBranch[1] = Long("OnPress", 15) /\ UploadOnBranch[2] = Long("OnPreCreate", 15)
      /\ UploadOnBranch[3] = Long("OnPageActivating", 15)
      /\ UploadOnBranch[4] = Near("OnCheckVisible")
      /\ UploadOnBranch[5] = Near("StartSettingsPage")
      /\ UploadOnBranch[6] = Near("SetImage") /\ UploadOnBranch[7] = Near("GetString")
      /\ UploadOnBranch[8] = Over("OfflinePanel") /\ UploadOnBranch[9] = Over("InitProperty")
      /\ UploadOnBranch[10] = Long("OnConfirm", 15)
      /\ UploadOnBranch[11] = Over("OnPageDeactivating")
      /\ UploadOnBranch[12] = Over("LaunchPlugin")
  BY DEF UploadOnBranch
<1>4. /\ UploadOnBranch[1].min <= 17 /\ UploadOnBranch[2].min <= 17
      /\ UploadOnBranch[3].min <= 17 /\ UploadOnBranch[4].min <= 17
      /\ UploadOnBranch[5].min <= 17 /\ UploadOnBranch[6].min <= 17
      /\ UploadOnBranch[7].min <= 17 /\ UploadOnBranch[8].min <= 17
      /\ UploadOnBranch[9].min <= 17 /\ UploadOnBranch[10].min <= 17
      /\ UploadOnBranch[11].min <= 17 /\ UploadOnBranch[12].min <= 17
  <2>1. \A g : Long(g, 15).min <= 17 /\ Near(g).min <= 17 /\ Over(g).min <= 17
    BY KindsAsk
  <2> QED BY ONLY <1>3, <2>1, Zenon
<1>5. \A k \in 1 .. 12 : k \in {1, 2, 3, 4, 5, 6, 7, 8, 9, 10, 11, 12}
  OBVIOUS
<1>6. \A k \in 1 .. 12 : UploadOnBranch[k].min <= 17
  BY <1>4, <1>5
<1> QED BY <1>1, <1>2, <1>6 DEF PlanOf

\* One item is a plan of one.
LEMMA OnesAre ==
    /\ \A i \in Items : i.min <= 17 => PlanOf(<<i>>, 1)
    /\ \A g \in Functions : /\ PlanOf(<<Call(g)>>, 1) /\ PlanOf(<<Over(g)>>, 1)
                            /\ PlanOf(<<Long(g, 15)>>, 1) /\ PlanOf(<<Long(g, 17)>>, 1)
<1>1. ASSUME NEW i \in Items, i.min <= 17
      PROVE  PlanOf(<<i>>, 1)
  BY <1>1, Tuples DEF PlanOf
<1>2. ASSUME NEW g \in Functions
      PROVE  /\ PlanOf(<<Call(g)>>, 1) /\ PlanOf(<<Over(g)>>, 1)
             /\ PlanOf(<<Long(g, 15)>>, 1) /\ PlanOf(<<Long(g, 17)>>, 1)
  <2>1. Call(g) \in Items /\ Over(g) \in Items /\ Long(g, 15) \in Items /\ Long(g, 17) \in Items
    BY KindsTyped
  <2>2. Call(g).min <= 17 /\ Over(g).min <= 17 /\ Long(g, 15).min <= 17 /\ Long(g, 17).min <= 17
    BY KindsAsk
  <2> QED BY <1>1, <2>1, <2>2
<1> QED BY <1>1, <1>2

\* The sizes of the plans.
LEMMA PlanSizes ==
    /\ LoadPlan \in Seq(Items) /\ Len(LoadPlan) = 1 /\ LoadPlan[1].min = 0
    /\ PlanOf(RunPost, 9) /\ PlanOf(BranchPlan, 14) /\ PlanOf(PrintTimeTick, 2)
<1>0. Redirected \subseteq Functions
  BY BootAssumption
<1>1. LoadPlan \in Seq(Items) /\ Len(LoadPlan) = 1 /\ LoadPlan[1].min = 0
  BY PlansTyped, KindsAsk DEF LoadPlan
<1>2. PlanOf(RunPost, 9)
  <2>1. /\ "EventProxy" \in Functions /\ "RemotePlay" \in Functions /\ "FinishBoot" \in Functions
        /\ "HwSerial" \in Functions /\ "DebugMenu" \in Functions
    BY <1>0 DEF Redirected
  <2>2. PlanOf(<<Call("EventProxy")>>, 1) /\ PlanOf(UploadRemotePlayPatch, 1)
    BY <2>1, OnesAre DEF UploadRemotePlayPatch
  <2>3. /\ PlanOf(UploadFinishBootEffectCode, 1) /\ PlanOf(<<Over("HwSerial")>>, 1)
        /\ PlanOf(UploadDebugSettingsPatch, 1)
    BY <2>1, OnesAre DEF UploadFinishBootEffectCode, UploadDebugSettingsPatch
  <2>11. PlanOf(<<Item("Bgft", 0, <<"bgft">>)>>, 1)
    <3>1. Item("Bgft", 0, <<"bgft">>) \in Items
      BY ItemTyped, StepsTyped
    <3>2. Item("Bgft", 0, <<"bgft">>).min <= 17
      BY DEF Item
    <3> QED BY <3>1, <3>2, OnesAre
  <2>4. PlanOf(UploadRegStrCall, 3)
    <3>1. "RegStr" \in Functions /\ "SystemName" \in Functions /\ "Icons" \in Functions
      BY <1>0 DEF Redirected
    <3>2. /\ Call("RegStr") \in Items /\ Call("RegStr").min = 0
          /\ Over("SystemName") \in Items /\ Over("SystemName").min = 0
          /\ Over("Icons") \in Items /\ Over("Icons").min = 0
      BY <3>1, KindsTyped, KindsAsk
    <3> QED BY <3>2, Tuples DEF PlanOf, UploadRegStrCall
  <2> DEFINE first == <<Call("EventProxy")>> \o UploadRegStrCall
             shell == first \o UploadRemotePlayPatch
             bgfts == shell \o <<Item("Bgft", 0, <<"bgft">>)>>
             boots == bgfts \o UploadFinishBootEffectCode
             names == boots \o <<Over("HwSerial")>>
  <2>5. PlanOf(first, 1 + 3)
    BY <2>2, <2>4, PlanOfJoin
  <2> HIDE DEF first
  <2>6. PlanOf(shell, 4 + 1)
    BY <2>2, <2>5, PlanOfJoin
  <2> HIDE DEF shell
  <2>7. PlanOf(bgfts, 5 + 1)
    BY <2>6, <2>11, PlanOfJoin
  <2> HIDE DEF bgfts
  <2>8. PlanOf(boots, 6 + 1)
    BY <2>3, <2>7, PlanOfJoin
  <2> HIDE DEF boots
  <2>9. PlanOf(names, 7 + 1)
    BY <2>3, <2>8, PlanOfJoin
  <2> HIDE DEF names
  <2>10. PlanOf(names \o UploadDebugSettingsPatch, 8 + 1)
    BY <2>3, <2>9, PlanOfJoin
  <2> QED BY <2>10 DEF RunPost, first, shell, bgfts, boots, names
<1>3. PlanOf(BranchPlan, 14)
  <2>1. PlanOf(UploadNewPkgInstallerPath, 2)
    <3>1. "SearchDir" \in Functions /\ "NewElement" \in Functions
      BY <1>0 DEF Redirected
    <3>2. /\ Long("SearchDir", 15) \in Items /\ Long("SearchDir", 15).min = 15
          /\ Near("NewElement") \in Items /\ Near("NewElement").min = 6
      BY <3>1, KindsTyped, KindsAsk
    <3> QED BY <3>2, Tuples DEF PlanOf, UploadNewPkgInstallerPath
  <2>2. PlanOf(UploadOnBranch, 12)
    BY BranchSize
  <2>3. PlanOf(UploadNewPkgInstallerPath \o UploadOnBranch, 2 + 12)
    BY <2>1, <2>2, PlanOfJoin
  <2> QED BY <2>3 DEF BranchPlan
<1>4. PlanOf(PrintTimeTick, 2)
  <2>1. PlanOf(UploadResourceStreamBranch, 1) /\ PlanOf(MainThreadCheck, 1)
    <3>1. "ResourceStream" \in Functions /\ "MainThread" \in Functions
      BY <1>0 DEF Redirected
    <3> QED BY <3>1, OnesAre DEF UploadResourceStreamBranch, MainThreadCheck
  <2>2. PlanOf(UploadResourceStreamBranch \o MainThreadCheck, 1 + 1)
    BY <2>1, PlanOfJoin
  <2> QED BY <2>2 DEF PrintTimeTick
<1> QED BY <1>1, <1>2, <1>3, <1>4

\* A handler that starts has its whole plan left.
LEMMA CoveredAtStart ==
    ASSUME NEW plan, todo' = plan
    PROVE  Covered(plan)'
BY DEF Covered, Kin

\* With nothing left a plan is through.
LEMMA CoveredAtEnd ==
    ASSUME NEW plan, Covered(plan), todo = <<>>
    PROVE  Gone(plan)
BY DEF Covered, Gone

\* What is achieved is a matter of the texts and of the firmware.
LEMMA SameTexts ==
    ASSUME UNCHANGED <<absent, textVars>>
    PROVE  /\ \A i : Achieved(i)' <=> Achieved(i)
           /\ \A plan : Gone(plan)' <=> Gone(plan)
<1>1. \A i : Achieved(i)' <=> Achieved(i)
  BY DEF textVars, Achieved, Enter, Exhausted
<1> QED BY <1>1 DEF Gone

\* With fewer items to come there is as much room.
LEMMA FewerFit ==
    ASSUME NEW size \in Nat, NEW m \in Nat, NEW n \in Nat, m <= n,
           size + Most * n <= Most * 25
    PROVE  size + Most * m <= Most * 25
<1>1. Most * m <= Most * n
  BY MostGrows
<1>2. Most \in Nat
  BY CodePatchAssumption DEF Most, Jump, JmpStub
<1> HIDE DEF Most
<1>3. Most * m \in Nat /\ Most * n \in Nat /\ Most * 25 \in Nat
  BY <1>2
<1> QED BY <1>1, <1>3

\* A step that takes nothing of the pad leaves the room.
LEMMA RoomStays ==
    ASSUME Sized, Sized', Room, Here' + Later' <= Here + Later, UNCHANGED caveInstSize
    PROVE  Room'
<1>1. Here \in Nat /\ Later \in Nat /\ Here' \in Nat /\ Later' \in Nat
  <2>1. Here \in Nat /\ Later \in Nat
    BY Counts DEF Sized
  <2>2. Len(todo') \in Nat /\ (todo' # <<>> => Len(todo') >= 1)
    BY DEF Sized
  <2> QED BY <2>1, <2>2 DEF Here, Later
<1>2. PICK h \in Nat : h = Here
  BY <1>1
<1>3. PICK l \in Nat : l = Later
  BY <1>1
<1>4. PICK h1 \in Nat : h1 = Here'
  BY <1>1
<1>5. PICK l1 \in Nat : l1 = Later'
  BY <1>1
<1>6. h1 + l1 <= h + l
  BY <1>2, <1>3, <1>4, <1>5
<1>7. h1 + l1 \in Nat /\ h + l \in Nat
  OBVIOUS
<1>8. caveInstSize \in Nat /\ caveInstSize + Most * (h + l) <= Most * 25
  BY <1>2, <1>3 DEF Sized, Room
<1>9. caveInstSize + Most * (h1 + l1) <= Most * 25
  BY <1>6, <1>7, <1>8, FewerFit
<1>10. caveInstSize' = caveInstSize /\ Most' = Most
  BY DEF Most, Jump, JmpStub
<1> QED BY <1>4, <1>5, <1>9, <1>10 DEF Room

\* There is room for what CreatePrologueHook asks for, and the handler is one of
\* those that are counted.
LEMMA SaveFits ==
    ASSUME IInv, Small, Room, Roomy, At("save")
    PROVE  /\ HasRoom /\ Now.min \in 0 .. 17 /\ busy \notin {"none", "load"}
           /\ Here \in Nat /\ 1 <= Here /\ Later \in Nat
<1>1. todo \in Seq(Items) /\ todo # <<>> /\ Now \in Items /\ Now.min # 0
  BY DueIsBegun, StageAt
<1>2. Len(todo) \in Nat /\ 1 <= Len(todo) /\ 1 \in DOMAIN todo /\ todo[1] = Now
  BY <1>1 DEF Now
<1>3. Now.min \in Nat
  BY <1>1 DEF Items
<1>4. busy # "none"
  <2>1. Target(todo[1]) \in Of(busy)
    BY <1>2 DEF IInv, Queue
  <2> QED BY <2>1 DEF Of
<1>5. busy # "load" /\ Now.min <= 17
  <2>1. Now.min <= IF busy = "load" THEN 0 ELSE 17
    BY <1>2 DEF Small
  <2> QED BY <1>1, <1>3, <2>1
<1>6. Here = Len(todo) /\ Later \in Nat
  BY <1>1, <1>4, <1>5, Counts DEF Here, At
<1>7. HasRoom
  <2>1. PICK h \in Nat : h = Here /\ 1 <= h
    BY <1>2, <1>6
  <2>2. PICK l \in Nat : l = Later
    BY <1>6
  <2>3. h + l \in Nat /\ 1 <= h + l
    BY <2>1, <2>2
  <2>4. caveInstSize \in Nat /\ caveInstSize + Most * (h + l) <= Most * 25
    BY <2>1, <2>2 DEF IInv, Sized, Room
  <2>5. caveInstSize + Most * 1 <= Most * 25
    BY <2>3, <2>4, FewerFit
  <2>6. Most \in Nat /\ Most = 17 + Slack + Jump /\ Most * 25 <= CaveSize
    BY CodePatchAssumption DEF Most, Roomy, Jump, JmpStub
  <2> HIDE DEF Most
  <2>7. PICK one \in Nat : one = Most * 1 /\ one = 17 + Slack + Jump
    <3>1. Most * 1 = Most
      BY <2>6
    <3> QED BY <2>6, <3>1
  <2>8. PICK big \in Nat : big = Most * 25 /\ big <= CaveSize
    <3>1. Most * 25 \in Nat
      BY <2>6
    <3> QED BY <2>6, <3>1
  <2>9. caveInstSize + one <= big
    BY <2>5, <2>7, <2>8
  <2>10. caveInstSize + (17 + Slack + Jump) <= CaveSize
    <3>1. caveInstSize + one <= CaveSize
      BY <2>4, <2>7, <2>8, <2>9, CodePatchAssumption
    <3> QED BY <2>7, <3>1
  <2>11. ASSUME NEW used \in Nat, NEW m \in 0 .. 17, used + (17 + Slack + Jump) <= CaveSize
         PROVE  used + (m + Slack) + JmpStub <= CaveSize
    BY <2>11, CodePatchAssumption DEF Jump, JmpStub
  <2>12. Now.min \in 0 .. 17
    BY <1>3, <1>5
  <2>13. caveInstSize + (Now.min + Slack) + JmpStub <= CaveSize
    BY <2>4, <2>10, <2>11, <2>12
  <2> QED BY <2>13 DEF HasRoom
<1>8. Now.min \in 0 .. 17
  BY <1>3, <1>5
<1>9. Here \in Nat /\ 1 <= Here
  BY <1>2, <1>6
<1> QED BY <1>4, <1>5, <1>6, <1>7, <1>8, <1>9

\* What CreatePrologueHook takes was kept for it.
LEMMA SaveRoom ==
    ASSUME IInv, Sized', Small, Room, Roomy, Save, GoesOn, UNCHANGED bootVars
    PROVE  Room'
<1>1. /\ At("save") /\ Now.min \in 0 .. 17 /\ busy \notin {"none", "load"}
      /\ Here \in Nat /\ Later \in Nat
  BY SaveFits DEF Save
<1>2. Here' + 1 <= Here
  BY <1>1, HereFalls DEF IInv, Patch, bootVars
<1>3. Later' = Later
  BY DEF Later, bootVars
<1>4. Here' \in Nat
  <2>1. Len(todo') \in Nat /\ (todo' # <<>> => Len(todo') >= 1)
    BY DEF Sized
  <2> QED BY <2>1 DEF Here
<1>5. caveInstSize \in Nat /\ caveInstSize' = caveInstSize + (Now.min + Slack) + Jump
  <2>1. caveInstSize + (Now.min + Slack) + JmpStub <= CaveSize
    BY <1>1, SaveFits DEF HasRoom
  <2> QED BY <2>1 DEF Save, IInv, Sized
<1>6. PICK h \in Nat : h = Here
  BY <1>1
<1>7. PICK l \in Nat : l = Later
  BY <1>1
<1>8. PICK h1 \in Nat : h1 = Here'
  BY <1>4
<1>9. caveInstSize + Most * (h + l) <= Most * 25
  BY <1>6, <1>7 DEF Room
<1>10. h1 + 1 <= h
  BY <1>2, <1>6, <1>8
<1>11. h1 + 1 + l \in Nat /\ h + l \in Nat /\ h1 + 1 + l <= h + l
  BY <1>10
<1>12. caveInstSize + Most * (h1 + 1 + l) <= Most * 25
  BY <1>5, <1>9, <1>11, FewerFit
<1>13. Most \in Nat /\ (Now.min + Slack) + Jump <= Most
  BY <1>1, CodePatchAssumption DEF Most, Jump, JmpStub
<1>14. Most' = Most
  BY DEF Most, Jump, JmpStub
<1>15. h1 + l \in Nat /\ h1 + 1 + l = (h1 + l) + 1
  OBVIOUS
<1> HIDE DEF Most
<1>16. Most * ((h1 + l) + 1) = Most * (h1 + l) + Most
  BY <1>13, <1>15
<1>17. Most * (h1 + l) \in Nat /\ Most * 25 \in Nat
  BY <1>13, <1>15
<1>18. (Now.min + Slack) + Jump \in Nat
  BY <1>1, CodePatchAssumption DEF Jump, JmpStub
<1>19. caveInstSize' + Most * (h1 + l) <= Most * 25
  <2>1. PICK took \in Nat : took = (Now.min + Slack) + Jump
    BY <1>18
  <2>2. caveInstSize' = caveInstSize + took
    <3>1. caveInstSize + (Now.min + Slack) + Jump = caveInstSize + ((Now.min + Slack) + Jump)
      BY <1>1, <1>5, CodePatchAssumption DEF Jump, JmpStub
    <3> QED BY <1>5, <2>1, <3>1
  <2>3. caveInstSize + (Most * (h1 + l) + Most) <= Most * 25
    BY <1>12, <1>15, <1>16
  <2> QED BY <1>5, <1>13, <1>17, <2>1, <2>2, <2>3
<1> QED BY <1>3, <1>7, <1>8, <1>14, <1>19 DEF Room

\* A step of a plan.
LEMMA PatchBoots ==
    ASSUME IInv, Sized', Booting, Roomy, Patch, UNCHANGED bootVars
    PROVE  Booting'
<1>0. /\ todo \in Seq(Items) /\ todo # <<>> /\ todo' \in Seq(Items)
      /\ UNCHANGED <<busy, test, root_domain, app_exe, once, ticked, loads>>
  BY DEF IInv, Sized, bootVars, Patch, Find, Save, SetOriginal, FindPad, Tear, Redirect,
         TearPad, WritePad, At
<1>1. PatchLeaves
  BY PatchSpares
<1>2. GoesOn \/ Ends
  <2>1. HasRoom
    <3>1. CASE At("save")
      BY <3>1, SaveFits DEF Booting
    <3>2. CASE ~At("save")
      BY <3>2 DEF HasRoom
    <3> QED BY <3>1, <3>2
  <2> QED BY <2>1, PatchOutcome
<1>3. ASSUME NEW plan \in Seq(Items), Covered(plan)
      PROVE  Covered(plan)'
  <2>1. \/ Ends
        \/ \E j \in Items : /\ todo' = <<j>> \o Tail(todo)
                            /\ \A i : Kin(Now, i) => Kin(j, i)
    BY <1>2 DEF GoesOn, Kin
  <2> QED BY <1>0, <1>1, <1>3, <2>1, CoveredStays
<1>4. ASSUME NEW plan \in Seq(Items), Gone(plan)
      PROVE  Gone(plan)'
  <2>1. \A l \in DOMAIN plan : plan[l] \in Items
    OBVIOUS
  <2> QED BY <1>1, <1>4, <2>1, AchievedStays DEF Gone
<1>5. Working' /\ Behind'
  BY <1>0, <1>3, <1>4, PlansTyped DEF Booting, Working, Behind
<1>6. Loaded'
  BY <1>0 DEF Booting, Loaded
<1>7. Small'
  <2>1. PICK rest : rest = Tail(todo)
    OBVIOUS
  <2>2. /\ rest \in Seq(Items) /\ Len(rest) = Len(todo) - 1 /\ Len(todo) \in Nat
        /\ \A m \in 1 .. Len(rest) : rest[m] = todo[m + 1]
        /\ todo[1] = Now /\ 1 \in 1 .. Len(todo)
    BY <1>0, <2>1 DEF Now
  <2>3. \A m \in 1 .. Len(todo) : todo[m].min <= IF busy = "load" THEN 0 ELSE 17
    BY <1>0 DEF Booting, Small
  <2>4. \A m \in 1 .. Len(rest) : rest[m].min <= IF busy = "load" THEN 0 ELSE 17
    <3>1. \A m \in 1 .. Len(rest) : m + 1 \in 1 .. Len(todo)
      BY <2>2
    <3> QED BY <2>2, <2>3, <3>1
  <2>5. CASE Ends
    BY <1>0, <2>1, <2>4, <2>5 DEF Ends, Small
  <2>6. CASE GoesOn
    <3>1. PICK j \in Items : todo' = <<j>> \o rest /\ j.min = Now.min
      BY <2>1, <2>6 DEF GoesOn
    <3>2. /\ DOMAIN (<<j>> \o rest) = 1 .. 1 + Len(rest) /\ (<<j>> \o rest)[1] = j
          /\ \A m \in 2 .. Len(rest) + 1 : (<<j>> \o rest)[m] = rest[m - 1]
      BY <2>2
    <3>3. ASSUME NEW m \in DOMAIN todo'
          PROVE  todo'[m].min <= IF busy = "load" THEN 0 ELSE 17
      <4>1. m \in 1 .. 1 + Len(rest)
        BY <3>1, <3>2
      <4>2. CASE m = 1
        BY <2>2, <2>3, <3>1, <3>2, <4>2
      <4>3. CASE m # 1
        <5>1. m - 1 \in 1 .. Len(rest) /\ m \in 2 .. Len(rest) + 1
          BY <2>2, <4>1, <4>3
        <5> QED BY <2>4, <3>1, <3>2, <5>1
      <4> QED BY <4>2, <4>3
    <3> QED BY <1>0, <3>3 DEF Small
  <2> QED BY <1>2, <2>5, <2>6
<1>8. Room'
  <2>1. CASE Save /\ GoesOn
    BY <2>1, SaveRoom DEF Booting
  <2>2. CASE ~(Save /\ GoesOn)
    <3>1. UNCHANGED caveInstSize
      <4>1. CASE Save
        <5>1. Ends
          BY <1>2, <2>2, <4>1
        <5>2. ~Did
          <6>1. Now.steps \in {Jump4, Via7}
            BY <4>1, DueIsBegun, StageAt DEF Save
          <6>2. Len(Now.steps) > 1
            BY <6>1, Longer
          <6>3. Now.steps \in Seq(Steps) /\ Now \in Items
            BY <4>1, DueIsBegun DEF Save, Items
          <6> QED BY <1>0, <2>2, <4>1, <6>2, <6>3, DidThen DEF GoesOn
        <5> QED BY <4>1, <5>2 DEF Save
      <4>2. CASE ~Save
        BY <4>2 DEF Patch, Find, SetOriginal, FindPad, Tear, Redirect, TearPad, WritePad, hookVars
      <4> QED BY <4>1, <4>2
    <3>2. Here' <= Here
      BY <1>0, <1>2, HereFalls
    <3>3. Later' = Later /\ Later \in Nat /\ Here \in Nat
      BY <1>0, Counts DEF Later
    <3>4. Here' \in Nat
      <4>1. Len(todo') \in Nat /\ (todo' # <<>> => Len(todo') >= 1)
        BY DEF Sized
      <4> QED BY <4>1 DEF Here
    <3>5. Here' + Later' <= Here + Later
      <4>1. ASSUME NEW h1 \in Nat, NEW h \in Nat, NEW l \in Nat, h1 <= h
            PROVE  h1 + l <= h + l
        BY <4>1
      <4> QED BY <3>2, <3>3, <3>4, <4>1
    <3> QED BY <3>1, <3>5, RoomStays DEF IInv, Booting
  <2> QED BY <2>1, <2>2
<1> QED BY <1>5, <1>6, <1>7, <1>8 DEF Booting

\* UploadBgftFixup ends with nothing patched in ShellUI, or goes on to the call
\* list's item.
LEMMA BgftBoots ==
    ASSUME IInv, Sized', Booting, UploadBgftFixup
    PROVE  Booting'
<1>0. /\ todo \in Seq(Items) /\ todo # <<>> /\ todo' \in Seq(Items) /\ Now \in Items
      /\ At("bgft") /\ Head(Now.steps) = "bgft"
      /\ UNCHANGED <<absent, code, via, pad, saved, original, caveInstSize,
                     busy, test, root_domain, app_exe, once, ticked, loads>>
  BY DEF IInv, Sized, UploadBgftFixup, At, Now, bootVars, textVars, hookVars
<1>1. PatchLeaves
  BY <1>0 DEF PatchLeaves, Spares
<1>2. Now.f = "Bgft"
  <2>1. First(Now)
    BY <1>0 DEF IInv, Queue, Now
  <2>2. ~Whole(Now)
    BY <1>0, WholeSteps
  <2>3. ~Stage(Now)
    BY <1>0, Rests DEF Stage
  <2> QED BY <2>1, <2>2, <2>3 DEF First, InWork
<1>3. todo' = Tail(todo) \/ todo' = <<Pointer("CallList")>> \o Tail(todo)
  BY DEF UploadBgftFixup, Drop
<1>4. Pointer("CallList") \in Items /\ Pointer("CallList").min = 0
  BY KindsTyped, KindsAsk, BootAssumption DEF Redirected
<1>5. PICK rest : rest = Tail(todo)
  OBVIOUS
<1>6. /\ rest \in Seq(Items) /\ Len(rest) = Len(todo) - 1 /\ Len(todo) \in Nat
      /\ 1 <= Len(todo) /\ \A m \in 1 .. Len(rest) : rest[m] = todo[m + 1]
  BY <1>0, <1>5
<1>7. \/ Ends
      \/ \E j \in Items : /\ todo' = <<j>> \o Tail(todo)
                          /\ \A i : Kin(Now, i) => Kin(j, i)
  <2>1. PICK m \in Items : m = Now
    BY <1>0
  <2>2. Achieved(m)'
    BY <1>2, <2>1 DEF Achieved
  <2>3. \A i : Kin(Now, i) => Kin(Pointer("CallList"), i)
    BY <1>2 DEF Kin
  <2> QED BY <1>3, <1>4, <2>1, <2>2, <2>3 DEF Ends
<1>8. ASSUME NEW plan \in Seq(Items), Covered(plan)
      PROVE  Covered(plan)'
  BY <1>0, <1>1, <1>7, <1>8, CoveredStays
<1>9. \A plan : Gone(plan)' <=> Gone(plan)
  BY <1>0, SameTexts DEF textVars
<1>10. Working' /\ Behind'
  BY <1>0, <1>8, <1>9, PlansTyped DEF Booting, Working, Behind
<1>11. Loaded'
  BY <1>0 DEF Booting, Loaded
<1>12. Small'
  <2>1. \A m \in 1 .. Len(rest) : rest[m].min <= IF busy = "load" THEN 0 ELSE 17
    <3>1. \A m \in 1 .. Len(rest) : m + 1 \in 1 .. Len(todo)
      BY <1>6
    <3>2. \A m \in 1 .. Len(todo) : todo[m].min <= IF busy = "load" THEN 0 ELSE 17
      BY <1>0 DEF Booting, Small
    <3> QED BY <1>6, <3>1, <3>2
  <2>2. CASE todo' = rest
    BY <1>0, <1>6, <2>1, <2>2 DEF Small
  <2>3. CASE todo' = <<Pointer("CallList")>> \o rest
    <3>1. PICK j \in Items : j = Pointer("CallList") /\ j.min = 0
      BY <1>4
    <3>2. /\ DOMAIN (<<j>> \o rest) = 1 .. 1 + Len(rest) /\ (<<j>> \o rest)[1] = j
          /\ \A m \in 2 .. Len(rest) + 1 : (<<j>> \o rest)[m] = rest[m - 1]
      BY <1>6
    <3>3. ASSUME NEW m \in DOMAIN todo'
          PROVE  todo'[m].min <= IF busy = "load" THEN 0 ELSE 17
      <4>1. m \in 1 .. 1 + Len(rest)
        BY <2>3, <3>1, <3>2
      <4>2. CASE m = 1
        BY <2>3, <3>1, <3>2, <4>2
      <4>3. CASE m # 1
        <5>1. m - 1 \in 1 .. Len(rest) /\ m \in 2 .. Len(rest) + 1
          BY <1>6, <4>1, <4>3
        <5> QED BY <2>1, <2>3, <3>1, <3>2, <5>1
      <4> QED BY <4>2, <4>3
    <3> QED BY <1>0, <3>3 DEF Small
  <2> QED BY <1>3, <1>5, <2>2, <2>3
<1>13. Room'
  <2>1. Len(todo') \in Nat /\ Len(todo') <= Len(todo) /\ (todo' # <<>> => 1 <= Len(todo'))
    <3>1. Len(<<Pointer("CallList")>> \o rest) = Len(todo)
      BY <1>4, <1>6
    <3>2. Len(rest) <= Len(todo)
      BY <1>6
    <3>3. Len(todo') = Len(todo) \/ Len(todo') = Len(rest)
      BY <1>3, <1>5, <3>1
    <3>4. Len(todo') \in Nat /\ (todo' # <<>> => 1 <= Len(todo'))
      BY <1>0
    <3> QED BY <1>6, <3>2, <3>3, <3>4
  <2>2. Later' = Later /\ Later \in Nat /\ Here \in Nat
    BY <1>0, Counts DEF Later
  <2>3. Here' \in Nat /\ Here' <= Here
    <3>1. CASE busy \in {"none", "load"}
      BY <1>0, <3>1 DEF Here
    <3>2. CASE busy \notin {"none", "load"}
      <4>1. Here = Len(todo)
        BY <1>0, <3>2 DEF Here
      <4>2. CASE todo' = <<>>
        <5>1. Here' = 0
          BY <4>2 DEF Here
        <5> QED BY <1>6, <4>1, <5>1
      <4>3. CASE todo' # <<>>
        <5>1. Here' = Len(todo') \/ Here' = Len(todo') - 1
          BY <1>0, <3>2, <4>3 DEF Here
        <5> QED BY <1>6, <2>1, <4>1, <4>3, <5>1
      <4> QED BY <4>2, <4>3
    <3> QED BY <3>1, <3>2
  <2>4. Here' + Later' <= Here + Later
    <3>1. ASSUME NEW h1 \in Nat, NEW h \in Nat, NEW l \in Nat, h1 <= h
          PROVE  h1 + l <= h + l
      BY <3>1
    <3> QED BY <2>2, <2>3, <3>1
  <2> QED BY <1>0, <2>4, RoomStays DEF IInv, Booting
<1> QED BY <1>10, <1>11, <1>12, <1>13 DEF Booting

\* A handler starts, each of the counted ones once.
LEMMA StartBoots ==
    ASSUME IInv, Flags, Sized', Booting, PluginLoad \/ AppExeLoaded \/ Branch \/ Tick
    PROVE  Booting'
<1>0. /\ todo = <<>> /\ busy = "none" /\ UNCHANGED <<absent, textVars, caveInstSize>>
      /\ UNCHANGED <<test, once, ticked>>
  BY DEF PluginLoad, AppExeLoaded, Branch, Tick, Hooked, Idle, hookVars
<1>1. \A plan : Gone(plan)' <=> Gone(plan)
  BY <1>0, SameTexts
<1>2. Here = 0
  BY <1>0 DEF Here
<1>3. CASE PluginLoad
  <2>1. busy' = "load" /\ todo' = LoadPlan /\ UNCHANGED <<root_domain, app_exe, loads>>
    BY <1>3 DEF PluginLoad, Start
  <2>2. Working' /\ Behind' /\ Loaded'
    BY <1>0, <1>1, <2>1 DEF Booting, Working, Behind, Loaded
  <2>3. Small'
    BY <2>1, PlanSizes DEF Small
  <2>4. Here' + Later' <= Here + Later
    <3>1. Here' = 0 /\ Later' = Later /\ Later \in Nat
      BY <1>0, <2>1 DEF Here, Later
    <3> QED BY <1>2, <3>1
  <2> QED BY <1>0, <2>2, <2>3, <2>4, RoomStays DEF IInv, Booting
<1>4. CASE AppExeLoaded
  <2>1. busy' = "post" /\ todo' = RunPost /\ ~test /\ UNCHANGED <<root_domain, app_exe, loads>>
    BY <1>4 DEF AppExeLoaded, Start
  <2>2. Working' /\ Behind' /\ Loaded'
    BY <1>0, <1>1, <2>1, CoveredAtStart DEF Booting, Working, Behind, Loaded
  <2>3. Small' /\ Len(todo') = 9 /\ todo' # <<>>
    <3>1. Len(RunPost) = 9 /\ \A k \in 1 .. 9 : RunPost[k].min <= 17
      BY PlanSizes DEF PlanOf
    <3>2. DOMAIN RunPost = 1 .. 9 /\ RunPost # <<>>
      <4>1. PICK n \in Nat : n = 9
        OBVIOUS
      <4>2. PlanOf(RunPost, n)
        BY <4>1, PlanSizes
      <4>3. DOMAIN RunPost = 1 .. n /\ (n # 0 => RunPost # <<>>)
        BY <4>2, PlanOfDomain
      <4> QED BY <4>1, <4>3
    <3>3. Small'
      BY <2>1, <3>1, <3>2 DEF Small
    <3> QED BY <2>1, <3>1, <3>2, <3>3
  <2>4. Here' + Later' <= Here + Later
    <3>1. Here' <= 9 /\ Here' \in Nat
      BY <2>1, <2>3 DEF Here
    <3>2. Later' \in Nat /\ Later = 9 + Later'
      BY <1>0, <2>1 DEF Later
    <3>3. ASSUME NEW h1 \in Nat, NEW l1 \in Nat, h1 <= 9
          PROVE  h1 + l1 <= 0 + (9 + l1)
      BY <3>3
    <3> QED BY <1>2, <3>1, <3>2, <3>3
  <2> QED BY <1>0, <2>2, <2>3, <2>4, RoomStays DEF IInv, Booting
<1>5. CASE Branch
  <2>1. /\ busy' = "branch" /\ todo' = BranchPlan /\ ~app_exe /\ app_exe' = TRUE
        /\ root_domain /\ test /\ ~once /\ root_domain' = root_domain /\ Counted
    BY <1>5 DEF Branch, Start
  <2>2. Working'
    BY <2>1, CoveredAtStart DEF Working
  <2>3. Behind'
    <3>1. ticked' /\ loads' = 2 => loads = 2
      BY <1>0, <2>1 DEF Counted
    <3> QED BY <1>0, <1>1, <3>1 DEF Booting, Behind
  <2>4. Loaded'
    <3>1. loads = 2 => FALSE
      BY <1>0, <2>1 DEF Booting, Loaded
    <3>2. loads' = 2 => ~ticked
      BY <2>1, <3>1 DEF Counted
    <3> QED BY <1>0, <2>1, <3>2 DEF Loaded
  <2>5. Small' /\ Len(todo') = 14 /\ todo' # <<>>
    <3>1. Len(BranchPlan) = 14 /\ \A k \in 1 .. 14 : BranchPlan[k].min <= 17
      BY PlanSizes DEF PlanOf
    <3>2. DOMAIN BranchPlan = 1 .. 14 /\ BranchPlan # <<>>
      <4>1. PICK n \in Nat : n = 14
        OBVIOUS
      <4>2. PlanOf(BranchPlan, n)
        BY <4>1, PlanSizes
      <4>3. DOMAIN BranchPlan = 1 .. n /\ (n # 0 => BranchPlan # <<>>)
        BY <4>2, PlanOfDomain
      <4> QED BY <4>1, <4>3
    <3>3. Small'
      BY <2>1, <3>1, <3>2 DEF Small
    <3> QED BY <2>1, <3>1, <3>2, <3>3
  <2>6. Here' + Later' <= Here + Later
    <3>1. Here' <= 14 /\ Here' \in Nat
      BY <2>1, <2>5 DEF Here
    <3>2. Later' \in Nat /\ Later = 14 + Later'
      BY <1>0, <2>1 DEF Later
    <3>3. ASSUME NEW h1 \in Nat, NEW l1 \in Nat, h1 <= 14
          PROVE  h1 + l1 <= 0 + (14 + l1)
      BY <3>3
    <3> QED BY <1>2, <3>1, <3>2, <3>3
  <2> QED BY <1>0, <2>2, <2>3, <2>4, <2>5, <2>6, RoomStays DEF IInv, Booting
<1>6. CASE Tick
  <2>1. /\ busy' = "tick" /\ ~ticked /\ app_exe' = root_domain
        /\ todo' = (IF root_domain THEN PrintTimeTick ELSE <<>>)
        /\ UNCHANGED <<root_domain, loads>>
    BY <1>6 DEF Tick, Start
  <2>2. loads = 2 => root_domain
    BY DEF Booting, Loaded
  <2>3. Working'
    BY <2>1, <2>2, CoveredAtStart DEF Working
  <2>4. Behind' /\ Loaded'
    BY <1>0, <1>1, <2>1 DEF Booting, Behind, Loaded
  <2>5. Small' /\ Len(todo') \in 0 .. 2 /\ (todo' # <<>> => 1 <= Len(todo'))
    <3>1. /\ PrintTimeTick \in Seq(Items) /\ Len(PrintTimeTick) = 2
          /\ \A k \in 1 .. 2 : PrintTimeTick[k].min <= 17
      BY PlanSizes DEF PlanOf
    <3>2. CASE root_domain
      BY <2>1, <3>1, <3>2 DEF Small
    <3>3. CASE ~root_domain
      BY <2>1, <3>3 DEF Small
    <3> QED BY <3>2, <3>3
  <2>6. Here' + Later' <= Here + Later
    <3>1. Here' <= 2 /\ Here' \in Nat
      <4>1. CASE todo' = <<>>
        BY <4>1 DEF Here
      <4>2. CASE todo' # <<>>
        <5>1. Here' = Len(todo') \/ Here' = Len(todo') - 1
          BY <2>1, <4>2 DEF Here
        <5>2. PICK n \in 0 .. 2 : n = Len(todo') /\ 1 <= n
          BY <2>5, <4>2
        <5>3. Here' = n \/ Here' = n - 1
          BY <5>1, <5>2
        <5> QED BY <5>2, <5>3
      <4> QED BY <4>1, <4>2
    <3>2. app_exe => app_exe'
      BY <2>1 DEF IInv, Untouched
    <3>3. Later' \in Nat /\ Later \in Nat /\ 2 + Later' <= Later
      BY <1>0, <2>1, <3>2 DEF Later
    <3>4. ASSUME NEW h1 \in Nat, NEW l1 \in Nat, NEW l \in Nat, h1 <= 2, 2 + l1 <= l
          PROVE  h1 + l1 <= 0 + l
      BY <3>4
    <3> QED BY <1>2, <3>1, <3>3, <3>4
  <2> QED BY <1>0, <2>3, <2>4, <2>5, <2>6, RoomStays DEF IInv, Booting
<1> QED BY <1>3, <1>4, <1>5, <1>6

\* A handler is through with its whole plan.
LEMMA EndBoots ==
    ASSUME IInv, Flags, Sized', Booting, HandlerEnd
    PROVE  Booting'
<1>0. /\ todo = <<>> /\ todo' = <<>> /\ busy # "none" /\ busy' = "none"
      /\ test' = (test \/ busy = "post") /\ once' = (once \/ busy = "branch")
      /\ ticked' = (ticked \/ busy = "tick")
      /\ UNCHANGED <<absent, textVars, caveInstSize, root_domain, app_exe, loads>>
  BY DEF HandlerEnd, patchVars, hookVars
<1>1. \A plan : Gone(plan)' <=> Gone(plan)
  BY <1>0, SameTexts
<1>2. Working' /\ Small'
  BY <1>0 DEF Working, Small
<1>3. /\ busy = "post" => Gone(RunPost)
      /\ busy = "branch" => Gone(BranchPlan)
      /\ busy = "tick" /\ loads = 2 => Gone(PrintTimeTick)
  BY <1>0, CoveredAtEnd DEF Booting, Working
<1>4. Behind'
  BY <1>0, <1>1, <1>3 DEF Booting, Behind
<1>5. Loaded'
  BY <1>0 DEF Booting, Loaded
<1>6. Here' + Later' <= Here + Later
  <2>1. Here' = 0 /\ Here = 0
    BY <1>0 DEF Here
  <2>3. {test, once, ticked, app_exe} \subseteq BOOLEAN
    BY DEF Flags
  <2>4. /\ test' \/ busy' = "post" <=> test \/ busy = "post"
        /\ ticked' \/ busy' = "tick" <=> ticked \/ busy = "tick"
        /\ app_exe' <=> app_exe
    BY <1>0, <2>3
  <2>5. Later' = Later /\ Later \in Nat
    BY <2>4 DEF Later
  <2> QED BY <2>1, <2>5
<1>7. Room'
  BY <1>0, <1>6, RoomStays DEF IInv, Booting
<1> QED BY <1>2, <1>4, <1>5, <1>7 DEF Booting

\* A process that has just started has everything to come.
LEMMA FreshBoots ==
    ASSUME NewShellUI
    PROVE  Booting'
<1>0. /\ todo' = <<>> /\ caveInstSize' = 0 /\ busy' = "none" /\ test' = FALSE
      /\ root_domain' = FALSE /\ app_exe' = FALSE /\ once' = FALSE /\ ticked' = FALSE
      /\ loads' = 0
  BY DEF NewShellUI
<1>1. Working' /\ Behind' /\ Loaded' /\ Small'
  BY <1>0 DEF Working, Behind, Loaded, Small
<1>2. Here' = 0 /\ Later' = 25
  BY <1>0 DEF Here, Later
<1>3. Most' = Most /\ Most \in Nat
  BY CodePatchAssumption DEF Most, Jump, JmpStub
<1> HIDE DEF Most
<1>4. Most * 25 \in Nat /\ 0 + Most * (0 + 25) <= Most * 25
  BY <1>3
<1> QED BY <1>0, <1>1, <1>2, <1>3, <1>4 DEF Booting, Room

\* Every step keeps the invariant.
LEMMA BInvNext ==
    ASSUME Roomy, BInv, [Next]_vars
    PROVE  BInv'
<1>1. IInv' /\ Flags' /\ Sized'
  BY IInvNext, FlagsNext DEF BInv, IInv
<1>2. CASE PluginLoad \/ AppExeLoaded \/ Branch \/ Tick
  BY <1>1, <1>2, StartBoots DEF BInv
<1>3. CASE PatchStep
  BY <1>1, <1>3, PatchBoots DEF BInv, PatchStep
<1>4. CASE UploadBgftFixup
  BY <1>1, <1>4, BgftBoots DEF BInv
<1>5. CASE HandlerEnd
  BY <1>1, <1>5, EndBoots DEF BInv
<1>6. CASE Restart \/ Reboot
  BY <1>1, <1>6, FreshBoots DEF BInv, Restart, Reboot
<1>7. CASE RootDomainFound \/ BgftFixupThread \/ UNCHANGED vars
  <2>1. /\ UNCHANGED <<patchVars, busy, test, app_exe, once, ticked>>
        /\ \/ UNCHANGED <<root_domain, loads>>
           \/ RootDomainFound
    BY <1>7 DEF RootDomainFound, BgftFixupThread, FindProcess, GetCodeInfo, ScanChunk,
                ReadRefused, WriteCore, TouchMark, UiUnchanged, vars, bootVars
  <2>2. UNCHANGED <<absent, todo, textVars, caveInstSize, busy, test, app_exe, once, ticked>>
    BY <2>1 DEF patchVars, hookVars
  <2>3. (\A i : Achieved(i)' <=> Achieved(i)) /\ (\A plan : Gone(plan)' <=> Gone(plan))
    BY <2>2, SameTexts
  <2>4. \A plan : Covered(plan)' <=> Covered(plan)
    BY <2>2, <2>3 DEF Covered
  <2>5. Small' /\ Here' = Here /\ Later' = Later /\ Most' = Most
    BY <2>2 DEF BInv, Booting, Small, Here, Later, Now, Most, Jump, JmpStub
  <2>6. Room'
    BY <2>2, <2>5 DEF BInv, Booting, Room
  <2>7. Working' /\ Behind' /\ Loaded'
    <3>1. CASE UNCHANGED <<root_domain, loads>>
      BY <2>2, <2>3, <2>4, <3>1 DEF BInv, Booting, Working, Behind, Loaded
    <3>2. CASE RootDomainFound
      <4>1. busy = "none" /\ test /\ ~root_domain /\ root_domain' = TRUE /\ Counted
        BY <3>2 DEF RootDomainFound, Hooked, Idle
      <4>2. loads = 0 /\ loads' \in {0, 1}
        BY <4>1 DEF BInv, Booting, Loaded, Counted
      <4> QED BY <2>2, <2>3, <4>1, <4>2 DEF BInv, Booting, Working, Behind, Loaded
    <3> QED BY <2>1, <3>1, <3>2
  <2> QED BY <1>1, <2>5, <2>6, <2>7 DEF BInv, Booting
<1> QED BY <1>2, <1>3, <1>4, <1>5, <1>6, <1>7 DEF Next

\* At the start everything is still to come.
LEMMA BInvInit == Init => BInv
<1> SUFFICES ASSUME Init
             PROVE  BInv
  OBVIOUS
<1>1. IInv /\ Flags
  BY IInvInit, FlagsInit
<1>2. /\ todo = <<>> /\ caveInstSize = 0 /\ busy = "none" /\ test = FALSE
      /\ root_domain = FALSE /\ app_exe = FALSE /\ once = FALSE /\ ticked = FALSE
      /\ loads = 0
  BY DEF Init
<1>3. Working /\ Behind /\ Loaded /\ Small
  BY <1>2 DEF Working, Behind, Loaded, Small
<1>4. Here = 0 /\ Later = 25
  BY <1>2 DEF Here, Later
<1>5. Most \in Nat
  BY CodePatchAssumption DEF Most, Jump, JmpStub
<1> HIDE DEF Most
<1>6. Most * 25 \in Nat /\ 0 + Most * (0 + 25) <= Most * 25
  BY <1>5
<1> QED BY <1>1, <1>2, <1>3, <1>4, <1>6 DEF BInv, Booting, Room

\* On every firmware: if the pad has room for as many of the largest prologues as
\* there are items, and two modules were loaded between app.exe and the end of the
\* boot effect, then after it every function the firmware has is redirected, but
\* for those that need padding in a text that has none left; and the pad is not
\* overrun.  build.sh's pad of 4096 bytes is more than three times as large as
\* that, with 14 for the bytes an instruction may reach past what is asked for.
THEOREM BootLeavesNothing == Roomy => (Spec => []BootComplete)
<1> SUFFICES ASSUME Roomy
             PROVE  Spec => []BootComplete
  OBVIOUS
<1>1. Init => BInv
  BY BInvInit
<1>2. BInv /\ [Next]_vars => BInv'
  BY BInvNext
<1>3. BInv => BootComplete
  <2>1. SUFFICES ASSUME BInv, ticked, loads = 2
                 PROVE  /\ caveInstSize <= CaveSize
                        /\ Gone(RunPost) /\ Gone(BranchPlan) /\ Gone(PrintTimeTick)
    BY DEF BootComplete, Gone, Achieved
  <2>2. Gone(RunPost) /\ Gone(BranchPlan) /\ Gone(PrintTimeTick)
    BY <2>1 DEF BInv, Booting, Loaded, Behind
  <2>3. caveInstSize <= CaveSize
    <3>1. PICK n : n = Here + Later
      OBVIOUS
    <3>2. n \in Nat
      BY <2>1, <3>1, Counts DEF BInv, IInv, Sized
    <3>3. caveInstSize \in Nat /\ caveInstSize + Most * n <= Most * 25 /\ Most * 25 <= CaveSize
      BY <2>1, <3>1 DEF BInv, IInv, Sized, Booting, Room, Roomy
    <3>4. caveInstSize + Most * 0 <= Most * 25
      BY <3>2, <3>3, FewerFit
    <3>5. Most \in Nat
      BY CodePatchAssumption DEF Most, Jump, JmpStub
    <3> HIDE DEF Most
    <3>6. PICK big \in Nat : big = Most * 25
      <4>1. Most * 25 \in Nat
        BY <3>5
      <4> QED BY <4>1
    <3>7. Most * 0 = 0
      BY <3>5
    <3> QED BY <3>3, <3>4, <3>6, <3>7, CodePatchAssumption
  <2> QED BY <2>2, <2>3
<1> QED BY <1>1, <1>2, <1>3, PTL DEF Spec

=============================================================================
