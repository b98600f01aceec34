---------------------------- MODULE ShellUIBoot ----------------------------
(***************************************************************************)
(* How plugin_mono gets into ShellUI (plugin_mono/source/lib.cc and        *)
(* shellui_patch).  plugin_load redirects only the function with which the *)
(* Mono runtime loads modules; everything else is patched from that hook,  *)
(* by three of the module loads that follow, and from the end of the boot  *)
(* effect.  One thread of ShellUI runs those handlers.                     *)
(*                                                                         *)
(* A second thread (BgftFixupThread) scans SceShellCore, another process,  *)
(* and patches a check there.  A file in /user/temp says that it is done:  *)
(* ShellUI may be killed and started again while SceShellCore goes on.     *)
(***************************************************************************)
EXTENDS CodePatch

CONSTANTS
    Chunks,      \* 8 KiB chunks of SceShellCore's text, the last may be shorter
    Firmwares,   \* what a firmware may lack: a set of sets of functions
    MaxRestarts  \* bound: how often ShellUI or the console starts again

VARIABLES
    busy,         \* the handler that runs, or "none"
    test,         \* app.exe has been loaded and RunPost is through
    root_domain,  \* Root_Domain is set
    app_exe,      \* App_Exe is set
    once,         \* the package installer and branch patches are applied
    ticked,       \* the boot effect has ended, PrintTimeTick has run
    loads,        \* history: modules loaded after RunPost, before the tick
    core,         \* SceShellCore's check: "native" or "patched"
    place,        \* the chunk that holds its pattern, or Nowhere
    mark,         \* the file /user/temp/UploadBgftFixup exists
    refused,      \* history: a write to this SceShellCore has failed
    bgft,         \* where BgftFixupThread is, see BgftLabels
    chunk,        \* the chunk it reads next
    restarts      \* how often ShellUI or the console has started again

bootVars == <<busy, test, root_domain, app_exe, once, ticked, loads>>
coreVars == <<core, mark, refused>>
scanVars == <<bgft, chunk>>
vars == <<patchVars, bootVars, coreVars, place, scanVars, restarts>>

\* The firmware does not have the pattern, or it lies across two chunks.
Nowhere == -1

\* The functions plugin_mono redirects or overwrites in ShellUI.
Redirected ==
    {"LoadModule", "EventProxy", "RegStr", "SystemName", "Icons",
     "RemotePlay", "CallList", "FinishBoot", "HwSerial", "DebugMenu",
     "SearchDir", "NewElement", "OnPress", "OnPreCreate", "OnPageActivating",
     "OnCheckVisible", "StartSettingsPage", "SetImage", "GetString",
     "OfflinePanel", "InitProperty", "OnConfirm", "OnPageDeactivating",
     "LaunchPlugin", "ResourceStream", "MainThread"}

\* plugin_load looks for the 5 byte jump that it overwrites before it redirects
\* LoadModule, so it leaves a redirected one alone.  A text of less than a chunk
\* would make the scan's bound wrap around.
ASSUME BootAssumption ==
    /\ Redirected \subseteq Functions /\ "Bgft" \notin Functions
    /\ "LoadModule" \in Scanned
    /\ Chunks \in Nat \ {0, 1} /\ MaxRestarts \in Nat
    /\ Firmwares \subseteq SUBSET Functions

-----------------------------------------------------------------------------
(* The plans.                                                              *)

\* UploadMonoCall, only if the function still starts with its 5 byte jump.
LoadPlan == <<Import("LoadModule")>>

\* What RunPost calls, each with what it redirects or overwrites.
UploadRegStrCall == <<Call("RegStr"), Over("SystemName"), Over("Icons")>>
UploadRemotePlayPatch == <<Over("RemotePlay")>>
UploadFinishBootEffectCode == <<Long("FinishBoot", 15)>>
UploadDebugSettingsPatch == <<Over("DebugMenu")>>

RunPost ==
    <<Call("EventProxy")>> \o UploadRegStrCall \o UploadRemotePlayPatch
        \o <<Item("Bgft", 0, <<"bgft">>)>> \o UploadFinishBootEffectCode
        \o <<Over("HwSerial")>> \o UploadDebugSettingsPatch

\* What the module load that finds App_Exe calls.
UploadNewPkgInstallerPath == <<Long("SearchDir", 15), Near("NewElement")>>
UploadOnBranch ==
    <<Long("OnPress", 15), Long("OnPreCreate", 15), Long("OnPageActivating", 15),
      Near("OnCheckVisible"), Near("StartSettingsPage"), Near("SetImage"), Near("GetString"),
      Over("OfflinePanel"), Over("InitProperty"),
      Long("OnConfirm", 15), Over("OnPageDeactivating"), Over("LaunchPlugin")>>

BranchPlan == UploadNewPkgInstallerPath \o UploadOnBranch

\* What the end of the boot effect calls.
UploadResourceStreamBranch == <<Long("ResourceStream", 17)>>
MainThreadCheck == <<Over("MainThread")>>

PrintTimeTick == UploadResourceStreamBranch \o MainThreadCheck

\* Hooks that end in a call of X_Original.
CallsOriginal ==
    {"LoadModule", "CallList", "FinishBoot", "ResourceStream", "SearchDir", "NewElement",
     "OnPress", "OnPreCreate", "OnPageActivating", "OnCheckVisible", "StartSettingsPage",
     "SetImage", "GetString", "OnConfirm"}

\* Hooks that look classes up in app.exe before anything else.
UsesAppExe ==
    {"NewElement", "OnPress", "OnPreCreate", "OnPageActivating", "OnCheckVisible", "OnConfirm",
     "OnPageDeactivating", "StartSettingsPage", "LaunchPlugin"}

-----------------------------------------------------------------------------
(* The handlers of ShellUI.                                                *)

Idle == busy = "none" /\ todo = <<>>

Start(handler, plan) == busy' = handler /\ todo' = plan

\* plugin_load, by the payload, or again by ReloadExtraPlugins.
PluginLoad ==
    /\ Idle
    /\ Start("load", LoadPlan)
    /\ UNCHANGED <<absent, textVars, hookVars, test, root_domain, app_exe, once, ticked, loads,
                   coreVars, place, scanVars, restarts>>

\* The hook of the module loader is called for a module that has been loaded;
\* a load that is none of the following changes nothing.
Hooked == Idle /\ Enter("LoadModule") = "hook"

\* app.exe, for the first time: RunPost.
AppExeLoaded ==
    /\ Hooked /\ ~test
    /\ Start("post", RunPost)
    /\ UNCHANGED <<absent, textVars, hookVars, test, root_domain, app_exe, once, ticked, loads,
                   coreVars, place, scanVars, restarts>>

Counted == loads' = IF ticked \/ loads = 2 THEN loads ELSE loads + 1

\* The next module: only Root_Domain is set.
RootDomainFound ==
    /\ Hooked /\ test /\ ~root_domain
    /\ root_domain' = TRUE
    /\ Counted
    /\ UNCHANGED <<patchVars, busy, test, app_exe, once, ticked, coreVars, place, scanVars,
                   restarts>>

\* Mutant: App_Exe is not looked at.
BranchAgain ==
    /\ Hooked /\ test /\ root_domain
    /\ app_exe' = TRUE
    /\ Start("branch", BranchPlan)
    /\ Counted
    /\ UNCHANGED <<absent, textVars, hookVars, test, root_domain, once, ticked, coreVars, place,
                   scanVars, restarts>>

\* The one after it, unless App_Exe is set already.
Branch ==
    /\ Hooked /\ test /\ root_domain /\ ~once /\ ~app_exe
    /\ app_exe' = TRUE
    /\ Start("branch", BranchPlan)
    /\ Counted
    /\ UNCHANGED <<absent, textVars, hookVars, test, root_domain, once, ticked, coreVars, place,
                   scanVars, restarts>>

\* The boot effect ends: PrintTimeTick.  Without Root_Domain no image opens,
\* and there is nothing to patch.
Tick ==
    /\ Idle /\ Enter("FinishBoot") = "hook" /\ ~ticked
    /\ app_exe' = root_domain
    /\ Start("tick", IF root_domain THEN PrintTimeTick ELSE <<>>)
    /\ UNCHANGED <<absent, textVars, hookVars, test, root_domain, once, ticked, loads, coreVars,
                   place, scanVars, restarts>>

\* A step of the running handler's plan.
PatchStep ==
    /\ Patch
    /\ UNCHANGED <<bootVars, coreVars, place, scanVars, restarts>>

\* UploadBgftFixup returns at the mark; without it BgftFixupThread is started and
\* this process's own call list patched.
UploadBgftFixup ==
    /\ At("bgft")
    /\ IF mark THEN Drop /\ UNCHANGED bgft
               ELSE bgft' = "find" /\ todo' = <<Pointer("CallList")>> \o Tail(todo)
    /\ UNCHANGED <<absent, textVars, hookVars, bootVars, coreVars, place, chunk, restarts>>

\* The handler is through.
HandlerEnd ==
    /\ busy # "none" /\ todo = <<>>
    /\ busy' = "none"
    /\ test' = (test \/ busy = "post")
    /\ once' = (once \/ busy = "branch")
    /\ ticked' = (ticked \/ busy = "tick")
    /\ UNCHANGED <<patchVars, root_domain, app_exe, loads, coreVars, place, scanVars, restarts>>

-----------------------------------------------------------------------------
(* BgftFixupThread.                                                        *)

UiUnchanged == UNCHANGED <<patchVars, bootVars, place, restarts>>

\* findProcess asks again until SceShellCore is in the list of processes;
\* without memory it answers -1, a process get_code_info does not know.
FindProcess ==
    /\ bgft = "find"
    /\ bgft' \in {"info", "end"}
    /\ UNCHANGED <<coreVars, chunk>> /\ UiUnchanged

\* get_code_info asks twice for the process's memory and takes the first entry
\* that is executable code; each call may fail, and there may be none.
GetCodeInfo ==
    /\ bgft = "info"
    /\ bgft' \in {"scan", "end"}
    /\ UNCHANGED <<coreVars, chunk>> /\ UiUnchanged

\* Mutant: the loop goes on behind the text.
ScanChunkOver ==
    /\ bgft = "scan"
    /\ IF chunk >= Chunks THEN bgft' = "end" /\ UNCHANGED chunk
       ELSE IF place = chunk /\ core = "native" THEN bgft' = "write" /\ UNCHANGED chunk
       ELSE chunk' = chunk + 1 /\ UNCHANGED bgft
    /\ UNCHANGED coreVars /\ UiUnchanged

\* Mutant: the loop ends a chunk early.
ScanChunkShort ==
    /\ bgft = "scan"
    /\ IF chunk >= Chunks - 2 THEN bgft' = "end" /\ UNCHANGED chunk
       ELSE IF place = chunk /\ core = "native" THEN bgft' = "write" /\ UNCHANGED chunk
       ELSE chunk' = chunk + 1 /\ UNCHANGED bgft
    /\ UNCHANGED coreVars /\ UiUnchanged

\* pid_chunk_scan reads a chunk; its loop ends before the last one.
ScanChunk ==
    /\ bgft = "scan"
    /\ IF chunk >= Chunks - 1 THEN bgft' = "end" /\ UNCHANGED chunk
       ELSE IF place = chunk /\ core = "native" THEN bgft' = "write" /\ UNCHANGED chunk
       ELSE chunk' = chunk + 1 /\ UNCHANGED bgft
    /\ UNCHANGED coreVars /\ UiUnchanged

\* A read that fails is not noticed: the buffer keeps the chunk before, and the
\* pattern is passed over.
ReadRefused ==
    /\ bgft = "scan" /\ chunk < Chunks - 1
    /\ chunk' = chunk + 1
    /\ UNCHANGED <<coreVars, bgft>> /\ UiUnchanged

\* Mutant: the mark is set before the check is patched.
WriteCoreMarked ==
    /\ bgft = "write"
    /\ mark' = TRUE /\ bgft' = "touch"
    /\ UNCHANGED <<core, refused, chunk>> /\ UiUnchanged

\* sys_proc_rw writes the check's new result or fails; nobody looks which.
WriteCore ==
    /\ bgft = "write"
    /\ \/ core' = "patched" /\ UNCHANGED refused
       \/ refused' = TRUE /\ UNCHANGED core
    /\ bgft' = "touch"
    /\ UNCHANGED <<mark, chunk>> /\ UiUnchanged

\* touch_temp, in either case; it may fail, too.
TouchMark ==
    /\ bgft = "touch"
    /\ mark' \in {mark, TRUE} /\ bgft' = "end"
    /\ UNCHANGED <<core, refused, chunk>> /\ UiUnchanged

BgftFixupThread ==
    FindProcess \/ GetCodeInfo \/ ScanChunk \/ ReadRefused \/ WriteCore \/ TouchMark

-----------------------------------------------------------------------------
(* ShellUI is killed, from the HEN settings or otherwise, or the console   *)
(* is switched off.                                                        *)

NewShellUI ==
    /\ restarts < MaxRestarts
    /\ restarts' = restarts + 1
    /\ todo' = <<>> /\ caveInstSize' = 0
    /\ code' = Fresh.code /\ via' = Fresh.via /\ pad' = Fresh.pad
    /\ saved' = Fresh.saved /\ original' = Fresh.original
    /\ busy' = "none" /\ test' = FALSE /\ root_domain' = FALSE /\ app_exe' = FALSE
    /\ once' = FALSE /\ ticked' = FALSE /\ loads' = 0
    /\ bgft' = "none" /\ chunk' = 0
    /\ UNCHANGED <<absent, place>>

Restart == NewShellUI /\ UNCHANGED coreVars

\* /user/temp is emptied when the console starts.
Reboot == NewShellUI /\ core' = "native" /\ mark' = FALSE /\ refused' = FALSE

-----------------------------------------------------------------------------
Init ==
    /\ absent \in Firmwares
    /\ todo = <<>> /\ caveInstSize = 0
    /\ code = Fresh.code /\ via = Fresh.via /\ pad = Fresh.pad
    /\ saved = Fresh.saved /\ original = Fresh.original
    /\ busy = "none" /\ test = FALSE /\ root_domain = FALSE /\ app_exe = FALSE
    /\ once = FALSE /\ ticked = FALSE /\ loads = 0
    /\ core = "native" /\ mark = FALSE /\ refused = FALSE /\ place \in Nowhere .. Chunks - 1
    /\ bgft = "none" /\ chunk = 0 /\ restarts = 0

Next ==
    \/ PluginLoad \/ AppExeLoaded \/ RootDomainFound \/ Branch \/ Tick
    \/ PatchStep \/ UploadBgftFixup \/ HandlerEnd
    \/ BgftFixupThread
    \/ Restart \/ Reboot

Spec == Init /\ [][Next]_vars

\* Threads are scheduled; nobody has to load a module.
FairSpec == Spec /\ WF_vars(BgftFixupThread)

-----------------------------------------------------------------------------
(* Properties.                                                             *)

Steps == {"find", "bgft", "save", "original", "pad", "tear", "jump", "padtear", "padjump"}

BgftLabels == {"none", "find", "info", "scan", "write", "touch", "end"}

Items == [f : Functions \cup {"Bgft"}, min : Nat, text : {"none"} \cup Texts, steps : Seq(Steps)]

\* Every variable has its type, and the pad is overrun by 8 bytes at most: those
\* CreatePrologueHook counts without having asked for them.
TypeOK ==
    /\ absent \subseteq Functions
    /\ todo \in Seq(Items)
    /\ code \in [Functions -> {"native", "torn", "hooked"}]
    /\ via \in [Functions -> Pads \cup {NoPad}]
    /\ pad \in [Pads -> {"free", "torn"} \cup Functions]
    /\ saved \in [Functions -> {"none", "native", "torn", "hooked"}]
    /\ original \in [Functions -> {"null", "cave", "native", "hook"}]
    /\ caveInstSize \in 0 .. CaveSize + (Jump - JmpStub)
    /\ busy \in {"none", "load", "post", "branch", "tick"}
    /\ {test, root_domain, app_exe, once, ticked, mark, refused} \subseteq BOOLEAN
    /\ loads \in 0 .. 2 /\ restarts \in 0 .. MaxRestarts
    /\ core \in {"native", "patched"} /\ place \in Nowhere .. Chunks - 1
    /\ bgft \in BgftLabels /\ chunk \in 0 .. Chunks - 1

\* The function that is being redirected at this moment.
Underway(g) == todo # <<>> /\ f = g /\ ~At("find")

\* Whatever has been installed, in whatever order the loads and the tick came,
\* every other function leads to its own firmware code or to its own hook, never
\* to another function's padding or into half a jump; and a hook that calls
\* X_Original gets to the firmware's code, not to a hook again.  A function
\* patched a second time breaks that: its copied prologue would be the jump.
Reaches ==
    \A g \in Functions :
        ~Underway(g) =>
            /\ Enter(g) # "wild"
            /\ Enter(g) = "hook" /\ g \in CallsOriginal => OriginalIsNative(g)

\* From the moment a hook can be entered, also while its installation goes on,
\* X_Original and App_Exe are there if it uses them: the order of the writes in
\* CreatePrologueHook's callers, and of App_Exe before UploadOnBranch.
OriginalReady ==
    \A g \in Functions :
        Enter(g) = "hook" =>
            /\ g \in CallsOriginal => original[g] # "null"
            /\ g \in UsesAppExe => app_exe

\* No padding is left in a text.
Exhausted(text) == \A n \in 1 .. PadCount : pad[<<text, n>>] # "free"

\* If two modules were loaded between app.exe and the end of the boot effect,
\* then after it nothing this firmware has is left unpatched: a pad of build.sh's
\* size had room for every hook and was not overrun, no step of one handler was
\* skipped, and only those that need padding where none is left kept the
\* firmware's code.
BootComplete ==
    ticked /\ loads = 2 =>
        /\ caveInstSize <= CaveSize
        /\ \A plan \in {RunPost, BranchPlan, PrintTimeTick} : \A i \in DOMAIN plan :
              \/ plan[i].f \in absent \cup {"Bgft"}
              \/ Enter(plan[i].f) = "hook"
              \/ plan[i].text # "none" /\ Exhausted(plan[i].text)

\* The file in /user/temp says of an unpatched SceShellCore that it is patched,
\* so that UploadBgftFixup skips the patch until the console starts again, for
\* one reason only: the write, whose result BgftFixupThread ignores, has failed.
\* Wherever ShellUI or the console stopped, and however often, it never does so
\* because the file was made and the patch was not.
MarkSound == mark => core = "patched" \/ refused

\* A scan that was started finds the check in any chunk but the last and patches
\* it, unless its process ends or the access to SceShellCore's memory fails: the scan
\* then passes the chunk, or the write is refused.
CoreGetsPatched ==
    bgft = "scan" /\ core = "native" /\ place \in 0 .. Chunks - 2
        ~> core = "patched" \/ bgft = "none" \/ chunk > place \/ refused

\* Packages install from the hard disk (.github/README.md, plugin_mono): once
\* app.exe's patches are in place, its call to register a download is redirected
\* if the firmware has it.
HardDiskInstall ==
    test /\ "CallList" \notin absent => Enter("CallList") = "hook"
=============================================================================
