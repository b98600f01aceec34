---------------------------- MODULE PluginConfig ----------------------------
(***************************************************************************)
(* /data/hen/plugins.ini and the processes that share it:                  *)
(*                                                                         *)
(*   - ShellUI's plugin manager page (plugin_mono, settings_menu.c): every *)
(*     toggle is read when it is created and written when it is pressed,   *)
(*     each time by loading the whole file, changing it in memory and      *)
(*     saving it over itself (fopen "w", then the text, byte by byte);     *)
(*   - plugin_loader in every app that starts: it reads the file and its   *)
(*     own title (the app_info file that plugin_shellcore wrote when the   *)
(*     app was launched), then walks the sections and starts the plugins   *)
(*     that are on;                                                        *)
(*   - the console's owner, who edits the file by hand, and power loss.    *)
(*                                                                         *)
(* ShellUI's handlers run one at a time on its main thread, and one app    *)
(* ("BigApp") runs at a time.                                              *)
(***************************************************************************)
EXTENDS Ini

CONSTANTS
    Texts,        \* what a name, a value or a comment of the file may be
    Plugins,      \* the plugins installed in /data/hen/plugins, by path
    Builtin,      \* those of them that the page disables
    Titles,       \* the titles of the apps
    HandWritten,  \* the files the owner may put there, each a sequence of lines
    Mixed,        \* what may be read of a file while it is replaced
    Faults,       \* the faults that may happen: "open", "save", "full", "power", "edit"
    MaxFaults     \* bound: how many of them in a behaviour

ASSUME TextsAssumption == {"", "0", "1", "all"} \cup Plugins \subseteq Texts

\* The owner's files name no section and no key twice: between duplicates the
\* winner changes with every save (see the README).
ASSUME HandWrittenAssumption ==
    \A f \in HandWritten : f \in Seq(LinesOver(Texts)) /\ NoDuplicates(Load(f))

\* Texts are written in one letter case, which startsWithCase ignores.
ASSUME BeginsAssumption ==
    /\ Begins \subseteq Texts \X Texts
    /\ \A t \in Texts : <<t, t>> \in Begins /\ <<"", t>> \in Begins
    /\ \A s, t, u \in Texts : <<s, t>> \in Begins /\ <<t, u>> \in Begins => <<s, u>> \in Begins

ASSUME BuiltinAssumption == Builtin \subseteq Plugins

VARIABLES
    file,      \* the lines of plugins.ini; a missing file is an empty one
    store,     \* history: the entries stored; a save counts from its fopen on
    g_PageID,  \* the settings page ShellUI shows, as the hooks know it
    value,     \* per plugin: the value its toggle shows, or "absent" or "new"
    ui,        \* the handler ShellUI is in: [at, ini, unread]
    faults,    \* how many faults have happened
    app        \* the app: [at, title, known, same, sections, started, seen, whole]

uiVars  == <<g_PageID, value, ui>>
disk    == <<file, store, faults>>
vars    == <<disk, uiVars, app>>

Manager == "id_plugin_manager"
All     == "all"

On(v) == \E w \in {"1", "enabled", "yes", "y", "on", "true"} : <<w, v>> \in Begins

Fault(f) ==
    /\ f \in Faults /\ faults < MaxFaults
    /\ faults' = faults + 1

-----------------------------------------------------------------------------
(* ShellUI                                                                 *)

NoHandler == [at |-> "idle", ini |-> Empty, unread |-> FALSE]
NoItems   == [p \in Plugins |-> "absent"]

PageActivating ==
    /\ ui.at = "idle" /\ g_PageID # Manager
    /\ g_PageID' = Manager
    /\ value' = [p \in Plugins |-> "new"]
    /\ UNCHANGED <<disk, ui, app>>

PageDeactivating ==
    /\ ui.at = "idle" /\ g_PageID = Manager
    /\ g_PageID' = "none"
    /\ value' = NoItems
    /\ UNCHANGED <<disk, ui, app>>

\* An empty value leaves a toggle as it was made, off.
Shown(v) == IF v = "" THEN "0" ELSE v

\* A toggle is created: it shows what the file says of it ...
PreCreate(p) ==
    LET ini == Load(file)
    IN  /\ ui.at = "idle" /\ g_PageID = Manager /\ value[p] = "new"
        /\ Has(ini, All, p)
        /\ value' = [value EXCEPT ![p] = Shown(Get(ini, All, p))]
        /\ UNCHANGED <<disk, g_PageID, ui, app>>

\* ini_load makes an empty structure when the file cannot be opened.
Loaded(unread) == IF unread THEN Empty ELSE Load(file)

Opens(unread) == IF unread THEN Fault("open") ELSE UNCHANGED faults

\* ... and what the file does not name is stored as off.
PreCreateAbsent(p) ==
    /\ ui.at = "idle" /\ g_PageID = Manager /\ value[p] = "new"
    /\ \E unread \in BOOLEAN :
          /\ Opens(unread)
          /\ ~Has(Loaded(unread), All, p)
          /\ value' = [value EXCEPT ![p] = "0"]
          /\ ui' = [at |-> "open", ini |-> Set(Loaded(unread), All, p, "0"), unread |-> unread]
    /\ UNCHANGED <<file, store, g_PageID, app>>

\* A toggle is pressed: ShellUI has flipped its value, the hook stores it.
Press(p) ==
    /\ ui.at = "idle" /\ g_PageID = Manager /\ value[p] \notin {"absent", "new"}
    /\ p \notin Builtin
    /\ \E v \in {"0", "1"} \ {value[p]}, unread \in BOOLEAN :
          /\ Opens(unread)
          /\ value' = [value EXCEPT ![p] = v]
          /\ ui' = [at |-> "open", ini |-> Set(Loaded(unread), All, p, v), unread |-> unread]
    /\ UNCHANGED <<file, store, g_PageID, app>>

\* The file is emptied or replaced while a loader, at the start of an app, may
\* have read some of its lines.
Overtaken ==
    \/ UNCHANGED app
    \/ /\ app.at = "read" /\ file # <<>>
       /\ app' = [app EXCEPT !.same = FALSE]

\* ini_save: fopen "w" empties the file ...
OpenToSave ==
    /\ ui.at = "open"
    /\ file' = <<>>
    /\ store' = Lookups(ui.ini)
    /\ ui' = [ui EXCEPT !.at = "write", !.unread = FALSE]
    /\ Overtaken
    /\ UNCHANGED <<faults, g_PageID, value>>

\* ... or fails, which ReadWriteLocalSettings does not look at.
SaveFails ==
    /\ Fault("save")
    /\ ui.at = "open"
    /\ ui' = NoHandler
    /\ UNCHANGED <<file, store, g_PageID, value, app>>

\* The text reaches the file as the buffer fills, cut at any byte, and the rest
\* of it with fclose.
Write ==
    LET text == Text(ui.ini)
    IN  /\ ui.at = "write"
        /\ UNCHANGED <<store, faults, g_PageID, value, app>>
        /\ \E n \in Len(file) .. Len(text) : \E tail \in Tails(text, n) :
              /\ file' = SubSeq(text, 1, n) \o tail
              /\ ui' = IF n = Len(text) THEN NoHandler ELSE ui

\* The disk is full: the results of fprintf and fclose are not looked at either.
WriteFails ==
    /\ Fault("full")
    /\ ui.at = "write"
    /\ store' = Lookups(Load(file))
    /\ ui' = NoHandler
    /\ UNCHANGED <<file, g_PageID, value, app>>

-----------------------------------------------------------------------------
(* The loader in an app                                                    *)

NoApp == [at |-> "off", title |-> "", known |-> FALSE, same |-> TRUE,
          sections |-> <<>>, started |-> {}, seen |-> {}, whole |-> TRUE]

\* Mutant: the launch does not record which title it is.
LaunchNameless(t) ==
    /\ app.at = "off"
    /\ \E known \in BOOLEAN : app' = [NoApp EXCEPT !.at = "read", !.known = known]
    /\ UNCHANGED <<disk, uiVars>>

\* The app is launched; its app_info file names its title if SceShellCore's
\* hook has ever written it (its pattern may not be found).
Launch(t) ==
    /\ app.at = "off"
    /\ \E known \in BOOLEAN :
          app' = [NoApp EXCEPT !.at = "read", !.title = t, !.known = known]
    /\ UNCHANGED <<disk, uiVars>>

SwitchedOn == {q \in DOMAIN store : On(store[q].value)}

\* Mutant: every plugin listed counts as on.
KeysListed(section) ==
    [name |-> section.name, on |-> [i \in DOMAIN section.keys |-> section.keys[i].key]]

\* Mutant: the walk stops before the last key of a section.
KeysButLast(section) ==
    LET keys == section.keys
        on   == {i \in DOMAIN keys : On(keys[i].value) /\ i < Len(keys)}
    IN  [name |-> section.name, on |-> [i \in on |-> keys[i].key]]

\* What the loader looks at in a section: its name and its keys that are on, by
\* their positions.
KeysOn(section) ==
    LET keys == section.keys
        on   == {i \in DOMAIN keys : On(keys[i].value)}
    IN  [name |-> section.name, on |-> [i \in on |-> keys[i].key]]

Sections(ini) == [i \in DOMAIN ini.sections |-> KeysOn(ini.sections[i])]

\* The lines the loader's fgets loop has met when it is at the end of the file.
\* A save adds to the file and changes nothing of what is there, so a read that
\* was not overtaken has met the file as it is at that moment; another has met
\* the first bytes of the old text and the last ones of the new.
LinesMet == IF app.same THEN {file} ELSE Mixed

ReadConfig ==
    /\ app.at = "read"
    /\ UNCHANGED <<disk, uiVars>>
    /\ \E lines \in LinesMet :
          app' = [app EXCEPT !.at = "walk", !.sections = Sections(Load(lines)),
                             !.seen = IF app.same THEN SwitchedOn ELSE {}, !.whole = app.same /\ ui.at # "write"]

\* The file cannot be opened, no structure allocated, or the app_info file has
\* a process id below 0: nothing is started.
ConfigUnreadable ==
    /\ Fault("open")
    /\ app.at = "read"
    /\ app' = [app EXCEPT !.at = "walk", !.whole = FALSE]
    /\ UNCHANGED <<file, store, uiVars>>

\* Without an app_info file the title stays empty: a prefix of every section's name.
Applies(n, title, known) == <<All, n>> \in Begins \/ ~known \/ <<title, n>> \in Begins

Section == Head(app.sections)

\* A section that does not apply is not passed over: the loop stays on it.
Stuck ==
    /\ app.at = "walk" /\ app.sections # <<>>
    /\ ~Applies(Section.name, app.title, app.known)

Spin == Stuck /\ UNCHANGED vars

\* Mutant: the loop starts over instead of going to the next section.
RunSectionAgain ==
    /\ app.at = "walk" /\ app.sections # <<>> /\ ~Stuck
    /\ app' = [app EXCEPT !.started = @ \cup ToSet(Section.on)]
    /\ UNCHANGED <<disk, uiVars>>

\* The plugins of a section that applies are started in turn ...
RunSection ==
    /\ app.at = "walk" /\ app.sections # <<>> /\ ~Stuck
    /\ app' = [app EXCEPT !.sections = Tail(@), !.started = @ \cup ToSet(Section.on)]
    /\ UNCHANGED <<disk, uiVars>>

\* ... unless the plugin_load of one does not return (plugin_server's).
StayInPlugin ==
    /\ app.at = "walk" /\ app.sections # <<>> /\ ~Stuck
    /\ \E n \in DOMAIN Section.on :
          LET before == {i \in DOMAIN Section.on : i <= n}
          IN  app' = [app EXCEPT !.at = "inside", !.sections = <<>>,
                                 !.started = @ \cup {Section.on[i] : i \in before}]
    /\ UNCHANGED <<disk, uiVars>>

LoaderReturn ==
    /\ app.at = "walk" /\ app.sections = <<>>
    /\ app' = [app EXCEPT !.at = "done"]
    /\ UNCHANGED <<disk, uiVars>>

Quit ==
    /\ app.at # "off"
    /\ app' = NoApp
    /\ UNCHANGED <<disk, uiVars>>

-----------------------------------------------------------------------------
(* The owner and the power                                                 *)

\* The owner replaces the file, but not while ShellUI is inside a handler.
Edit ==
    /\ Fault("edit")
    /\ ui.at = "idle"
    /\ \E f \in HandWritten : file' = f /\ store' = Lookups(Load(f))
    /\ Overtaken
    /\ UNCHANGED uiVars

\* A save that was over is on the disk.
PowerLoss ==
    /\ Fault("power")
    /\ g_PageID' = "none" /\ value' = NoItems /\ ui' = NoHandler
    /\ app' = NoApp
    /\ store' = Lookups(Load(file))
    /\ UNCHANGED file

-----------------------------------------------------------------------------
Init ==
    /\ file \in HandWritten
    /\ store = Lookups(Load(file))
    /\ faults = 0
    /\ g_PageID = "none" /\ value = NoItems /\ ui = NoHandler
    /\ app = NoApp

Loader == ReadConfig \/ ConfigUnreadable \/ RunSection \/ StayInPlugin \/ LoaderReturn

Next ==
    \/ PageActivating \/ PageDeactivating
    \/ \E p \in Plugins : PreCreate(p) \/ PreCreateAbsent(p) \/ Press(p)
    \/ OpenToSave \/ SaveFails \/ Write \/ WriteFails
    \/ \E t \in Titles : Launch(t)
    \/ ReadConfig \/ ConfigUnreadable \/ Spin \/ RunSection \/ StayInPlugin \/ LoaderReturn \/ Quit
    \/ Edit \/ PowerLoss

Spec == Init /\ [][Next]_vars

\* A thread that can run goes on running; users need not act.
FairSpec == Spec /\ WF_vars(Loader)

-----------------------------------------------------------------------------
(* Properties                                                              *)

\* The types; what is read and what is being saved are structures that name
\* nothing twice, also when the file was cut off in the middle of a save.
TypeOK ==
    /\ \A ini \in {Load(file), ui.ini} : ini \in Structures(Texts) /\ NoDuplicates(ini)
    /\ g_PageID \in {"none", Manager}
    /\ DOMAIN value = Plugins
    /\ ui.at \in {"idle", "open", "write"}
    /\ app.at \in {"off", "read", "walk", "inside", "done"}
    /\ app.at # "off" => app.title \in Titles

\* Outside a save the file says what is stored: whatever order its sections,
\* keys and comments end up in, through any number of loads and saves, every
\* entry is read back with its value and its comments (ini_load of ini_save).
FileSaysStore == ui.at # "write" => Lookups(Load(file)) = store

\* While a save goes on the file holds a part of what is being stored: whatever
\* a power loss or a full disk leaves of the text, an entry is read back with
\* its value and comments or not at all, and only one with its value or comment
\* cut short, no entry under another section or with another's comments.
FileHoldsPart == Remains(Lookups(Load(file)), store)

Edits == {Lookups(Load(f)) : f \in HandWritten}

\* The refinement mapping: the entries stored; FileSaysStore ties them to the text.
StoreOfEntries == INSTANCE PluginSettings
                    WITH entries <- store, unread <- ui.unread, failures <- faults

\* plugins.ini, a text that is loaded, changed and written over itself, behaves
\* as a store of entries: opening the page adds entries that are off, a press
\* changes its own plugin's entry and nothing else, a power loss or a full disk
\* loses entries and alters none but by cutting one short, and only a save whose
\* own load could not open the file wipes the others (ini.c and
\* ReadWriteLocalSettings together).
KeepsEntries == StoreOfEntries!Spec

\* While nothing fails and nobody else edits the file, every toggle shows what
\* the file says of its plugin, after any number of pages opened and closed and
\* presses, other plugins' in between: none is lost, none shows another value.
ShowsWhatIsStored ==
    (faults = 0 /\ ui.at = "idle") =>
        \A p \in Plugins : value[p] \notin {"absent", "new"} =>
            /\ <<All, p>> \in DOMAIN store
            /\ value[p] = Shown(store[<<All, p>>].value)

OnFor(a) == {q[2] : q \in {r \in a.seen : Applies(r[1], a.title, a.known)}}

\* A plugin that is started was switched on, for all apps or for this one, in
\* what was stored when the loader had read the file, also when this was being
\* written or had been cut off - unless the file was emptied under the read.
OnlySwitchedOn == app.same => app.started \subseteq OnFor(app)

\* A loader that returns has started every plugin that was on, unless it read
\* the file while it was being rewritten or could not read it.
StartsAllThatAreOn ==
    (app.at = "done" /\ app.whole) => OnFor(app) \subseteq app.started

\* The loader, which runs before the app does, returns - unless it meets a
\* section of another title or a plugin_load that does not return.
LoaderReturns ==
    app.at = "read" ~> (app.at \in {"done", "off", "inside"} \/ Stuck)

\* README: the file "Supports `all` for all apps or by individual TitleID", and
\* plugins are loaded on an app's launch: the loader gets through every file
\* whose plugins return.
LoaderGetsThrough == app.at = "read" ~> app.at \in {"done", "off", "inside"}
=============================================================================
