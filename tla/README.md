# A verification project for ps4-hen-plugins

These modules model the parts of ps4-hen-plugins in which something can go wrong
that a test would hardly reach: threads that share a descriptor table without a
lock, dialogues with a client that may disappear at any point, files that are
rewritten in place while somebody else reads them, and code that is patched while
it runs. The models are written from the C sources; the modules' comments name the
functions, and `PROJECT.json` has the lines behind every definition.

    tlc -workers 2 -config FtpClients.cfg MCFtpServer     one of the runs
    tlapm FtpServerProofs.tla                             one of the proof modules

## 1. The system

| Part | State it keeps | Operations | Talks to |
| --- | --- | --- | --- |
| FTP server (`plugin_server/source/ftp`) | per client an `ftp_env_t` (three descriptors, the PORT address, cwd, REST offset, RNFR path); one listening socket; the process's descriptor table | an acceptor thread; one thread per client; 24 commands | clients over two connections each; the file system |
| Kernel log server (`klog.c`) | a listening socket, a descriptor set and a counter of connections, `/dev/klog` while anybody is connected | one thread: wait, serve, disconnect, retry | clients on port 3232; shares the process, and SIGPIPE, with the FTP server |
| plugin_server entry (`lib.c`) | none | starts both; the FTP server only where the process can be jailbroken | both |
| Plugin loader (`plugin_loader`) | none, it reads files | on an app's start: read the title and `plugins.ini`, start what is on | ini files; plugin_shellcore's app_info; every plugin |
| INI files (`common/ini.c`) | a list of sections of a list of keys | load, save, get, set, delete, comments | the loader and the settings page |
| ShellUI settings page (`settings_menu.c`) | the page that is shown, the toggles' values | page and toggle hooks: read or rewrite an ini file | `plugins.ini`, ShellUI |
| plugin_shellcore | none | hooks app launch, writes app_info | the loader |
| ShellUI boot hooks (`plugin_mono/source/lib.cc`) | `Root_Domain`, `App_Exe`, four "once" flags | on plugin load, on each module load, at the end of the boot effect: patch ShellUI | code patching; every ShellUI patch |
| Code patching (`common/memory.c`) | a pad of copied prologues and how far it is used; the text it changes | prologue hook, short and long jump, call list, pattern scan | the process it is in, and SceShellCore |
| Other ShellUI patches (`debug_settings.c`, `devkit_info.c`, `remoteplay.c`) | a mark in `/user/temp`, `X_Original` pointers | find a function, redirect it | code patching; SceShellCore |
| ShellUI helpers, Mono bridge, common helpers, bootloader, example, decoder, build | nothing that outlives a call but cached pointers | wrappers | |

What is hard in each, and what makes it correct:

* **FTP server.** *Hard*: every thread opens and closes numbers of one table; a
  number that is kept after its close denotes whatever was opened next, by whatever
  thread; each transfer has some twenty ways out. *Correct*: no way out loses a
  descriptor; a thread closes what is its own; a client gets one answer per command;
  a client that goes away leaves nothing behind; a file holds what was uploaded, at
  the offset that was asked for, and loses nothing when a transfer breaks.
* **Kernel log server.** *Hard*: connections come and break in the middle of a
  character; a counter is kept beside a set; an error in one place disconnects
  everybody, or forgets them. *Correct*: the counter is right when it decides whether to
  go on; each client sees an unbroken part of the log; the server comes back.
* **Plugin settings.** *Hard*: every toggle rewrites the whole file in place, the text
  may stop at any byte, an app may start in the middle of that, and each load reverses
  the lists a save writes. *Correct*: the file is a store of independent entries, and a
  loader starts what is on and nothing else.
* **ShellUI.** *Hard*: the order of module loads and of the end of the boot effect is
  ShellUI's; ShellUI may be killed at any write while SceShellCore goes on.
  *Correct*: no function leads astray, no hook lacks what it calls, nothing the
  firmware has is left out, and the mark of a patched SceShellCore is true unless the
  patch itself was refused.

`PROJECT.json` lists forty hazards, each at its line with the properties that would
catch it going wrong.

## 2. The modules

### FtpServer, FtpProtocol

`FtpServer` is the acceptor, the client threads and the descriptor table `fdt`.
Descriptors are plain integers and the lowest free number is handed out next, so a
stale number denotes a later object exactly as in the program. `active_fd`,
`passive_fd`, `data_fd`, `sin_port` are the fields of `ftp_env_t`; `pc[s]` names the
next system call of a session's thread, and every call that reads or changes the
table is an action. `local_fd` is the handler's `fd` or `DIR*`, `rc` the result of
`ftp_perror` it keeps across its cleanup. LIST, RETR and STOR share their actions
where their code has the same calls in the same order, and have their own where it
differs (LIST opens its directory first and says 150 after the data connection; STOR
seeks and truncates; LIST leaks its directory when the data connection fails). SIMPLE
stands for the commands that only answer. The entries of the table are tagged with a
kind and an owner: history, which only properties read.

`FtpProtocol` is what a client may expect of its session: a greeting, then for each
command at most one preliminary reply and exactly one final one before the next
command is read. `FtpServer` implements it under the mapping `phase`, which is the
property `LockStep`.

### FtpFiles

The same handlers seen from the file system: names, files that live on while they are
open, REST's offset in the session, the blocks of a transfer, STOR's last `ftruncate`,
APPE's `stat` before its open, RNFR and RNTO. `recv`'s error is modelled by what the
code makes of it, a length of SIZE_MAX that `write` refuses (assumed of the kernel, as
POSIX allows). Descriptors and replies are left to `FtpServer`; a lost control
connection is a `Reconnect` after the handler. `disturbed` is history: another session
changed the file, or gave its name to another one, while the transfer ran. The
properties speak of undisturbed transfers, because the server promises nothing else.

### FtpPaths, FtpDirectory, FileTree

`FtpPaths` has the commands that take a path, and what the code keeps between them:
`cwd` and `rename_path`, texts that are never resolved. A text is the sequence of what
stands between its slashes, so that `ftp_abspath` is a concatenation, CDUP's cut at the
last slash drops the last member and "/" is `<<"">>`. `FileTree` is the console's file
system: what `stat`, `mkdir`, `remove`, `rename` and `readdir` make of a text, which
they walk component by component through directories that must exist. Each command is
one call and one action, but for RNTO, which stats before it renames, and LIST, which
opens a directory by one text (`Opened`) and stats each entry by another (`Listed`)
while other sessions go on.

`FtpDirectory` is the promise: a session has a working *directory*, every argument means
a node relative to it, and CDUP goes to the parent. `ActsWhereMeant` is the refinement,
with `Normal(cwd[s])` for the directory. It holds with one exception, which the
abstract specification states as `odd`: a client that has sent `.`, `..` or a trailing
slash since its last plain absolute CWD may find itself elsewhere after CDUP.
`FtpFiles` and `FtpPaths` divide STOR: the one has what is written, the other where.

### Ini, Remnants, PluginConfig, PluginSettings

`Ini` is `ini.c` as operators on sequences: `Load`, a line at a time as `ini_load` reads
(`ReadLine`), with its push at the head and its comments that wait in `pending_comments`
for the next key, `Text` for `ini_save`, `Get` and `Set`. What a name, a value or a
comment may be is the constant `Texts`; it has the texts the program itself writes
(`TextsAssumption`). Texts are atoms, and the constant `Begins` says which of them begins
which (`<<u, t>>`: *t* starts with *u*). The C library writes bytes, so a text may stop
inside a line: `Torn` says as what the parser reads a line of which only the first bytes
are there (a key before its `=` is skipped, behind it the value or the comment is short),
and `Tails` what may stand behind *n* whole lines.

`PluginConfig` is who uses them.

* The settings page: `PageActivating`, `PreCreate`, `PreCreateAbsent`, `Press`, then
  `OpenToSave`, which empties the file, and `Write`, which leaves it cut at any byte any
  number of times. `ini_load` makes an *empty* structure when its `fopen` fails
  (`Loaded`, `ui.unread`), and the save that follows has nothing else in it. The `fopen`
  of the save may fail (`SaveFails`) and so may a `fprintf` or the `fclose` (`WriteFails`,
  a full disk), which leaves the file as it is at that byte.
* The loader of an app: `Launch`, `ReadConfig` at the end of its `fgets` loop, one
  `RunSection` per section. A save only adds to the file once it has emptied it, so a
  loader whose file was not emptied or replaced meanwhile has met what is there when it
  reaches the end, whole or cut. If it was (`Overtaken`, `app.same`), it has met the
  first bytes of one text and the last of another, and may have read anything of the
  constant `Mixed`. `ConfigUnreadable` is a file that does not open, and the other early
  returns. A section applies, and a value is on, by its first characters (`Applies`,
  `On`), as `startsWith` has it.
* An owner who replaces the file, and power loss.

`PluginSettings` is the promise: a map from entries to values in which a press changes one
entry. A power loss or a full disk loses entries and cuts one at most short
(`Remains`, in `Remnants`, which both sides of the refinement share); a save whose own
load could not open the file leaves only the entry it was made for (`Forget`); nothing
else costs an entry. `KeepsEntries` is the refinement; its mapping is the history
variable `store`, which `FileSaysStore` ties to what the text is read as.
`FileHoldsPart` says what a reader finds while a save goes on, and what power loss leaves
of it. `ShowsWhatIsStored` is the page's side: while nothing fails, each toggle on
the screen shows what the file says (`Shown`: an empty value leaves a toggle off).

### KlogServer

`serve_file` and `serve_file_while_connected`, a step per call: `select`, then accept,
then one character read and written to the connections in `todo`. Connections are
written to in any order, which contains the code's ascending one. Clients come, stop
reading, go; the kernel logs; `FtpMain` is the other thread's
`signal(SIGPIPE, SIG_IGN)`, before which a write to a closed connection ends the
process (`BrokenPipe`).

`select` may fail in two places, and neither closes everything. Before a connection is
served (`WaitFails`) the listener is left behind: it keeps the port (`port` is `"deaf"`)
and the kernel goes on completing connections to it (`ConnectUnheard`), while every later
`bind` fails and costs one more descriptor. While connections are served (`SelectFails`)
the file and the listener are closed, but the connections, known to the local
`output_set` alone, are not: their clients are `"forgotten"`, their descriptors `leaked`.

### CodePatch, ShellUIBoot

`CodePatch` is `memory.c` as steps on a process's text: a function is `"native"`,
`"torn"` (the first of a jump's two writes is done) or `"hooked"`; `via` and `pad` are
the padding that `Make32to64Jmp` takes, `saved`, `original` and `caveInstSize` what
`CreatePrologueHook` copies and counts. A handler is a *plan*, a sequence of functions
with the steps left for each, so that every write of every installation is an action.
`Enter(g)` says what a thread that calls `g` meets.

`ShellUIBoot` has the plans, one per function of the source with the same name, and
what starts them: the hook of the module loader (`AppExeLoaded`, `RootDomainFound`,
`Branch`: its three cases) and the end of the boot effect (`Tick`). `BgftFixupThread`
looks for SceShellCore, asks for its module, scans and patches it
beside them. The result of `sys_proc_rw` is never looked at: a chunk that was not read is
passed over (`ReadRefused`), and the mark is touched whether the write succeeded or not
(`WriteCore`; the history `refused` remembers that one failed). What a firmware lacks is
any member of the constant `Firmwares`, a set of sets of functions. `Restart` kills ShellUI at any write;
`Reboot` also empties `/user/temp` and SceShellCore. Patches of the same kind that
cannot be told apart (the five icons, the two debug menu functions) are one item.

What the models assume of code that is not in the repository, and of the data:

* POSIX descriptors and files; a `write` of SIZE_MAX bytes fails;
* `plugins.ini`: what an `fclose` has finished is on the disk; once a write of a save has
  failed so do the rest of that save's; a file that was opened can be read; there is
  memory for the page's structures; names, values and comments hold no `=` and no comment
  sign, are in one letter case, and no section and no key of a section appears twice in
  what the owner writes (`HandWrittenAssumption`);
* ShellUI: one thread runs module loads and the boot effect, and a load does not run
  inside `mono_get_image`; an image opens once `Root_Domain` is set; module information
  is available; writes to ShellUI's own code do not fail (those to SceShellCore may);
  the payload loads plugin_mono into every new ShellUI; `/user/temp` is empty when the
  console starts.

## 3. The runs

| Run | Instance | States | What it shows |
| --- | --- | --- | --- |
| `ftp_clients` | 2 clients, 4 descriptors, PASV, PORT, LIST and STOR, 2 commands, failing bind, thread creation and exit | 2 770 000 | Threads interleave at every system call on a table that runs full: no error path loses a descriptor (`Accounted`), although sessions do close each other's |
| `ftp_one_client` | 1 client at a time, 8 descriptors, all commands, 5 of them | 140 000 | For one client stale numbers do no harm (`ClosesOwnData`, `Intact`), replies keep step (`LockStep`), a client that hangs up leaves nothing running (`TornDown`) |
| `ftp_foreign_close` | as `ftp_clients` | violation | Two clients: a session closes another's control connection |
| `ftp_files` | 2 sessions, 2 names, 3 files, 2 bytes, 4 commands, 1 failing recv per transfer, crashes | 814 000 | An undisturbed upload leaves what its client asked for, a broken one loses nothing, a download answered 226 was whole |
| `ftp_rest_ignored` | as `ftp_files` | violation | RETR ignores REST |
| `ftp_byte_lost` | as `ftp_files`, no REST | violation | An upload whose connection breaks is answered 226 and loses a received byte |
| `ftp_paths` | 2 sessions, 6 arguments (`a`, `b`, `..`, `a/`, `/`, `/a/../b`), 7 nodes, 2 file systems, 4 commands | 224 000 | Texts that are cut and joined and never resolved mean the directory the client is in (`ActsWhereMeant`), it stays one (`CwdStays`), LIST stats what it has opened (`ListExact`) |
| `klog` | 2 clients, 4 descriptors, 2 characters, 2 faults of 6 kinds | 109 000 | Counter, unbroken log, nobody cut off; delivery and recovery, with the connections and descriptors a failing `select` forgets told apart |
| `plugin_config` | 2 plugins, 1 title, one hand-written file, 1 fault of 5 kinds (a read or a save that does not open, a full disk, power loss, an edit) | 427 000 | The file is a store of entries through saves cut at any byte, starts in the middle of a save, edits and failures; loaders start what is on, unless the file is emptied under their read; the page shows what is stored |
| `plugin_loader_hang` | 1 plugin, no fault | violation | A section of another title stops the loader for ever |
| `shellui_boot` | the 26 functions plugin_mono redirects; absent are none, any one, any two of the five that want padding in app.exe, or all of `BranchPlan` or of `PrintTimeTick`; 4 places of padding, 3 chunks, 1 restart | 907 000 | Every order of loads and tick, a restart at every write: the four promises of section 1 |
| `hard_disk_install` | the same, nothing absent | violation | A restarted ShellUI does not redirect its own download call |

**Bounds.** Two clients are what a foreign close needs; its shortest trace has three
commands (`ftp_foreign_close` has five descriptors for it); four descriptors make
the table of `ftp_clients` run full as soon as both are connected, so that every call
that opens something is also seen to fail. One client
needs more commands (a stale number is made by one, used by the next, met at the end of
the session) and a larger table, which it fills by leaking with PORT. Three
files are one per name and one that is only open; two bytes make a file that can be
overwritten in part. Two characters and two clients let one be dropped between two
writes of the same character. In `ftp_paths` the tree has two levels and two names, enough
for a directory to be renamed into another, and for a file to have the name of a
directory that is gone; four commands let one session go somewhere and rename while
the other moves the ground. `klog`'s two faults let a client be forgotten and its
descriptor be missed later; one `select` that fails while nobody is served is enough for
the port to stay held until the descriptors are used up. In `plugin_config` a save stops
at every line and, inside one, at each cut the parser can tell apart; the values and the
note of the instance have one character or are only cut to nothing (`Words`, `Starts`),
and an overtaken read is one of two texts (`Mixtures`); the theorems have any texts,
beginnings and mixtures. In `shellui_boot` the pad and the jumps have
their real sizes (4096, 6 and 14 bytes) and every copied prologue its greatest (14 bytes
more than asked for); four places of padding are fewer than the five hooks in app.exe that want
one, so that the last goes without.

**Deadlock** is checked everywhere but in the `FtpFiles` and `FtpPaths` runs, where sessions
stop when the command budget is spent.

**Fairness.** Threads are scheduled, and nobody outside has to act. `FtpServer`: weak
fairness of a session's own steps once its client has hung up (an end of file then
waits in each of its connections, so `recv` returns) and of the acceptor's. `KlogServer`:
weak fairness of the thread. `PluginConfig`: of the loader.
`ShellUIBoot`: of BgftFixupThread. No client, owner, user or module load is fair.
Each leads-to property names the state in which the code does wait for somebody:
`TornDown` excepts `ftp_data_open`'s accept, which has no timeout; `Delivers` a client
that does not read, or that was forgotten; `Recovers` descriptors used up by forgotten
sockets; `CoreGetsPatched` the last chunk, and a read or a write of SceShellCore that fails; `LoaderReturns` the
loop of `plugin_loader_hang`. Liveness with two FTP clients is not checked, since a
session whose descriptor was closed by the other may wait for anything.

Every property of a passing run has a mutant in `PROJECT.json`: a form of one
definition as a plausible mistake would write it, kept beside the definition, which the
property refutes.

## 4. Findings

1. **A session closes another client's connections** (`ftp_foreign_close`,
   `cmd.c:183`, `ftp.c:256`). `ftp_data_close` and PASV's error paths leave the closed
   number in `data_fd` and `passive_fd`; the end of the session closes it again.
2. **REST has no effect on RETR** (`ftp_rest_ignored`, `cmd.c:623`), and its offset
   stays for the next STOR, which leaves a hole.
3. **A broken upload is "complete" and a byte short** (`ftp_byte_lost`, `cmd.c:780`):
   -1 in a `size_t`.
4. **A section of another title stops the loader** (`plugin_loader_hang`,
   `lib.cpp:105`), and the app that waits for it.
5. **Packages on the hard disk do not install after ShellUI restarts**
   (`hard_disk_install`, `debug_settings.c:116`): the mark for SceShellCore's patch
   also skips the one in ShellUI itself.

Seen while modelling, without a run: a PASV after a PORT stays in active mode, as
nothing clears `sin_port` (`cmd.c:306`); each failing `bind` of the FTP server leaks a
socket every three seconds (`ftp.c:364`); between duplicate keys of a hand-written
`plugins.ini` the winner changes with every save, as `find_key` takes the first of a
list that each load reverses (`HandWrittenAssumption` keeps such files out); with fewer
than two module loads between app.exe and the end of the boot effect the settings
hooks are never installed (`lib.cc:183`, hence the premise of `BootComplete`); the
chunked scan never reads the last chunk (`memory.c:424`, the premise of
`CoreGetsPatched`); the mark for SceShellCore is touched although the write to it failed,
and the patch then skipped until the console starts again (`debug_settings.c:105`,
`refused`); a `plugins.ini` that does not open when a toggle is made or pressed loses every
other entry with the save that follows (`ini.c:180`, `Forget`); an app that starts while the
file is rewritten may read keys of the new text under a header of the old one and start
a plugin that is off (`ini.c:207`, the premise of `OnlySwitchedOn`); a `select` that fails
leaves klog's connections open and unserved (`klog.c:81`), or its listener on the port
that the next attempts want (`klog.c:236`); CDUP after `CWD ..` in /a goes to /a, and after `CWD a/` it stays in
a (`cmd.c:316`, `odd`); LIST of an argument without a leading slash opens it relative to
the directory of the process and stats the entries relative to the session's
(`cmd.c:455`), and LIST leaves every entry out once a directory that cwd's text passes
through is gone, though `..` steps back from it (the premises of `ListExact`); XCUP does
CWD and not CDUP (`ftp.c:79`).

## 5. The proofs

For all values of the constants, that is for any number of clients, descriptors,
commands and faults, any files and any texts. The assumptions are those named in the
modules (`ASSUME XAssumption`); TLC evaluates each on every run of a module that extends
it.

| Theorem | Says | How |
| --- | --- | --- |
| `FtpServerProofs!TypeCorrect` | `Spec => []TypeOK` | inductive as it is; a step per action |
| `FtpServerProofs!NothingLost` | `Spec => []Accounted` | inductive with `TypeOK`. The strength is in `Holds`, which says where the owner of an open descriptor may be and which variable holds it. A close by another thread only frees an entry, so nothing has to be said about stale numbers, and the theorem is true of two clients although `ClosesOwnData` is not |
| `FtpServerProofs!Conversation` | `Spec => LockStep` | `ReplyInv` says which replies may have been sent at each place of a handler. With it a step changes one session's phase, by a move of `FtpProtocol` (`PhaseMove`), changes none, or ends the process |
| `FtpServerProofs!OneClient` | `Alone`: `Spec /\ []Listening => [](Intact /\ ClosesOwnData)` | `LoneInv`, see below |
| `FtpFilesProofs!TypeInvariant` | `Spec => []TypeOK` | inductive; a session has a file open exactly while its handler moves bytes |
| `FtpFilesProofs!UploadKeepsOldBytes`, `UploadComplete`, `DownloadComplete` | `OldBytesStay`, `UploadStored`, `DownloadWhole` | `IInv == TypeOK /\ \A s : Good(s)`, see below |
| `FtpFilesProofs!FilesNeverCutShort` | `Spec => NeverCutShort` | from `TypeOK`, a step per action: only `Truncate` gives a named file a shorter content |
| `FtpPathsProofs!TypeCorrect` | `Spec => []TypeOK` | inductive. That the file system stays a tree is the work: `RenamedTree` shows that a renamed subtree keeps its shape (`MovedNode`, `MovedParent`: lemmas on prefixes of sequences, name by name) and that the directory it is put in is not itself moved |
| `FtpPathsProofs!WorkingDirectoryStays` | `Spec => CwdStays` | a step each for the ways a cwd changes (`CwdMoves`): a text gets to a directory through directories (`WalkFront`), and gets to the same one with more of them (`WalkStays`) |
| `FtpPathsProofs!ListingIsExact` | `Spec => []ListExact` | `ListInv`: what is printed is the directory without what is still to do, and that directory can still be opened (`Place` has the two texts of LIST lead to one node) |
| `FtpPathsProofs!TextsStandForNodes` | `Spec => ActsWhereMeant` | the refinement of `FtpDirectory`, see below |
| `KlogServerProofs!TypeCorrect`, `CountIsRight` | `TypeOK`, `Counted`: the counter is right while connections are served; outside the loop none is, the file is closed, and only clients that wait, and those a failing `select` forgot, are connected | `IInv == TypeOK /\ Places /\ Queued /\ Count`. `Counted` alone is not inductive: `Places` says at which calls the socket and the file are open, `Queued` that a client waits once and is not served meanwhile, without which an accept might add one that is in the set, and `Count` that the counter is the set's cardinality, with which it cannot go below zero |
| `KlogServerProofs!NothingSkipped` | `Spec => []NoGaps` | inductive with `IInv`: a new connection starts empty, a character goes to the rest of `todo`, which is part of the set |
| `KlogServerProofs!NobodyCutOff` | `Spec => ClosesOnlyGone` | from `IInv`: the loop's ordinary end has a counter of 0, so an empty set; the one step that gives connections up without closing them is `SelectFails` |
| `IniProofs!GetAfterSet` | after `ini_set`, `ini_get` finds the new value and every other entry unchanged | `SetOnce` and what `find_section` and `find_key` return, for structures with duplicates too |
| `IniTextProofs!SavedIsRead` | `ini_load` of `ini_save`'s text is the structure's entries; of that text cut at any byte, some of them, one at most with its value or comment cut short | induction over the whole lines (`LinesAreRead`), then the torn one (`TornIs`), see below |
| `PluginConfigProofs!TextKept` | `Spec => [](FileSaysStore /\ FileHoldsPart)` | `FileInv`, see below |
| `PluginConfigProofs!StoreKept` | `Spec => KeepsEntries` | with `FileInv` and `HasRead`: what a handler is about to save is the file, or nothing if it did not open, with one entry set; so `OpenToSave` is a `Save` or a `Forget` of `PluginSettings` (by `GetAfterSet`), a full disk or a power loss is its `Lose` |
| `PluginConfigProofs!StartsWhatIsOn` | `Spec => [](OnlySwitchedOn /\ StartsAllThatAreOn)`, whatever `Mixed` is | `Walks`: what is on in the sections that are left was on in the store; `Covers`: what was on has been started or is in those sections. A value cut short that is still on was on before (`OnIsNotCut`, as `Begins` is transitive) |
| `PluginConfigProofs!TypeCorrect`, `PageShows` | `TypeOK`, `ShowsWhatIsStored` | `ShowsInv` compares a toggle with what is stored, or is about to be |
| `ShellUIBootProofs!MarkIsTrue` | `Spec => []MarkSound` | with `TouchesPatched`: the thread is only about to touch the mark when SceShellCore is patched or its patch was refused, which both survive a restart and not a reboot, as the mark does |
| `ShellUIBootProofs!PadOverrun` | `Spec => [](caveInstSize <= CaveSize + Jump - JmpStub)` | `CreatePrologueHook` asks for 6 bytes of a 14 byte jump, so whatever the pad's size and the hooks' it may overrun the pad, by 8 bytes at most |
| `ShellUIBootProofs!FunctionsReach`, `OriginalsReady`, `TypeInvariant` | `Reaches`, `OriginalReady`, `TypeOK` | `IInv`, see below |
| `ShellUIBootProofs!BootLeavesNothing` | `Roomy => (Spec => []BootComplete)` | `BInv`, see below |

**Transfers.** `Good` adds to the properties what holds before the last step. `Counts`:
the offset the client counts with is the session's, also inside APPE, whose `stat` and
`open` are two steps. `Sends`: the bytes sent are those in front of the position.
`Receives`: the file is the old one with what was received written over it from the
base, and the offset the handler will cut at is the position unless a `recv` failed.
`seen[s].disturbed` is what lets other sessions write, delete and rename meanwhile: a
lemma on each action shows that another session's transfer is either disturbed by it or
has its file as it was.

**One client.** `Intact` and `ClosesOwnData` are false for two clients
(`ftp_foreign_close`), and also for one if the acceptor's `accept` fails, as it then opens
another socket under a number that the session may still hold: TLC finds this as soon as
the fault is allowed, hence the hypothesis `[]Listening`, which `ftp_one_client` has in
its faults. `LoneInv` then says that the acceptor keeps its socket while a client is
served (`Listens`), what an unbound socket is (`News`), that the fields are reset between
clients (`IdleFds`), what each place of a handler has open (`Opened`), and that the numbers
left behind denote neither the control connection nor a listener (`Stale`).

**Paths.** `Resolve`, the walk of a text from a node, is a recursive function; `ResolveIsWay`
takes it as a way, a function that is determined by its steps, and an induction over the
length (`ByLength`) gives its laws: one component more (`ResolveNext`), one text behind
another (`ResolveConcat`), more directories (`ResolveMore`). `WalkIsNormal` follows: the
kernel either fails or finds the node that is meant. That what the client means is
relative to a *node* while the server joins *texts* is `NormalConcat`, and that CDUP's cut
is the parent while the text is plain is `PlainFront`. For the clients whose text is not
plain the abstract CDUP goes to some node of the instance, which needs an invariant of its own:
every cut of a cwd means a node that has existed (`CwdNodes`), since CWD's `stat` went
through it. `NamesAssumption`, that a name is not empty, `.` or `..` and has no slash, is
what makes texts and nodes different things.

**plugins.ini.** `FileInv` is: outside a save the text is read as `store`; in a save the
file is the first *n* lines of `Text(ui.ini)` and a tail of `Tails` (`Written`), with
`store = Lookups(ui.ini)`. Its step is `SavedIsRead`, an induction over lines, keys and
sections. The library's induction theorems take an operator and cannot be used here, so
`UpTo` states induction for a *set* of numbers, proved from its least missing member
(`MinIsLeast`); recursive functions are shown to exist and to be determined with it
(`RunExists`, `RunsAgree`). The invariant of the reading is `PartOf(ini, i, j)`: after the
first *i* sections and *j* keys of the last the structure has just these, newest first,
and comments are left out of the comparison (`Bare`) until a key takes them. Every text of
whole lines stops at some *(i, j)* (`Within`), so it has some of the entries and, as each is
named once, each with its own value (`PartOnce`, `PartSays`); the whole text has them all
(`WholeSays`). A torn line behind them is a whole line, one that is skipped, a comment,
which belongs to no entry yet, or a key with a short value or comment (`TornKeyRead`),
which makes the structure one of *j + 1* keys but for that one (`LikeButOne`).

**Patched functions.** `Reaches` is about functions nobody is working on, `OriginalReady`
also about the one being redirected. `Settled` says what the first are: as the firmware
left them, or hooked with their original kept and their own padding. `Stage` gives the state
of the one at hand for each rest of its plan (`Via7` down to `Jump1`), `Queue` that the
functions of the items behind it are untouched and all different, and `Untouched` that a
handler's functions are as they were until it has run. The last is where "each handler runs
once" comes in, and the exception is `plugin_load`, which may run again: it only takes a
`LoadModule` that still starts with its five byte jump (`BootAssumption`: `LoadModule` is
found by a scan, which a redirected function no longer matches).

**The boot.** `BootComplete` counts, and needs three things beside `IInv`. `Working` and
`Behind`: every item of the running handler's plan is achieved or still in `todo`, and
every item of a handler that is through is achieved; an item leaves `todo` only achieved
(`PatchOutcome`), as a scan that finds nothing met an absent function or its own hook, and a
search for padding that finds none met a text without any; what is achieved stays so
(`AchievedStays`: the writes to come are for other functions, and padding is not given back).
`Loaded`: the two loads that count are Root_Domain's and the branch's, which is through when
the tick comes. `Room`: what has been taken of the pad and the most that the items to
come may take is at most 25 times `Most`, the largest item, which is why `CreatePrologueHook`
never turns one away. The hypothesis `Roomy == Most * 25 <= CaveSize` is about sizes only: 17
bytes asked for, at most 14 more for the last instruction (15 bytes is the longest there
is) and a jump of 14 make 1125 of the 4096 of `build.sh`, for 9 + 14 + 2 items. Whatever the
firmware lacks, any set of functions, and however little padding it has is covered.

**Only model-checked.** The leads-to properties (`TornDown`, `Delivers`, `Recovers`,
`LoaderReturns`, `CoreGetsPatched`): fairness and ENABLED are out of the prover's reach. The
runs that expect a violation show their property false and have no theorem.

## 6. What is not modelled

* The text of an FTP command line, the format of LIST's lines, paths longer than
  PATH_MAX, links; CHMOD, which changes a mode that nothing in the server reads, and MTRW,
  which does nothing on this console.
* `klog_to_disk_thread`, `ShellUIDebugFixupThread`, `findSymbolPtrInEboot`, `ini`'s
  deletion and comment editing: nothing calls them.
* The XML ShellUI is given, buttons, message texts, what an installed hook shows.
* Bytes of instructions and patterns; `CodePatch` has whether a scan finds its pattern
  and whether the patch destroys it.
* A thread that runs the very function which is being redirected: nothing in the code
  prevents it and `Reaches` leaves that function out.
* The Mono bridge, the loader of the loader, the example, logging, notifications, the
  vendored decoder, the build.

## 7. Plan

In the order of what it would add:

1. **Scans**: PatternScan and `pid_chunk_scan` as functions over short texts against a
   reference definition: a literal `ff` in a pattern is a wildcard (as in
   `remoteplay.c`), a match may run over the end of the text or across two chunks.
2. **FtpServer with FtpFiles**: whether an upload through a stale descriptor can reach
   another session's file.
3. **Proofs**: that a handler of `ShellUIBoot` redirects its items in the order of its
   plan, and from it, under `Roomy`, that only a restart of ShellUI can break
   `HardDiskInstall`.
