# A verification project for virtual-domain-manager

virtual-domain-manager (VDM) keeps several desktop workspaces, called
*domains*.  Opening a domain starts a sandbox with an overlay of the user's
home directory and resumes the applications of the domain; closing it undoes
both.  A daemon lends *capabilities* (libraries) to plugins and programs.  This
directory holds TLA+ models of that code, the TLC configurations that check them
on small instances, and TLAPS proofs.  Paths below are relative to `src/`.

## 1. Inventory

| component | code | state | operations |
|---|---|---|---|
| CoreManager | `core/pyvdm/manager.py`, called by `gui/pyvdm/tray.py` | the attribute `plugins` with its stat files; whatever each thread is in the middle of | open, save, close, switch; `load`, `executeBlade`; reopening at start |
| DomainManager | `core/pyvdm/DomainManager.py` | directories below `~/.vdm/domains`, overlays and links, `~/.vdm/.stat`, the sandbox process | initialize, finalize; create, update, fork, delete |
| StatFile, WorkSpace | `core/pyvdm/utils.py` | a stat file, a temporary file, the attribute `temp_file`; the working directory and `sys.path` of the process | getFile, putFile, getStat, putStat; entering and leaving a workspace |
| ApplicationManager | `core/pyvdm/ApplicationManager.py` | a registry of applications per process; desktop files in `~/.local/share`; of an open application its windows and its session | refresh, restore; onSave, onResume, onClose |
| PluginManager | `core/pyvdm/PluginManager.py` | directories of plugins, their built entries | install, uninstall, list, load, run |
| CapabilityManager | `core/pyvdm/CapabilityManager.py` | the daemon process | start, stop, restart; install, uninstall, enable, disable |
| control panel | `gui/pyvdm/ControlPanel.py` | tables, details, check boxes, dialogs, a refresh timer | select, edit, save, add, remove; toggle; start and stop the daemon |
| FFIManager | `daemon/serde-ipc/src/core/ffi.rs`, `service.rs` | `services`, `service_map`, `usage_map`, the thread pool; `.conf` files | register, unregister, execute; install, uninstall, report, switch |
| capability server | `daemon/serde-ipc/src/core/ipc.rs`, `protocol/shmem.rs` | the list of connections; per connection the records of registrations, the channel, two threads | accept, handshake; one handler per command; finalization |
| shared-memory transport | `shmem.rs`, `interface/CapabilityLibrary.py` | four names; a slot with its mark and semaphore in each direction | create, open, unlink; acquire, release |
| capability client | `interface/CapabilityLibrary.py` | the connection, `responses`, two queues, two processes | connect, disconnect, request, get_response, close |
| Commander | `daemon/serde-ipc/src/core/command.rs`, `jsonify_ipc.rs` | output files of services | build, output, enable, disable, remove |
| daemon library | `daemon/capability-daemon/src/lib.rs` | one FFIManager behind a lock | the facade used in-process |
| SyncManager, error codes | `SyncManager.py`, `errcode.py` | none | none |
| other widgets | `gui/pyvdm/TraversalWidget.py`, `TransitionSceneWidget.py` | Qt widgets | call the managers |

How they interact.  The tray calls CoreManager from three threads: the menu
and the autosave timer on the main thread, hot keys on their own thread, "Switch"
on a worker.  CoreManager calls DomainManager, which moves overlays, starts or
kills the sandbox and writes `.stat`; then it runs the callbacks of the plugins
in a thread pool, each with its StatFile.  Most of these plugins are the
*compatible* objects of ApplicationManager, made from a registry which every
process of VDM (the tray, each `pyvdm` command) fills on its own, while all
rewrite the same desktop files.  The control panel runs on the main thread of the
tray and works on domains, plugins and capabilities that the tray's other
threads and the command line change at the same time.  Programs reach the daemon by
TCP for the handshake and by shared memory afterwards; two threads of the daemon
serve each connection and share one FFIManager behind a mutex, and calls run in
its thread pool.  The daemon itself is a process that the panel and the command
line start and kill by its name.

What is hard, and what correct means there:

* CoreManager takes no lock: at most one sandbox may result, a session must
  never be replaced by an older one, an operation that reports success must have
  done its work, a failing one must be undone.
* DomainManager's opening and closing are sequences of file operations with a
  process in between: no file may be lost, the overlay must come home, the open
  domain must not be deleted under its mount.
* StatFile objects are shared by the saves of several threads; the working
  directory and `sys.path` are shared by the workspaces of all threads.
* Desktop files are read, emptied and rewritten by several processes that may end
  in between: no command may be wrapped twice, no entry lost.
* Resuming an application matches saved states with windows that come and go.
* Uninstalling a plugin goes by a file name pattern that matches others as well.
* The panel keeps names, configurations and check boxes from one event to a later one
  while others change what they stand for.
* Whoever starts the daemon has looked before whether it runs; two may have looked.
* FFIManager's three maps must agree, and a library must live exactly as long as
  it has usages.
* Connections come and go at any time; what they register must be given back,
  the answers must match the requests, a panic must not corrupt the tables; names of
  shared memory must not outlive their program, nor a call wait for ever.

`PROJECT.json` lists the hazards one by one, with their lines and the
properties that cover them, or why none does.

## 2. Modules

| module | models | composition |
|---|---|---|
| `OpenDomain` | what opening and closing promise to whoever reads `.stat` | abstract |
| `CoreManager` | `manager.py` as called from `tray.py` | implements `OpenDomain`; keeps `.stat`, sandbox and overlays as three sets, `DomainManager` has their details |
| `DomainManager` | `DomainManager.py` | implements `OpenDomain` |
| `StatFile` | `getFile`, `putFile` of `utils.py` | |
| `ApplicationManager` | the registry and the desktop files | |
| `AppSession` | the windows and the session of one application | EXTENDS `ApplicationManager`: the object is made from an entry of the registry, and runs the command found there |
| `PluginManager` | `PluginManager.py` with WorkSpace of `utils.py` | |
| `ControlPanel` | the domain tab, its details and the plugin tab | |
| `CapabilityManager` | `daemon()` and the capability tab | a part of `CapabilityClient` |
| `CapabilityClient` | `CapabilityLibrary.py`, its processes, the names of shared memory, and the daemon's side of them | EXTENDS `CapabilityManager`: the daemon process that the program meets is one of those started and killed there |
| `ServiceRegistry` | what the daemon promises: a reference-counted table of services | abstract |
| `FFIManager` | `ffi.rs`: the maps, the pool, the configurations | implements `ServiceRegistry` |
| `CapabilityServer` | `ipc.rs`, `shmem.rs` for clients that do speak | EXTENDS `FFIManager`: its handlers are conjunctions with FFIManager's actions |
| `*Proofs` | theorems, see section 4 | each EXTENDS its module |
| `MC*` | the instances for TLC | each EXTENDS its module |

### CoreManager

Each thread has a program counter, and its steps are the points other threads can
observe.  Callbacks run in parallel: `Task` performs the next callback of one
plugin, `TaskFails` is one that reports an error or raises.  `First` and
`Following` are the order of the callbacks in the workers of the three
operations.  The application behind a plugin shows a number; later numbers are
later work, and 0 is an application that has not been resumed.  `setting`, which
never changes, says what the domains enable, which threads are used, whether they wait for
each other (`patient`) and what may go wrong, so that one run has several kinds of users.

`load` instantiates one application after the other (`LoadPlugin`).  For one that has a plugin
of its own (`Supported`) it gets a code from `getInstalledPlugin` and returns that, an error or
`ALL_CLEAN` (`manager.py:89`): with the second the open goes on as if all were loaded, though
neither this application nor those after it are.  An application that no desktop file names
any more (`unknown`) makes `load` raise.  The exception aborts the open, which is undone and then returns the
`ALL_CLEAN` it began with, with a traceback; this result is `traceback`.

### DomainManager

Domains are paths.  An overlay directory has *layers*: its files, those in the
`.overlay` inside it, and so on, because `shutil.move` of a directory onto an
existing one puts it inside.  Opening is `InitializeDomain`, `PrepareLower` for one parent
after the other, `PrepareUpper`, `StartSandbox`, `PutStat`; closing is `FinalizeStat`,
`RestoreUpper`, `RestoreLower` for one parent after the other.  `Relink` and `MoveBack` are
what the loops do with one overlay; where a file operation raises (`Stuck`, `Blocked`,
`MoveBackRaises`) the operation ends there and leaves what was done.  The manager or the
machine may go down between any two of these steps (`Crash`, `Reboot`).  The offline operations are
one action each.  `Write` is a program in the sandbox.  Configurations are
present or absent; menus and time stamps are left out.  Assumed: programs enter
the sandbox by way of `.stat` (`vdm run`), a process id is not reused while
`.stat` names it, only one manager process works at a time, and the last component of a name
has no suffix (`Path.stem`, which names the directories in `/tmp`, drops one).

### OpenDomain

A name and the sandboxes that run: `Open` needs that none runs and makes both, `Close` takes both
away, and a restart of the machine takes the sandboxes.  In `CoreManager` the name is `stat` and
what runs is `sandboxes`.  In `DomainManager`, where the start of a sandbox and `putStat` are two steps,
a sandbox counts from the second on (`Named`); one whose manager was killed between
the two never does.  So the two modules, which have the same code in steps of different size,
agree on what others see of it.

### StatFile

Names and files are distinguished: `shutil.move` binds the stat file's name to
another file, `mkstemp` makes one, and a process writes to the file it opened
wherever it is moved.

### ApplicationManager and AppSession

A command is the number of times it is wrapped in `/bin/sh -c "... pyvdm run ..."`.
`RefreshApps` and `BeginRestore` take the list of all desktop files; `Register`
and `Restore` treat one application each, which opens and so empties its file,
and `Write` fills it.  `End` is a process that ends at any step, with its
registry.  An application new to a registry gets its own dict rewritten; an
unsupported one is skipped that time, but not in later refreshes (`Register`).

`AppSession` is one object of the tray.  `OnResume`, `Match`, `Create`, `Wait`,
`ResumeStats` and `PlaceWindows` are the steps of
`ProbedCompatibility.onResume` between which windows may `Appear` and the `User`
may work; `Zips` is `zip` over a set, any order of which is possible.  `Appear`
is bounded by the programs started.  DefaultCompatibility is there as it runs:
`onSave` raises before it writes anything (the key it passes to Fernet is none),
`onResume` reads a file it has closed, `onClose` kills by name.

### PluginManager

`Info` says of each package its plugin, version and place in the order of names,
whether the version begins as the code expects (`readable`), and which of the tests of
`test_config` it fails.  `uninstall` and `load` take the directories that match `n-*.*`
(`Glob`), among them those of plugins whose names go on after a dash (`Longer`), and look for
`n-` with a digit, a dot and a digit anywhere in the name of the directory (`HasVersion`).  That finds
nothing in a version like 10.2 (`PluginManager.py:292` then raises), and it finds something in a
longer name that ends with `n` again (`Ending`).  No code of `PluginCode` equals `True`, so
`ret!=True` (`PluginManager.py:202`, `:250`) always holds: `install`
never moves anything into place and `load` never loads.  Packages get into the
plugins directory by hand (`Place`).  An operation is `Enter`, `TestConfig` or
`RemoveNext`, and `Exit`, with the working directory and `sys.path` of the
process in `cwd` and `path`; `Enter` of a directory that is gone pops
`sys.path` and goes on, as WorkSpace does.  The workspace `.` nested in
`test_config` is part of that step.

### ControlPanel

Slots and the timer run one after another on the main thread, so each is one
action; a dialog waits in an event loop of its own, in which only the timer runs
(`asking`).  `Elsewhere` and `ElsewherePlugins` are the tray's other threads and the command
line.  A configuration is its name with the plugins it enables.  The panel
tests codes for `True` as well and so reports every outcome as an error
(`updateDomain`), after which a domain just created has no configuration to its details: `SaveNew`
and `SaveOld`.  A slot that raises changes nothing and is left out.

### CapabilityManager and CapabilityClient

`Look` is `daemon()` finding the first process with the daemon's name; `Start`, `Stop`,
`Restart` and `Raise` are what it does then, and a process binds the port or
ends because it is taken (`Bind`), at any later time.  `program` is the panel
with its capability tab, or a client program, beside the command line.  `actual` is what
the status command of a capability answers; `raw`, `box` and `shown` are the three
things the tab remembers of it.  `Click` and `Toggle` are the two ends of a slot that runs
the commands; `RefreshBoxes` is the timer.

`CapabilityClient` has one CapabilityLibrary object.  `ShmContext.__enter__` calls
`self.test_mark(x)`, a lambda of one parameter stored in the class, which
gets two arguments: it raises `TypeError` each time (`CapabilityLibrary.py:72`, `:84`).
So both processes of a connection end at the first semaphore they get, no request is ever sent,
and what is left to model - and to go wrong - is the handshake, the creation, opening and unlinking of four
global names by up to five parties, and the waiting.  The
daemon's threads (`Answer`, `Third`, `CreatesShm` ... `GivesBack`) are those of `ipc.rs`
and `shmem.rs` up to the first request; they go with their process (`Daemon`).  The two names of one direction are
unlinked in one step of `close()`, by the program for the names its object has got, by
the two processes for all four.  Three bounds keep the daemon's commands apart from the
client: a command looks and acts without a step of the client in between (neither
reads what the other writes meanwhile), commands that would find nothing to
do are left out, and a connection is begun when no daemon process is on its
way and no command is begun beside the last one.  A daemon is thus stopped or restarted at every step of the
first connection, and the second meets all that this has left.

### FFIManager and ServiceRegistry

A Rust map is a function into values or `None`.  The manager is used behind
one mutex, so `Register`, `Unregister` and `Execute` are one action each, with
all the helpers they call (`Loads` is `insert_service` with `insert_service_map`,
`Cleanup` is `cleanup`).  Signatures are drawn at random until one is free: any
free one is a possible outcome.  Loading may fail (`RegisterFails`).  The pool
runs its first `Workers` calls, which may end in any order (`Finish`).
Installing and uninstalling, as far as the tables can tell, replace or remove the
`.conf` (`SetConfig`), at any time, because the commands run outside the daemon's
mutex or in another process.

`ServiceRegistry` has holders and a loaded version per name.  `Holders` and
`Loaded` in `FFIManager` are the refinement mapping.

### CapabilityServer

The server for clients that follow the protocol, as others than the library above may.
The handshake is three actions (`Accept`, `ReadId`, `Connected`) with its
failures.  Each command of `_recv_loop` is one action with its lock, the call of
the manager, the record and the answer.  The finalization holds the mutex from
`Finalize` to `Finalized` and gives back one record per step (`ReleaseRecord`),
so that the rest of the daemon is interleaved with it wherever it does not need
the mutex.  `tx.send` fails once the send loop is gone (`Reply`); the send loop
ends when the last sender is dropped (`SenderExists`: the handshake, the receive
loop and every pending callback loop and every pending callback hold one).  `CHAIN_CALL` panics with the lock
held (`unimplemented!()`): `poisoned`.  The slots of shared memory are abstracted
to a channel: a request is taken whole, an answer is delivered whole.  But the send loop
first acquires the slot (`shmem.rs:260`), which it can only while it has got the semaphore and the client has
read the answer before: `send` is then `waits`, and only `AcquireWriteLock` ends that, a step
which nothing in the daemon can bring about.

## 3. Runs

Passing runs:

| run | question | bounds |
|---|---|---|
| `MCFFIManager` | do the maps agree, is no service idle, is the registry implemented? | two names, two versions, three service and two usage signatures, one worker, one job |
| `MCServer_safety` | do records and usages match, do answers match requests, does a panic freeze the tables? | two connections, one name whose service may be unloaded and loaded anew, two signatures and two usages, two requests each of `register`, `unregister`, `call`, `chain_call`; no second registration of a name |
| `MCServer_liveness` | is every stopped connection finalized, whatever its client does; and, if the client keeps reading, is every CALL answered and does the send thread end? | two connections, one request each of any kind; `FairServerSpec` |
| `MCDomain_tree` | does the open domain stay, does its sandbox match `.stat`, do overlays come home? | a domain, a nested one, a copy and a derived one; no faults; `/tmp` on another device |
| `MCDomain_faults` | is a file ever destroyed, does a second sandbox run, is `OpenDomain` implemented? | a domain and a nested one; failing starts, unknown names, manager or machine going down; two files each, `.overlay` buried once |
| `MCCore` | sessions, results, undoing and closing; one sandbox; is `OpenDomain` implemented? | two domains; either two applications, operations one after another, reported failures, crash of the tray and restart of the machine; or the same with an application that has a plugin of its own and applications that are not known any more, without crashes; or one application, hot key and worker at once, callbacks that raise |
| `MCStatFile_settle` | do two saves leave a complete session? | two threads, a plugin that may fail, six temporary files |
| `MCPanel` | does saving go where it belongs, is the open domain left alone, do the tables catch up? | two domains, one plugin |
| `MCPlugins` | do `sys.path` and the working directory come back, does an uninstallation that reports success leave no version? | two versions of a plugin, one of which the expression cannot read, and a plugin whose name is longer and ends like that of the first; two threads |
| `MCSession` | is a command wrapped once, are desktop files kept, is a session resumed? | two processes, two applications, two windows, two places, two operations on the session; a command that is not wrapped |
| `MCClient` | are stale boxes noticed, do calls return, are names released, does a started daemon listen? | one capability, two daemon processes, two connections, one command beside a client before the second of them |

Why the bounds are enough.  Two names, two connections, two usages are what it
takes for one to interfere with another (the tables with two names are
`MCFFIManager`'s; that a loop with several records gives back each is proved, section 4); sharing needs two usages of one
signature, reuse needs a signature given back, and a third signature leaves one
free while two services are loaded.  With two requests each, one connection can
register and give back while the other registers before, between or after, and
both may stop at any point.  The domains of `MCDomain_tree` are a parent, a
child, and the copy and the derived domain of the parent, so every relation that
the code tests (ancestor, descendant, sibling) occurs.  One file shows a loss or
a burial, two show that a later one is kept too.  `MaxLayers` 3 stops the
nesting of `.overlay` in `.overlay` after the second burial; in `MCDomain_faults` 2
stops it after the first, and the move that would raise at the second is still taken.  `MaxWork` bounds
how often the users change what an application shows; two values tell an older
session from a newer one.  `MaxFile` bounds the temporary files; a save that has
begun always ends, so that both savers pass each other in every order.

Three packages are what the pattern of `uninstall` and its expression tell apart: a version that goes,
one that the expression cannot read, so that `uninstall` raises, and a longer name in
which it finds the shorter one.  `sys.path` is a number; `MaxEaten` stops
counting once more was popped than pushed, which is the case that breaks.  Two
processes that refresh are one that finds the file the other has emptied.
Two windows in two places with two states are what a wrong match, a wrong place and a
wrong state each need; `MaxTurns` 2 is a save and a resume, with
whatever the user does before, between and after, or a resume twice.  In `MCSession` the supported application is one whose own
command already names `pyvdm` (`Own`), and so is not wrapped; all others are, and cannot be started
again: see `MCSession_reopen`.  With the latter's constants TLC finds that `ResumeRestores` holds as
well, which then says when nothing is restored.
Two daemon processes are one that listens and one that finds the
port taken or takes over after a restart; two connections are one
whose processes are still ending when the next has created the same four names.

Deadlock is checked except in `MCStatFile_settle`, where savers stop at their bound, and
`MCClient`, where the program may end for good and calls are bounded.

What the passing runs leave out, on purpose and because the code fails there:

* `MCDomain_tree` has `/tmp` on another device.  On the same device, copying the
  open domain replaces its link by the mounted directory
  (`DomainManager.py:318`), closing it then raises at `unlink` (`:152`) and
  leaves its ancestors' overlays in `/tmp`.  Nor does the run have two ancestors of one name,
  like those of `a/a/b`: the directory in `/tmp` is named by the last component alone
  (`:124`), one overlay is moved inside the other's and only one comes home.  In both cases TLC
  refutes `HomeWhenClosed`; in both `NothingDestroyed` holds.
* The hot key setting of `MCCore` has no start or callback that reports a failure.  With
  one, two threads may finalize the same domain, and the slower one clears `.stat`
  after the next domain was opened (`DomainManager.py:198`): its sandbox runs
  unnamed.  Nor does the main thread work beside these two: of two closes, by hot key and by
  menu or timer, the slower one does the same to a domain that the worker opened in between.
  Nor does a load raise, which undoes the open as well.  TLC refutes `OneSandbox` in these cases; for operations that take turns, and for two threads without
  reported failures, it is proved (section 4).
* `CloseCloses` excepts a manager without plugins: after the tray was killed, the
  domain in `.stat` is refused as open (`manager.py:145`), no plugins are loaded,
  and from then on `close_domain` raises in `executeBlade` before
  `finalize_domain`.
* `SessionNeverRegresses` and `OpenedIsRestored` are about the patient settings, which have no
  callbacks that raise: an `onResume` that raises counts as a success
  (`manager.py:119`), and the next save replaces the session that was not
  restored.  `OpenedIsRestored` says what an open that reports success has done for the
  applications that were loaded; that these are all holds only if none has a plugin of its own,
  see `OpenStartsAll` below.
* `CallsAnswered`, and `StoppedIsFinalized` as far as it is about the end of the send thread, suppose a
  client that keeps reading (`ClientReads`).  One that does not leaves its next CALL
  unanswered and the thread spinning for ever (`shmem.rs:91`-`109`).
* The first registrations only (`Reregister = FALSE`) in the runs of the server.
* A manager killed between starting a sandbox and writing its name leaves it to
  itself: `strays` in `DomainManager`, which `OneSandbox` does not count.
* `EntriesKept` is about processes that do not rewrite at once: two of them, of which one
  reads what the other has just emptied, leave a file without its entries.
* `HomeAlone` is about workspaces that do not overlap: two at once leave the process in
  each other's directory.  `PathSettles` holds however they overlap, but not once a
  directory was entered that is gone (`utils.py:141`: `__enter__` then calls `__exit__`, which
  takes from `sys.path` what was never put there).
* `ResumeRestores` is about a resume that finds windows for all states on record, or for none of them
  and no more windows than states, no two windows of one state, and during which the user does nothing and no window comes
  or goes but those the resume starts and ends.  It says that what is on record comes back exactly if
  no window has to be started or the command can be started; so it is about commands that are wrapped as
  well as those that are not.  `KeptStaysKept` below says what goes wrong
  between.
* `StaleIsNoticed` excepts boxes that crossed another toggle; and it says that a box which
  does not tell the status is put right later, not that a click before that does what the user meant.
* `SavesItsOwn` excepts what is saved after a new name was refused: the details keep that name
  (`ControlPanel.py:732`), and the next save goes to the domain of that name.
* Of a deletion, the test that the domain is not open and its removal are one step of `ControlPanel` and
  `DomainManager` (`DomainManager.py:326`-`335`): an open in between is not covered by `OpenKept`
  and `OpenDomainExists`.
* `MCStatFile_settle` is about saves; the `getFile` of a resume beside them is not among its operations.

The run that ends in a violation is a disagreement between a text of the
repository and its code; the quotation is under "findings" in `PROJECT.json`:

| run | what TLC finds |
|---|---|
| `MCSession_reopen` | `ReopenRestores`: a command that the registry has wrapped starts with `/bin/sh`, the program is started by its first word alone, and the windows never come |

More disagreements of this kind are stated in the modules, each a property that TLC
refutes when it is put in place of those of the configuration named:

| property | configuration | what TLC finds |
|---|---|---|
| `CapabilityServer!DropUnloads` | `MCServer_safety.cfg` with `Reregister = TRUE` | a second REGISTER of a name overwrites the record of the first, whose usage is never given back: the service stays loaded for ever (`shmem.rs:172`, `:224`, `ffi.rs:285`) |
| `DomainManager!ExistingDomainOpens` | `MCDomain_faults.cfg` | after a restart of the machine the overlay of a domain that was open is a dangling link, and opening it raises (`DomainManager.py:138`, `manager.py:263`) |
| `DomainManager!FilesVisibleWhenOpen` | `MCDomain_faults.cfg` | every reopening of a domain that was closed, after a crash or not, moves its files into an `.overlay` inside the upper directory, which was made just before (`DomainManager.py:137`-`139`) |
| `CoreManager!EarlySaveKeeps` | `MCCore.cfg` with `Setting <- OnlyHotKey` | a save while the domain is being opened replaces its session by an empty one (`manager.py:131`; README.md:13 promises to restore it) |
| `CoreManager!OpenStartsAll` | `MCCore.cfg` with `Setting <- OnlyOwnPlugin` | with an application that has a plugin of its own, `load` ends with `ALL_CLEAN` before all are loaded, and the open reports success (`manager.py:89`, `PluginManager.py:202`; README.md:13 promises to restore all) |
| `PluginManager!UninstallOnlyNamed` | `MCPlugins.cfg` | uninstalling `chat` removes `chat-mychat` too: the expression is looked for anywhere in the name of the directory (`PluginManager.py:289`-`292`; `:350` speaks of the plugins to uninstall) |
| `AppSession!KeptStaysKept` | `MCSession.cfg` | resuming zips states with all windows of the program, so the state of one is put into a window that already has its own |

Smaller disagreements that reading the code shows and that the models follow the
code in:

* `is_alive` says the opposite of its name, so that the daemon's clean-up drops
  working connections (`shmem.rs:314`, `ipc.rs:102`).
* `switch_domain` with a domain open only saves it (`manager.py:204`).
* `fork_domain` neither switches to the fork (`DomainManager.py:299` compares a
  string with a Path) nor copies stat files (`:295` matches hidden files only);
  `delete_domain` finds nested domains one level down only (`:330`).
* `putFile` may move another save's temporary file while the save reports success
  (`utils.py:178`).
* No code of PluginManager or DomainManager equals `True`: installing a plugin never moves it
  into place, loading never loads (`PluginManager.py:202`, `:250`), and the panel reports each
  success as an error (`ControlPanel.py:721`, `:746`).  Its table of plugins forgets
  the ticks of a user at every refresh.
* DefaultCompatibility never saves (its `encrypt` raises), and its `onResume` reads
  a file that is closed.
* Restoring does nothing unless `~/.local/share` is in `XDG_DATA_DIRS` (`ReadsHome`).
* The library cannot send a request, see section 2.  Also: connecting again
  after a disconnection raises; the processes of an earlier connection unlink the names of the
  next; after a failed start `connect` raises `AttributeError`; leaving a CapabilityContext
  that has a name calls `drop` of None.
* A killed daemon leaves its names of shared memory; `restart` may leave no daemon, as
  `start` raises without `/tmp/vdm-capability-build` after the old one has been stopped;
  `stop` ends only the first process it finds; the panel's button says "Restart"
  after a stop.
* Refreshing a row of the capability tab that shows N/A with its box ticked runs the
  command that enables the capability; two crossing toggles leave a box that does not tell the
  status until the next click (`StaleIsNoticed` says that the row shows it).

Fairness.

* `FairServerSpec` (`MCServer_liveness`) assumes that threads run on: a receive loop in
  its finalization, the send loop, and the oldest call in the pool (weak fairness
  of `Finalize`, `ReleaseRecord`, `Finalized`, `Deliver`, `SendEnds`,
  `FinishCall(1)`).  These are OS threads that nothing else disables for ever: the
  mutex is held by a finalization for finitely many steps, and a service function
  that never returns is excluded (the code has no timeout for it).  No fairness
  is assumed of clients: none has to send, to disconnect or to read.  `Deliver` is therefore
  fair only once the send loop has acquired the slot, and `AcquireWriteLock`, which waits for the client, is not
  fair at all; what depends on it has `ClientReads` as its hypothesis.  A finalization needs no client.
* `ControlPanel` assumes that the timer goes off: weak fairness of `Refresh`, a QTimer of 1.5 s
  that is started once and never stopped (`ControlPanel.py:1001`).  A dialog does not
  stop it.
* `CapabilityClient` assumes that a daemon process that was started gets on (weak fairness of
  its steps): it binds the port or ends.

No action of a user, of the command line or of a program is fair.

## 4. Proofs

Type invariants come first in each module.  All are proved, and those of `FFIManager`,
`DomainManager`, `CoreManager`, `ApplicationManager`, `PluginManager` and `ControlPanel`, which
runs do not repeat, too.  The assumptions are the named
ones of the modules (`NoneAssumption`, `BoundAssumption`, `PluginAssumption` and so on),
which say that the parameters have their types and that `None` is no value.

**`CapabilityServerProofs`**, first of the tables of `FFIManager`, for any sets of names,
versions and signatures and any number of workers and jobs:

* `TablesConsistent`: `TableInv == TypeOK /\ MapsAgree /\ NoIdleService` is an
  invariant.  The three have to be proved together: `Register` keeps the maps in
  agreement only if a signature without usages is not loaded (`MapsAgree`),
  `Unregister` drops all three entries only if a loaded service has a usage
  (`NoIdleService`), and either needs the types.  One lemma per operation
  (`RegisterKeeps`, `UnregisterKeeps`) does the work; the other actions leave the
  tables alone (`TablesUnchanged`).
* `TypeCorrect`, `TablesAgree`, `LoadedMeansUsed`: its parts.
* `ImplementsRegistry`: `FFIManager` implements `ServiceRegistry`.
  `RegisterAcquires` and `UnregisterReleases` show that the two operations map to
  `Acquire`, and to `Release` or a stutter; `TableInv` is what makes `Holders`
  well defined.

then of the daemon, for any connections and requests on top of that:

* `ServerUsesManager`: every behaviour of the server is one of `FFIManager`, so its theorems hold
  of the tables of the server, panics and finalizations included.
* `RecordsStayInForce`: a record of a connection names a usage that is in force and
  is nobody else's.  This needs `TableInv`, the types of records, and `PanicIsAlone`: at most one
  connection is in the middle of its finalization, and after a panic none gets there.
* `NoUsageForgotten`: provided that no client registers a name twice
  (`~Reregister`), every usage is on somebody's record until a thread panics with the lock,
  so dropping all connections unloads all.
* `PanicFreezes`: nothing changes the tables after a panic with the lock held.
* `ServerTypeCorrect`: the types of threads, channels, records and of the pool.
* `AnswersMatch`: a channel has no answer to a request that gets none, and at most one to any
  other.  An answer is given by the receive loop at once, or by a worker of the pool when it has
  finished a call, in any order; so the invariant `AnswerInv` has to say as well that no answer
  is owed twice by the pool (`OwedOnce`), and that one still owed was asked for by a CALL and
  is not in the channel (`Matched`).

**`CapabilityManagerProofs`**, for the composition with CapabilityClient:

* `StaleBoxesNoticed`: `BoxInv` adds to the types that a box is what the row shows
  (`BoxIsShown`) and that what is shown was told by a daemon (`ShownTells`).
* `ClientTypeCorrect`: the types of the program, its processes, the daemon processes and their
  threads.  They are not inductive alone, since a step takes the number of a name or of an opened
  semaphore for one that is there: `ClientInv` adds in which phase of the program the processes of
  a connection have not started yet, that whoever unlinks is closing and the other way
  round (`ClosingOK`), that threads belong to a connection that reached its daemon (`ThreadsOK`), and
  that who waits for a semaphore has opened it (`OpenedOK`).
* `NamesGoBack`: for any number of connections, nothing keeps its name when the program has ended
  and the rest has come to rest, unless a daemon was terminated under a connection.  The four
  names are shared by all connections, and either side unlinks them whosever they are by now; the
  invariant `Owned` says why that does no harm.  A connection begins when all names are free
  (`BeginsOK`): the processes of the one before are dead, and the first of them to
  finish has unlinked everything (`HalfClosed`).  The thread in the server cannot make them again, as
  the processes only started after it had made both (`ReachedOK`).  So what is not free is
  of the last connection: it is being opened, with its thread at a known point
  (`OpensOK`, `Made`); or at work; or given up, with nobody holding the names
  of the requests and its threads about to end (`GivenUp`).  A daemon that was terminated
  under a connection breaks this for good (`Cut` is never undone: `StaysCut`), since its threads
  unlink nothing.
* `AnswerComes`: where a connect waits for the daemon, the thread has answered or is yet to.  This
  is the part of `CallsGoOn` that does not depend on ENABLED.

**`StatFileProofs`**, for any number of threads and saves:

* `SavesSettle`: when all saves are over and none failed, the stat file is a
  complete session, one that a thread saved last.  The threads share the attribute `temp_file`, so
  that one may write to a file made by another and move it while a third still writes.  The
  inductive invariant `StatInv` speaks of the file that is or will be the stat file
  (`Current`): someone is yet to open it, or is writing to it, or it holds the session that a
  finished save had (`CurrentFilled`).  It needs that no file has two names
  (`NamesApart`), that the last save leaves no temporary file behind (`NothingLeft`), and that there
  is room for the files still to be made, so that `MaxFile` never gets in the way (`Enough`).

**`ApplicationManagerProofs`**, for any applications and processes:

* `RegistrySafe`: no command is wrapped twice, on disk or in a registry (`Once`: every
  command that can be read, kept or written has at most one wrapping, and one that is
  wrapped again is not wrapped yet).
* `RegistryKeepsEntries`: no file loses its entries as long as processes have not worked at
  once (`Whole`: then a process at work is alone, what it has taken from a
  file is still in the file or in its hands, and what it writes is whole).
* `RegistryRestores`: once a restoration is done that no other process interfered with, no
  command is wrapped any more.  `Undoes` says of a restoration under way that every application not
  left to do has been undone; that what it reads is whole and wrapped at most once
  comes from the two before.
* `SessionsKeepRegistry`: the first two hold of `AppSession`, whose steps are steps of the
  registry or leave it alone.
* `SessionTypeCorrect`: the types of the session, for any windows.  `SessionInv` adds
  what each operation has planned by each of its points.
* `SessionRestores`: after a resume that nobody interfered with and that found windows for all states
  on record, or for none and no more windows than states, the windows on record are there, with their
  states and in their places, and no others, exactly if none had to be started or the command is not wrapped.  So it proves
  both that a wrapped application is not restored and that the others are.  `ResumeInv` follows the
  resume: windows are either kept, one for each state that was matched, or are to be
  replaced (`Partition`), and the pairing that `zip` makes gives every state that remains a
  window (`Zipped`).  The proof counts: if there are no more windows than states and all
  states occur, no state occurs twice (`AllLast`); and a program that cannot be started never
  gets the windows it lacks (`LackInv`), so that there are too few for the record (`TooFew`).

**`PluginManagerProofs`**, for any packages and threads:

* `PluginTyped`; `UninstallsAll`: when `uninstall` reports success no version of the plugin is left, whatever
  versions the expression cannot read and whatever names go on after a dash (`NoneMissed`:
  what is left to be removed still has every version of the plugin).
* `WorkSpaceGoesHome`: workspaces that do not overlap leave the working directory where it
  was (`BackHome`).  `WorkSpaceKeepsPath`: however they overlap, `sys.path` has exactly one
  entry for each workspace that is open (`Counted`), unless a directory was gone.

**`ControlPanelProofs`**, for any domains and plugins: `PanelTyped`, `SavingStaysHome` and
`OpenIsKept`.  `PanelInv` adds to the types that the configuration in the details is that of
the domain they were opened for (`ConfigIsOwn`) and that the open domain exists (`OpenExists`).

**`CoreManagerProofs`**, for any domains, applications, threads and settings:

* `CoreTyped`: the types.  They need to be proved together with where a thread may be
  in which operation (`Places`) and with the bound on what is shown, kept and saved
  (`Bounded`); the three are `Settled`.
* `OneSandboxInTurn`, `CloseFinishes`, `FailedOpenUndone` are about operations that take turns
  (`setting.patient`), with reported failures, exceptions, crashes and restarts.  The inductive
  invariant is `Turn`: a thread at work is the only one (`Alone`), what it has read is
  still so (`Sane`: what `.stat`, the sandbox, the overlay and `plugins` are at each point of each
  operation), and no sandbox but that of `.stat` runs.
* `OneSandboxOfPair` is about threads that do not wait: `Few` says that at most two of the main
  thread, the hot keys and the worker are used, that nothing reports an error and that `load` does not raise; callbacks may raise,
  the tray and the machine may go down.  The invariant is `Pair`.  Its part
  `Single` says of a thread at work that an open is on the only thread that opens, is never undone, and
  has seen no sandbox once it is about to start one (`StartsAlone`); and that what a thread is about to
  kill is what `.stat` names, or, when two threads close and so none opens, has just been killed
  by the other (`KillsAll`).  `StepSpares` shows that a step of one thread leaves this to the other.  With
  three threads, or with an open that is undone beside a close, it is false (section 3).
* `CoreImplements`: `CoreManager` implements `OpenDomain` if each setting is patient or satisfies `Few`
  (`Orderly`).  With `Turn` or `Pair`, a start is an `Open` (`StartOpens`), a kill is a
  `Close` or finds nothing (`KillCloses`), and the other steps of threads change neither `.stat` nor
  sandboxes (`StepMoves`).
* `SessionsKept` and `OpensRestored` assume in addition that callbacks report their errors
  (`Reported`; they are false of callbacks that raise, see section 3).  `OpensRestored` covers
  applications with plugins of their own: what was loaded before the first of them is restored, and without
  any of them everything is loaded.  `FailedOpenUndone` covers opens that an exception aborts.  `Ready` adds what the
  callbacks of an operation have achieved so far (`Phases`), and that
  between operations, and during a save, every application shows at least what is on record
  for it (`Shows`): a save in between would otherwise put an older session on record.

**`DomainManagerProofs`**, for any names of domains:

* `OneSandboxAlways`: with any faults, `.stat` names the only sandbox that is known of
  (`Sandboxes`: what may run at each point of opening and closing).
* `DomainImplements`: with any faults, `DomainManager` implements `OpenDomain`: `PutStat` is the
  `Open`, `FinalizeStat` the `Close`, `Reboot` the restart, and everything else is a stutter, which
  takes `Sandboxes` to see.
* `SandboxFollowsStat`: without faults it runs exactly while `.stat` names it.
* `OpenDomainStays`: as long as only existing domains are opened, the open domain and its
  ancestors stay.  The invariant `Tree` adds that every directory has its parents (`Closed`); that
  renaming keeps this is a fact about prefixes of sequences (`RenamedUpto`, `RenameClosed`).
  Of the names of forks the proof assumes that a copy is a sibling and a derived domain a child
  (`DomainAssumption`).
* `DomainTypeCorrect`: the types, for any faults.  The part on files (`FilesOK`) holds on
  its own: overlays are directories of layers or links to slots, and only existing directories
  have one, through every renaming.
* `FilesSurvive`: with any faults and on any device, a file that was written is in an overlay
  directory or in `/tmp`.  `RelinkMoves`, `MoveBackMoves`, `RenameFiles` and `DeleteFiles`
  show that a step takes the layers from one place to another or puts them under others.
* `OverlaysReturn`: every overlay is at home when no domain is open, provided that nothing fails,
  `/tmp` is on another device and no two ancestors of a domain have one name.  TLC refutes
  it without each of the last two (section 3), and faults leave overlays in `/tmp` by
  design.  The invariant `InPlace` says for each point of opening and closing which overlays are lent:
  those of the parents passed (`Before`), or yet to come (`From`), each in its own slot with at most a
  link in its place (`Lent`), and nothing else.  While a domain is open the
  offline operations go on; that they leave what is lent alone follows from `Tree`, as no
  operation reaches the open domain or an ancestor (`OfflineTame`).

Only model-checked: liveness (`CallsAnswered`, `StoppedIsFinalized`, `TableCatchesUp`,
`StartedListens`), which with ENABLED is out of the prover's reach; and `CallsGoOn`, which asks
whether the next step of a call is ENABLED (`AnswerComes` has the step that waits).  Nothing
recursive had to be reasoned about: the loops of the code are steps.

## 5. Not modelled

* The marks and semaphores of the slots of shared memory, and the requests and answers of
  the library: `ShmContext` raises before the first.  `CapabilityServer` models what the daemon
  would do with them.
* Commander: outside of what `SetConfig` shows of it to the tables; it runs the build tools
  of a service, one file after another.
* The daemon library, `CapabilityHandleLocal` (an own daemon object per handle, which
  never unregisters), PluginWrapper and MetaPlugin, CoreMetaPlugin: they pass calls on and keep
  nothing that others see.
* The tray's menus and indicators, the overview tab, TransitionSceneWidget and
  TraversalWidget: layout, painting and animation.
* Window managers, keyrings, D-Bus; the contents of configurations beyond the plugins they
  enable; the command line (`execute`, `main` of `manager.py`); SyncManager (empty).

## 6. Plan

In this order:

1. `OpenDomain` with the overlays: `moved` of `CoreManager` as a mapping of `overlay` and `tmp` of
   `DomainManager`.
2. The slots of shared memory with their marks and semaphores, and the requests of the library, as
   soon as `ShmContext` can be entered: `CapabilityServer` would then be refined by them.
3. Commander: the output files of a service when building stops half-way.
4. The lists of domains that the tray and the traversal widget keep, beside the panel's.
