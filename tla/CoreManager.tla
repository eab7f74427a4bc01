----------------------------- MODULE CoreManager -----------------------------
(***************************************************************************)
(* The online operations of core/pyvdm/manager.py - open, save, close and  *)
(* switch - as the tray program (gui/pyvdm/tray.py) calls them: the menu   *)
(* and the autosave timer on the main thread, the hot keys on a thread of  *)
(* their own, "switch" on a worker thread.  They share one CoreManager and *)
(* take no lock.                                                           *)
(*                                                                         *)
(* The steps of an operation are those another thread can see: the file    *)
(* .stat, the start and the end of the sandbox, the attribute plugins, and *)
(* the callbacks of the plugins, which run in parallel.  DomainManager.tla *)
(* has the details of the sandbox and of the overlays; here moved is the   *)
(* set of domains whose overlay is in /tmp.  The application behind a      *)
(* plugin is outside the code; what it shows is a number, later numbers    *)
(* for later work, 0 for an application without a session.                 *)
(***************************************************************************)
EXTENDS Naturals, FiniteSets

CONSTANTS Domain,
          Plugin,   \* the applications
          Setting,  \* the users and machines considered, see CoreAssumption
          MaxWork,  \* bound: how often users change what applications show
          None

FaultKinds == {"fails",   \* a plugin or the sandbox reports an error
               "raises",  \* a callback of a plugin raises an exception
               "unknown", \* load does: an application is not known any more
               "crash",   \* the tray is killed and started again
               "reboot"}  \* the machine is, and then the tray

Threads == {"main", "hotkey", "worker"}

ASSUME CoreAssumption ==
    /\ None \notin Domain \union [of : Domain, names : SUBSET Plugin]
    /\ Setting \subseteq
           [enabled : SUBSET Plugin,    \* what each domain enables
            supported : SUBSET Plugin,  \* those with a plugin of their own
            threads : SUBSET Threads,   \* the threads that are used
            patient : BOOLEAN,          \* no operation starts before the last has ended
            faults : SUBSET FaultKinds] \* what may go wrong
    /\ MaxWork \in Nat

VARIABLES
    setting,    \* which of Setting it is; never changes
    stat,       \* the name in .stat
    sandboxes,  \* the domains whose sandbox process is running
    moved,      \* the domains whose overlay has been moved to /tmp
    plugins,    \* the attribute plugins, None while there is no such attribute
    running,    \* the plugins started and not stopped
    shown,      \* what each application shows
    session,    \* the stat file of a plugin in a domain
    thread,     \* what each thread is doing
    result,     \* what the last operation of each thread returned
    up,         \* the tray: "down", "starting" or "up"
    work        \* history: the last number an application was given

Enabled == setting.enabled
Supported == setting.supported
Thread == setting.threads
Faults == setting.faults

domain == <<stat, sandboxes, moved>>
apps == <<running, shown, work>>
vars == <<setting, domain, plugins, apps, session, thread, result, up>>

IdleThread == [pc |-> "idle"]
NoResult == [op |-> "none"]
Idle(t) == thread[t].pc = "idle"
AllIdle == \A t \in Thread : Idle(t)

Init ==
    /\ setting \in Setting
    /\ stat = None /\ sandboxes = {} /\ moved = {}
    /\ plugins = None
    /\ running = {} /\ shown = [x \in Plugin |-> 0]
    /\ session = [d \in Domain |-> [x \in Plugin |-> 0]]
    /\ thread = [t \in Thread |-> IdleThread]
    /\ result = [t \in Thread |-> NoResult]
    /\ up = "up"
    /\ work = 0

------------------------------------------------------------------------------
(* Control *)

Goto(t, pc) == thread' = [thread EXCEPT ![t].pc = pc]

(* An operation returns to its caller.  switch_domain goes on only "if ret *)
(* is True", which no tuple is: it returns that of its first operation.    *)
Return(t, code) ==
    /\ result' = [result EXCEPT ![t] = [op |-> thread[t].op, code |-> code]]
    /\ thread' = [thread EXCEPT ![t] = IdleThread]
    /\ up' = IF up = "starting" THEN "up" ELSE up

Call(t, op, goal, pc) ==
    [thread EXCEPT ![t] = [pc |-> pc, op |-> op, goal |-> goal, of |-> None,
                           tasks |-> [x \in {} |-> ""], kept |-> shown,
                           bad |-> FALSE]]

Begins(t) == up = "up" /\ Idle(t) /\ (setting.patient => AllIdle)

(* save_domain and close_domain with no open domain return at once. *)
Begin(t, op) ==
    /\ Begins(t) /\ t \in {"main", "hotkey"} /\ op \in {"save", "close"}
    /\ stat # None
    /\ thread' = Call(t, op, None, "blade")
    /\ UNCHANGED <<domain, plugins, apps, session, result, up>>

Switch(t, d) ==
    /\ Begins(t) /\ t = "worker"
    /\ thread' = IF stat = None THEN Call(t, "open", d, "check")
                                ELSE Call(t, "save", d, "blade")
    /\ UNCHANGED <<domain, plugins, apps, session, result, up>>

------------------------------------------------------------------------------
(* initialize_domain, finalize_domain *)

IsOpen == stat # None /\ stat \in sandboxes

Check(t) ==
    /\ thread[t].pc = "check"
    /\ IF IsOpen THEN Return(t, "failed")
                 ELSE Goto(t, "start") /\ UNCHANGED <<result, up>>
    /\ UNCHANGED <<domain, plugins, apps, session>>

StartSandbox(t) ==
    LET d == thread[t].goal
    IN  /\ thread[t].pc = "start"
        /\ moved' = moved \union {d}
        /\ \/ /\ sandboxes' = sandboxes \union {d} /\ stat' = d
              /\ Goto(t, "load")
              /\ UNCHANGED <<result, up>>
           \/ /\ "fails" \in Faults
              /\ Return(t, "failed")
              /\ UNCHANGED <<sandboxes, stat>>
        /\ UNCHANGED <<plugins, apps, session>>

(* finalize_domain reads .stat, kills the process named there and clears   *)
(* .stat; then it raises unless the overlay is there to be moved back.  An *)
(* open that an exception aborted, rather than an error, has ret_code      *)
(* ALL_CLEAN: it returns that, with a traceback.                           *)
AfterFinalize(t, raised) ==
    Return(t, IF thread[t].bad \/ raised THEN "failed"
              ELSE IF thread[t].op = "open" THEN "traceback" ELSE "clean")

ReadStat(t) ==
    /\ thread[t].pc = "finalize"
    /\ IF stat = None
       THEN AfterFinalize(t, FALSE)
       ELSE /\ thread' = [thread EXCEPT ![t].pc = "kill", ![t].of = stat]
            /\ UNCHANGED <<result, up>>
    /\ UNCHANGED <<domain, plugins, apps, session>>

Spared(d) == sandboxes
Killed(d) == sandboxes \ {d}
Kill(t) ==
    LET d == thread[t].of
    IN  /\ thread[t].pc = "kill"
        /\ sandboxes' = Killed(d)
        /\ stat' = None
        /\ moved' = moved \ {d}
        /\ AfterFinalize(t, d \notin moved)
        /\ UNCHANGED <<plugins, apps, session>>

------------------------------------------------------------------------------
(* load: the applications of the domain are instantiated one by one.  For  *)
(* one that has a plugin of its own getInstalledPlugin returns a code, see *)
(* PluginManager: an error, or ALL_CLEAN.  Either ends the loading there,  *)
(* the second as if all were loaded; those before it stay in the dict, and *)
(* those after it are not reached.  The same goes for config['plugins'].   *)
Fail(t) == thread' = [thread EXCEPT ![t].pc = "finalize", ![t].bad = TRUE]

Load(t) ==
    /\ thread[t].pc = "load"
    /\ \/ /\ plugins' = [of |-> thread[t].goal, names |-> {}]
          /\ Goto(t, "loading")
       \/ "fails" \in Faults /\ Fail(t) /\ UNCHANGED plugins   \* no config
    /\ UNCHANGED <<domain, apps, session, result, up>>

LoadPlugin(t) ==
    /\ thread[t].pc = "loading"
    /\ \/ \E x \in Enabled \ (plugins.names \union Supported) :
              /\ plugins' = [plugins EXCEPT !.names = @ \union {x}]
              /\ UNCHANGED thread
       \/ /\ plugins.names = Enabled \/ Enabled \cap Supported # {}
          /\ Goto(t, "blade") /\ UNCHANGED plugins
       \/ /\ "fails" \in Faults /\ Enabled \cap Supported # {}
          /\ Fail(t) /\ UNCHANGED plugins
       \/ /\ "unknown" \in Faults
          /\ Goto(t, "finalize") /\ UNCHANGED plugins
    /\ UNCHANGED <<domain, apps, session, result, up>>

------------------------------------------------------------------------------
(* executeBlade *)

FirstResume == [open |-> "resume", save |-> "save", close |-> "close"]
First == [open |-> "start", save |-> "save", close |-> "close"]
Following == [start |-> "resume", save |-> "put", close |-> "stop"]
Without(f, x) == [y \in DOMAIN f \ {x} |-> f[y]]

(* An exception here - there are no plugins, or another thread adds some   *)
(* while they are listed - ends a save or a close, and aborts an open.     *)
Raised(t) ==
    IF thread[t].op = "open" THEN Goto(t, "finalize") /\ UNCHANGED <<result, up>>
                             ELSE Return(t, "failed")
Blade(t) ==
    /\ thread[t].pc = "blade"
    /\ \/ /\ plugins # None
          /\ thread' = [thread EXCEPT ![t].pc = "tasks", ![t].of = plugins.of,
                            ![t].tasks = [x \in plugins.names |-> First[thread[t].op]]]
          /\ UNCHANGED <<result, up>>
       \/ /\ plugins = None \/ \E u \in Thread \ {t} : thread[u].pc = "loading"
          /\ Raised(t)
    /\ UNCHANGED <<domain, plugins, apps, session>>

(* What the callbacks do to the application of plugin x.  onSave writes to *)
(* a copy of the stat file, which putFile then moves in its place.         *)
OnStart(x) == running' = running \union {x} /\ UNCHANGED <<shown, work>>
OnStop(x) == running' = running \ {x} /\ UNCHANGED <<shown, work>>
OnClose(x) == shown' = [shown EXCEPT ![x] = 0] /\ UNCHANGED <<running, work>>
ResumesNothing(d, x) == UNCHANGED apps
OnResume(d, x) ==
    /\ shown' = [shown EXCEPT ![x] = IF session[d][x] # 0 THEN session[d][x] ELSE @]
    /\ UNCHANGED <<running, work>>

Effect(t, x, phase) ==
    CASE phase = "start" -> OnStart(x) /\ UNCHANGED session
      [] phase = "resume" -> OnResume(thread[t].of, x) /\ UNCHANGED session
      [] phase = "close" -> OnClose(x) /\ UNCHANGED session
      [] phase = "stop" -> OnStop(x) /\ UNCHANGED session
      [] phase = "save" -> UNCHANGED <<apps, session>>
      [] phase = "put" -> /\ session' = [session EXCEPT ![thread[t].of][x] = thread[t].kept[x]]
                          /\ UNCHANGED apps

Advance(t, x, phase) ==
    thread' = [thread EXCEPT
        ![t].tasks = IF phase \in DOMAIN Following THEN [@ EXCEPT ![x] = Following[phase]]
                                                   ELSE Without(@, x),
        ![t].kept[x] = IF phase = "save" THEN shown[x] ELSE @]

Task(t, x) ==
    /\ thread[t].pc = "tasks" /\ x \in DOMAIN thread[t].tasks
    /\ LET phase == thread[t].tasks[x]
       IN  Effect(t, x, phase) /\ Advance(t, x, phase)
    /\ UNCHANGED <<domain, plugins, result, up>>

(* A callback that returns an error is reported; one that raises is not. *)
TaskFails(t, x) ==
    /\ thread[t].pc = "tasks" /\ x \in DOMAIN thread[t].tasks
    /\ \E reported \in BOOLEAN :
           /\ reported => thread[t].tasks[x] # "put"
           /\ (IF reported THEN "fails" ELSE "raises") \in Faults
           /\ thread' = [thread EXCEPT ![t].tasks = Without(@, x),
                                       ![t].bad = @ \/ reported]
    /\ UNCHANGED <<domain, plugins, apps, session, result, up>>

(* The results: an open with an error is undone, a close finalizes anyway. *)
KeepsOpen(t) == Return(t, "failed")
Undo(t) == Goto(t, "finalize") /\ UNCHANGED <<result, up>>
GivesUp(t) == IF thread[t].bad THEN Return(t, "failed") ELSE Undo(t)
Closes(t) == Undo(t)
TasksEnd(t) ==
    /\ thread[t].pc = "tasks" /\ DOMAIN thread[t].tasks = {}
    /\ CASE thread[t].op = "close" -> Closes(t)
         [] thread[t].op = "open" /\ thread[t].bad -> Undo(t)
         [] thread[t].op = "save" /\ thread[t].bad -> Return(t, "failed")
         [] OTHER -> Return(t, "clean")
    /\ UNCHANGED <<domain, plugins, apps, session>>

------------------------------------------------------------------------------
(* The user works with an application of the open domain. *)
Work(x) ==
    /\ x \in running
    /\ work < MaxWork
    /\ work' = work + 1
    /\ shown' = [shown EXCEPT ![x] = work + 1]
    /\ UNCHANGED <<domain, plugins, running, session, thread, result, up>>

Stop ==
    /\ up' = "down"
    /\ plugins' = None
    /\ thread' = [t \in Thread |-> IdleThread]
    /\ result' = [t \in Thread |-> NoResult]
    /\ UNCHANGED <<stat, session, work>>

Crash ==
    /\ "crash" \in Faults
    /\ Stop
    /\ UNCHANGED <<sandboxes, moved, running, shown>>

Reboot ==
    /\ "reboot" \in Faults
    /\ Stop
    /\ sandboxes' = {} /\ moved' = {}
    /\ running' = {} /\ shown' = [x \in Plugin |-> 0]

(* The tray starts: the domain named in .stat is opened again, before the  *)
(* hot keys are set.  (TrayIcon tries once more, which then is refused or  *)
(* finds no name.)                                                         *)
Restart ==
    /\ up = "down" /\ "main" \in Thread
    /\ IF stat = None
       THEN up' = "up" /\ UNCHANGED thread
       ELSE up' = "starting" /\ thread' = Call("main", "open", stat, "check")
    /\ UNCHANGED <<domain, plugins, apps, session, result>>

Steps ==
    \/ \E t \in Thread :
        \/ \E op \in {"save", "close"} : Begin(t, op)
        \/ \E d \in Domain : Switch(t, d)
        \/ Check(t) \/ StartSandbox(t) \/ ReadStat(t) \/ Kill(t)
        \/ Load(t) \/ LoadPlugin(t) \/ Blade(t) \/ TasksEnd(t)
        \/ \E x \in Plugin : Task(t, x) \/ TaskFails(t, x)
    \/ \E x \in Plugin : Work(x)
    \/ Crash \/ Reboot \/ Restart

Next == Steps /\ UNCHANGED setting

Spec == Init /\ [][Next]_vars

------------------------------------------------------------------------------
(* Properties *)

Content == 0..MaxWork
Phase == {"start", "resume", "save", "put", "close", "stop"}
Busy == [pc : {"check", "start", "load", "loading", "blade", "tasks", "finalize", "kill"},
         op : {"open", "save", "close"}, goal : Domain \union {None},
         of : Domain \union {None}, tasks : UNION {[S -> Phase] : S \in SUBSET Plugin},
         kept : [Plugin -> Content], bad : BOOLEAN]

TypeOK ==
    /\ setting \in Setting
    /\ stat \in Domain \union {None} /\ sandboxes \subseteq Domain /\ moved \subseteq Domain
    /\ plugins \in {None} \union [of : Domain, names : SUBSET Plugin]
    /\ running \subseteq Plugin /\ shown \in [Plugin -> Content]
    /\ session \in [Domain -> [Plugin -> Content]]
    /\ thread \in [Thread -> {IdleThread} \union Busy]
    /\ result \in [Thread -> {NoResult} \union
                       [op : {"open", "save", "close"}, code : {"clean", "failed", "traceback"}]]
    /\ up \in {"down", "starting", "up"}
    /\ work \in Content

Returns(t, op) == thread[t].pc # "idle" /\ thread[t].op = op /\ up' # "down" /\ Idle(t)'

(* README.md: VDM saves the status of the applications and restores them   *)
(* when the workspace is opened again.  So a session in a stat file is     *)
(* only ever replaced by one that was worked out from it: saving never     *)
(* puts an older session, or an empty one, in its place.                   *)
SessionKept == \A d \in Domain, x \in Plugin : session'[d][x] >= session[d][x]
SessionNeverRegresses == [][setting.patient => SessionKept]_vars

(* The same, however early the hot key or the timer saves.                 *)
EarlySaveKeeps == [][SessionKept]_vars

(* The next three are about operations that do not overlap.                *)
(* When open_domain reports success, with no traceback, the domain is      *)
(* open, what is loaded is running, and each of these applications shows   *)
(* its session.  Every application is loaded, unless one of them has a     *)
(* plugin of its own; of those none is.                                    *)
OpenedIsRestored ==
    [][\A t \in Thread :
           setting.patient /\ Returns(t, "open") /\ result'[t].code = "clean" =>
               LET d == thread[t].goal
               IN  /\ stat = d /\ d \in sandboxes /\ d \in moved
                   /\ plugins.of = d /\ plugins.names \subseteq Enabled \ Supported
                   /\ plugins.names = Enabled \/ Enabled \cap Supported # {}
                   /\ plugins.names \subseteq running
                   /\ \A x \in plugins.names : shown[x] >= session[d][x]]_vars

(* README.md: VDM restores the applications of a workspace when it is      *)
(* opened again; manager.py: what ends load is a "plugin error code".  So  *)
(* an open that reports success has loaded every application.              *)
OpenStartsAll ==
    [][\A t \in Thread :
           Returns(t, "open") /\ result'[t].code = "clean" => plugins.names = Enabled]_vars

(* When open_domain reports an error, or success with a traceback, the     *)
(* domain it was to open is not left open, unless the error is that it was *)
(* open already.                                                           *)
FailedOpenIsUndone ==
    [][\A t \in Thread :
           setting.patient /\ Returns(t, "open") /\ result'[t].code # "clean" =>
               \/ thread[t].pc = "check" /\ IsOpen
               \/ stat' # thread[t].goal \/ stat' \notin sandboxes']_vars

(* manager.py: "close the current open domain".  close_domain leaves no    *)
(* domain open, even if plugins fail to close or to stop, unless there are *)
(* no plugins to close, as after the tray was killed and started again.    *)
CloseCloses ==
    [][\A t \in Thread :
           setting.patient /\ Returns(t, "close") /\ plugins # None => stat' = None /\ sandboxes' = {}]_vars

(* DomainManager.py: "check if domain already open".  When nothing is in   *)
(* progress, no sandbox runs but the one .stat names, even if the hot keys *)
(* close or save while another thread opens a domain, as long as opening   *)
(* does not fail.                                                          *)
OneSandbox == AllIdle => sandboxes \subseteq {stat}

(* The same at every step, with the promise of DomainManager: whichever    *)
(* thread opens or closes, whatever fails in turns, .stat and the sandbox  *)
(* come and go together, as in OpenDomain.                                 *)
Promise == INSTANCE OpenDomain WITH name <- stat, alive <- sandboxes
RefinesOpenDomain == Promise!Spec
==============================================================================
