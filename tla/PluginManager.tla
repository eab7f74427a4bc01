---------------------------- MODULE PluginManager ----------------------------
(***************************************************************************)
(* The plugins directory of core/pyvdm/PluginManager.py and the two things *)
(* its operations change for the whole process: the working directory and  *)
(* sys.path, through WorkSpace of utils.py.  The control panel installs,   *)
(* uninstalls and runs plugins on the main thread while the worker thread  *)
(* that opens a domain loads them.                                         *)
(*                                                                         *)
(* No PluginCode equals True, so "ret!=True" of getInstalledPlugin and of  *)
(* install always holds: both return the code of test_config, ALL_CLEAN    *)
(* included, and what follows (loading the module, moving the archive to   *)
(* the plugins directory) is never reached.  Plugins get there by hand.    *)
(***************************************************************************)
EXTENDS Integers, FiniteSets

CONSTANTS
    Name,     \* plugins
    Package,  \* a plugin in a version: its directory is <name>-<version>
    Info,     \* of each package, see PluginAssumption
    Longer,   \* <<n, m>>: m begins with n and a dash, so that n-*.* matches it
    Ending,   \* <<n, m>> of these: m ends with n as well, as chat-mychat does
    Thread,   \* "main" and "worker", those that are used
    home, root, temp  \* directories besides those of packages

ASSUME PluginAssumption ==
    /\ Info \in [Package -> [name : Name, version : Nat,
                             rank : Nat,         \* in the order of the names
                             readable : BOOLEAN, \* the version begins digit, dot, digit
                             flaw : BOOLEAN,     \* a field or a legal main is missing
                             script : BOOLEAN,   \* there is a pre-install
                             needs : BOOLEAN]]   \* it requires a missing capability
    /\ Longer \subseteq Name \X Name /\ \A n \in Name : <<n, n>> \notin Longer
    /\ Ending \subseteq Longer
    /\ Thread \subseteq {"main", "worker"}
    /\ Cardinality({home, root, temp}) = 3 /\ {home, root, temp} \intersect Package = {}

(* There are finitely many names: of any packages, one is first, one last. *)
ASSUME OrderAssumption ==
    \A S \in (SUBSET Package) \ {{}} :
        /\ \E p \in S : \A q \in S : Info[p].rank <= Info[q].rank
        /\ \E p \in S : \A q \in S : Info[q].rank <= Info[p].rank

VARIABLES
    installed,  \* the packages with a directory in the plugins directory
    built,      \* those whose main entry exists
    archive,    \* the package unpacked into temp, or home if temp is not there
    cwd,        \* the working directory of the process
    path,       \* entries put in front of sys.path, less those popped
    call,       \* of each thread: its operation, [pc |-> "idle"] if none
    overlapped, \* history: have two workspaces been open at once?
    missed      \* history: was a workspace entered whose directory is gone?

place == <<cwd, path, overlapped, missed>>
pluginVars == <<installed, built, archive, place, call>>

Resting == [pc |-> "idle"]
Idle(t) == call[t].pc = "idle"

PluginInit ==
    /\ installed \in SUBSET Package /\ built \in SUBSET installed
    /\ archive = home
    /\ cwd = home /\ path = 0
    /\ call = [t \in Thread |-> Resting]
    /\ overlapped = FALSE /\ missed = FALSE

IsDir(d) == d \in {home, root} \union installed \/ (d = temp /\ archive # home)
Holds(d) == IF d = temp THEN archive ELSE d   \* whose package.json is there

First(S) == CHOOSE p \in S : \A q \in S : Info[p].rank <= Info[q].rank
Last(S) == CHOOSE p \in S : \A q \in S : Info[q].rank <= Info[p].rank

GlobFirst(n) == {p \in installed : /\ Info[p].name = n
                                  /\ \A q \in installed : Info[q].name = n => Info[p].rank <= Info[q].rank}
Glob(n) == {p \in installed : Info[p].name = n \/ <<n, Info[p].name>> \in Longer}

(* The expression n-digit.digit... is looked for anywhere in the name of   *)
(* the directory: it is not there for a version like 10.2 or 2, and it is  *)
(* in chat-mychat-1.0 for chat.                                            *)
HasVersion(p, n) == /\ Info[p].readable
                    /\ Info[p].name = n \/ <<n, Info[p].name>> \in Ending

------------------------------------------------------------------------------
(* WorkSpace: the constructor notes the working directory, which fails if  *)
(* that was removed; entering a directory that is not there pops sys.path  *)
(* and goes on; leaving pops again and goes back to the noted directory.   *)

Begin(t, op, n, d) ==
    /\ Idle(t) /\ IsDir(cwd)
    /\ call' = [call EXCEPT ![t] = [pc |-> "enter", op |-> op, name |-> n, dir |-> d,
                                    pwd |-> cwd, left |-> {}, code |-> "none"]]
    /\ overlapped' = (overlapped \/ \E u \in Thread \ {t} : ~Idle(u))
    /\ UNCHANGED <<cwd, path, missed>>

MaxEaten == 1   \* bound: not counted further
PopNothing == UNCHANGED path
Pop == path' = IF path > -MaxEaten THEN path - 1 ELSE path
StayThere(d) == UNCHANGED cwd
ChangeDir(d) == cwd' = IF IsDir(d) THEN d ELSE cwd

Enter(t) ==
    /\ call[t].pc = "enter"
    /\ \/ /\ IsDir(call[t].dir)
          /\ cwd' = call[t].dir /\ path' = path + 1
          /\ UNCHANGED missed
       \/ /\ ~IsDir(call[t].dir)
          /\ Pop /\ ChangeDir(call[t].pwd)
          /\ missed' = TRUE
    /\ call' = [call EXCEPT ![t].pc = call[t].op,
                            ![t].left = IF call[t].op = "uninstall" THEN Glob(call[t].name)
                                                                    ELSE {}]
    /\ UNCHANGED <<installed, built, archive, overlapped>>

Leave(t, code) == call' = [call EXCEPT ![t].pc = "exit", ![t].code = code]

(* The temporary directory of an installation goes with its workspace. *)
Exit(t) ==
    /\ call[t].pc = "exit"
    /\ Pop /\ ChangeDir(call[t].pwd)
    /\ archive' = IF call[t].op = "install" THEN home ELSE archive
    /\ built' = IF call[t].op = "install" THEN built \ {temp} ELSE built
    /\ call' = [call EXCEPT ![t] = Resting]
    /\ UNCHANGED <<installed, overlapped, missed>>

------------------------------------------------------------------------------
(* getInstalledPlugin: run picks the last match in the order of the names; *)
(* load, which requires a version, the last that is new enough, and raises *)
(* at a match it finds no version in.                                      *)

NewEnough(n, v) == {p \in Glob(n) : HasVersion(p, n) => Info[p].version >= v}

Run(t, n) ==
    /\ Glob(n) # {}
    /\ Begin(t, "load", Info[Last(Glob(n))].name, Last(Glob(n)))
    /\ UNCHANGED <<installed, built, archive>>

Load(t, n, v) ==
    /\ NewEnough(n, v) # {} /\ HasVersion(Last(NewEnough(n, v)), n)
    /\ Begin(t, "load", n, Last(NewEnough(n, v)))
    /\ UNCHANGED <<installed, built, archive>>

(* install unpacks an archive, and tests it in the temporary directory. *)
Install(t, p) ==
    /\ t = "main"
    /\ archive' = p /\ built' \in {built, built \union {temp}}
    /\ Begin(t, "install", Info[p].name, temp)
    /\ UNCHANGED installed

(* test_config on the package.json of the working directory, which need    *)
(* not be that of this thread.  Without one json_load raises.  Building    *)
(* runs pre-install there, and may fail.                                   *)
TestConfig(t) ==
    /\ call[t].pc \in {"load", "install"}
    /\ \/ /\ Holds(cwd) \notin Package \/ ~IsDir(cwd)
          /\ Leave(t, "raised") /\ UNCHANGED built
       \/ /\ Holds(cwd) \in Package /\ IsDir(cwd)
          /\ LET p == Info[Holds(cwd)]
             IN  \/ /\ p.flaw \/ (cwd \notin built /\ ~p.script) \/ p.needs
                    /\ Leave(t, "failed") /\ UNCHANGED built
                 \/ /\ ~p.flaw /\ cwd \notin built /\ p.script
                    /\ \/ Leave(t, "ALL_CLEAN") /\ built' = built \union {cwd}
                       \/ Leave(t, "failed") /\ UNCHANGED built
                 \/ /\ ~p.flaw /\ cwd \in built
                    /\ Leave(t, "ALL_CLEAN") /\ UNCHANGED built
    /\ UNCHANGED <<installed, archive, place>>

------------------------------------------------------------------------------
(* uninstall, in the plugins directory: one match after another, in order, *)
(* until one raises, having no version the expression finds.               *)

Uninstall(t, n) ==
    /\ t = "main"
    /\ Begin(t, "uninstall", n, root)
    /\ UNCHANGED <<installed, built, archive>>

RemoveNext(t) ==
    LET p == First(call[t].left)
    IN  /\ call[t].pc = "uninstall"
        /\ \/ /\ call[t].left # {} /\ HasVersion(p, call[t].name)
              /\ installed' = installed \ {p} /\ built' = built \ {p}
              /\ call' = [call EXCEPT ![t].left = @ \ {p}]
           \/ /\ call[t].left # {} /\ ~HasVersion(p, call[t].name)
              /\ Leave(t, "raised") /\ UNCHANGED <<installed, built>>
           \/ /\ call[t].left = {}
              /\ Leave(t, "ALL_CLEAN") /\ UNCHANGED <<installed, built>>
        /\ UNCHANGED <<archive, place>>

(* Somebody puts a package into the plugins directory (not just while one  *)
(* is being uninstalled).                                                  *)
Place(p) ==
    /\ p \notin installed /\ \A t \in Thread : call[t].pc # "uninstall"
    /\ installed' = installed \union {p}
    /\ built' \in {built, built \union {p}}
    /\ UNCHANGED <<archive, place, call>>

Steps(t) == Enter(t) \/ TestConfig(t) \/ RemoveNext(t) \/ Exit(t)

PluginNext ==
    \/ \E t \in Thread :
        \/ Steps(t)
        \/ \E n \in Name : Run(t, n) \/ Uninstall(t, n) \/ \E v \in {Info[p].version : p \in Package} : Load(t, n, v)
        \/ \E p \in Package : Install(t, p)
    \/ \E p \in Package : Place(p)

Spec == PluginInit /\ [][PluginNext]_pluginVars

------------------------------------------------------------------------------
(* Properties *)

AllRest == \A t \in Thread : Idle(t)

Operation == [pc : {"enter", "load", "install", "uninstall", "exit"},
              op : {"load", "install", "uninstall"}, name : Name,
              dir : Package \union {root, temp}, pwd : Package \union {home, root, temp},
              left : SUBSET Package, code : {"none", "raised", "failed", "ALL_CLEAN"}]

CallTypeOK ==
    /\ installed \subseteq Package
    /\ cwd \in Package \union {home, root, temp}
    /\ call \in [Thread -> {Resting} \union Operation]
PluginTypeOK ==
    /\ CallTypeOK
    /\ built \subseteq installed \union {temp} /\ archive \in Package \union {home}
    /\ path \in Int /\ overlapped \in BOOLEAN /\ missed \in BOOLEAN

(* PluginManager.py, uninstall: "the plugin name(s) to uninstall."  So no  *)
(* plugin is removed but the one that was named.                           *)
UninstallOnlyNamed ==
    [][\A p \in installed \ installed' :
           \E t \in Thread : call[t].pc = "uninstall" /\ call[t].name = Info[p].name]_pluginVars

(* When uninstall returns ALL_CLEAN, no version of the plugin is left for  *)
(* list, run and load to find, whatever other plugins and versions there   *)
(* are between and that the expression cannot read.                        *)
UninstallComplete ==
    [][\A t \in Thread :
           call[t].pc = "uninstall" /\ call'[t].pc = "exit" /\ call'[t].code = "ALL_CLEAN" =>
               call[t].name \notin {Info[p].name : p \in installed}]_pluginVars

(* WorkSpace: when no operation is in progress, sys.path is what it was,   *)
(* however the workspaces of two threads overlapped, unless one was        *)
(* entered whose directory had been removed.                               *)
PathSettles == AllRest /\ ~missed => path = 0

(* The process is back in its working directory as long as no two          *)
(* workspaces overlapped; whatever the operations returned or raised.      *)
HomeAlone == AllRest /\ ~overlapped => cwd = home
==============================================================================
