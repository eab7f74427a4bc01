-------------------------- MODULE ApplicationManager --------------------------
(***************************************************************************)
(* The registry of applications of core/pyvdm/ApplicationManager.py: each  *)
(* process (the tray, the command line) lists the desktop files and keeps  *)
(* what it found; for most applications it writes a changed copy of the    *)
(* desktop file to ~/.local/share, which all processes share.  The change  *)
(* wraps the command: /bin/sh -c "(which pyvdm && exec pyvdm run ...".     *)
(*                                                                         *)
(* A command is the number of times it is wrapped.  The system has a       *)
(* desktop file of each application, unwrapped; those are only read.       *)
(***************************************************************************)
EXTENDS Integers, FiniteSets

CONSTANTS
    App,
    Native,     \* applications of the category VDM, marked as compatible
    Targeted,   \* those a plugin names as its target
    Own,        \* those with "pyvdm" in the command they come with
    Process,
    ReadsHome,  \* is ~/.local/share read?  (Not if XDG_DATA_DIRS leaves it out.)
    None

ASSUME AppAssumption ==
    /\ Native \subseteq App /\ Targeted \subseteq App /\ Own \subseteq App
    /\ ReadsHome \in BOOLEAN

Absent == [exec |-> -1, whole |-> FALSE]  \* no file, or one without any entry
File == {Absent} \union [exec : Nat, whole : BOOLEAN]

VARIABLES
    home,        \* the desktop files in ~/.local/share
    registry,    \* of each process: the applications it has registered
    proc,        \* what each process is doing
    overlapped   \* history: did two processes ever work at once?

registryVars == <<home, registry, proc, overlapped>>

Resting == [pc |-> "idle"]
AtRest(p) == proc[p].pc = "idle"

RegistryInit ==
    /\ home \in [App -> {Absent, [exec |-> 0, whole |-> TRUE]}]
    /\ registry = [p \in Process |-> [a \in App |-> None]]
    /\ proc = [p \in Process |-> Resting]
    /\ overlapped = FALSE

Begins(p, pc, todo, listed) ==
    /\ AtRest(p)
    /\ proc' = [proc EXCEPT ![p] = [pc |-> pc, todo |-> todo, listed |-> listed, file |-> Absent]]
    /\ overlapped' = (overlapped \/ \E q \in Process \ {p} : ~AtRest(q))

(* list_all_applications: a file lacking an entry does not count. *)
FromHome(a) == ReadsHome /\ home[a].whole
Listed == [a \in App |-> [exec |-> IF FromHome(a) THEN home[a].exec ELSE 0,
                          home |-> FromHome(a)]]

------------------------------------------------------------------------------
(* refresh *)

Kind(a) == IF a \in Native THEN "native" ELSE IF a \in Targeted THEN "plugin" ELSE "generated"

RefreshApps(p) ==
    /\ Begins(p, "refresh", App, Listed)
    /\ UNCHANGED <<home, registry>>

(* The test for "pyvdm" in the command. *)
WrapsAlways(a, exec) == TRUE
Wraps(a, exec) == a \notin Own /\ exec = 0

(* The file is read before it is opened for writing.                       *)
SourceOnceOpen(p, a) == Absent
Source(p, a) == IF proc[p].listed[a].home THEN home[a] ELSE [exec |-> 0, whole |-> TRUE]

(* An application new to the registry is registered; its own dict gets the *)
(* wrapped command.  One without support is left alone then, but later its *)
(* fresh dict does not say so, and its desktop file is changed as well.    *)
Register(p, a) ==
    LET exec == proc[p].listed[a].exec
        new == registry[p][a] = None
        updates == Wraps(a, exec) /\ (new => Kind(a) # "generated")
    IN  /\ proc[p].pc = "refresh" /\ a \in proc[p].todo
        /\ registry' = IF new THEN [registry EXCEPT ![p][a] =
                                       [exec |-> IF updates THEN exec + 1 ELSE exec,
                                        kind |-> Kind(a)]]
                              ELSE registry
        /\ IF updates  \* the file is opened, which empties it
           THEN /\ home' = [home EXCEPT ![a] = Absent]
                /\ proc' = [proc EXCEPT ![p].pc = "write", ![p].todo = @ \ {a},
                                        ![p].file = [app |-> a, exec |-> exec + 1,
                                                     whole |-> Source(p, a).whole, next |-> "refresh"]]
           ELSE /\ proc' = [proc EXCEPT ![p].todo = @ \ {a}]
                /\ UNCHANGED home
        /\ UNCHANGED overlapped

Write(p) ==
    LET file == proc[p].file
    IN  /\ proc[p].pc = "write"
        /\ home' = [home EXCEPT ![file.app] = [exec |-> file.exec, whole |-> file.whole]]
        /\ proc' = [proc EXCEPT ![p].pc = file.next, ![p].file = Absent]
        /\ UNCHANGED <<registry, overlapped>>

------------------------------------------------------------------------------
(* restore_desktop_files, in the directories that are read *)

BeginRestore(p) ==
    /\ Begins(p, "restore", IF ReadsHome THEN App ELSE {}, Listed)
    /\ UNCHANGED <<home, registry>>

RestoresNothing(file) == FALSE
Restores(file) == file.exec > 0
Restore(p, a) ==
    /\ proc[p].pc = "restore" /\ a \in proc[p].todo
    /\ IF Restores(home[a])
       THEN /\ home' = [home EXCEPT ![a] = Absent]
            /\ proc' = [proc EXCEPT ![p].pc = "write", ![p].todo = @ \ {a},
                                    ![p].file = [app |-> a, exec |-> home[a].exec - 1,
                                                 whole |-> home[a].whole, next |-> "restore"]]
       ELSE /\ proc' = [proc EXCEPT ![p].todo = @ \ {a}]
            /\ UNCHANGED home
    /\ UNCHANGED <<registry, overlapped>>

Done(p) ==
    /\ proc[p].pc \in {"refresh", "restore"} /\ proc[p].todo = {}
    /\ proc' = [proc EXCEPT ![p] = Resting]
    /\ UNCHANGED <<home, registry, overlapped>>

(* A process ends, at any step, and its registry with it. *)
End(p) ==
    /\ proc' = [proc EXCEPT ![p] = Resting]
    /\ registry' = [registry EXCEPT ![p] = [a \in App |-> None]]
    /\ UNCHANGED <<home, overlapped>>

RegistryNext ==
    \E p \in Process :
        \/ RefreshApps(p) \/ BeginRestore(p) \/ Write(p) \/ Done(p) \/ End(p)
        \/ \E a \in App : Register(p, a) \/ Restore(p, a)

RegistrySpec == RegistryInit /\ [][RegistryNext]_registryVars

------------------------------------------------------------------------------
(* Properties *)

Busy == [pc : {"refresh", "restore", "write"}, todo : SUBSET App,
         listed : [App -> [exec : Nat, home : BOOLEAN]],
         file : {Absent} \union [app : App, exec : Nat, whole : BOOLEAN,
                                 next : {"refresh", "restore"}]]

RegistryTypeOK ==
    /\ home \in [App -> File]
    /\ registry \in [Process -> [App -> {None} \union
                        [exec : Nat, kind : {"native", "plugin", "generated"}]]]
    /\ proc \in [Process -> {Resting} \union Busy]
    /\ overlapped \in BOOLEAN

(* __update_desktop_file: "if 'pyvdm' not in cmdline".  However often and  *)
(* in how many processes at once the files are refreshed and restored, no  *)
(* command is wrapped twice, on disk or in a registry.                     *)
NeverNested ==
    /\ \A a \in App : home[a].exec <= 1
    /\ \A p \in Process, a \in App : registry[p][a] # None => registry[p][a].exec <= 1

(* "restore all desktop files to original": where ~/.local/share is read,  *)
(* no command is wrapped any more when a restoration is done that no other *)
(* process interfered with.                                                *)
RestoreUndoes ==
    [][\A p \in Process :
           proc[p].pc = "restore" /\ AtRest(p)' /\ proc[p].todo = {} /\ ReadsHome /\ ~overlapped =>
               \A a \in App : home[a].exec <= 0]_registryVars

(* A desktop file is rewritten with all its entries: none that lacks its   *)
(* name or icon is left, unless two processes rewrote one at once - also   *)
(* when a process ends with the file just emptied.                         *)
EntriesKept == ~overlapped => \A a \in App : home[a] # Absent => home[a].whole
==============================================================================
