------------------------------ MODULE AppSession ------------------------------
(***************************************************************************)
(* Saving, resuming and closing the windows of one application, by the     *)
(* classes ProbedCompatibility and DefaultCompatibility which the tray     *)
(* makes from an entry of its registry.  The application is outside the    *)
(* code: it shows windows, each with a state and a place, and answers      *)
(* Save, Resume and Close.  Windows are in the order of their bus names;   *)
(* one that appears has any free name.                                     *)
(*                                                                         *)
(* From then on the files on disk do not matter to the object; the steps   *)
(* of ApplicationManager come before.                                      *)
(***************************************************************************)
EXTENDS ApplicationManager

CONSTANTS
    Tray,      \* the process
    Name,      \* names of windows: 1..n
    State, Fresh,  \* what windows show; what a new one shows
    Place,
    MaxTurns   \* bound: operations on the session

ASSUME SessionAssumption ==
    /\ Tray \in Process /\ Fresh \in State
    /\ Name \subseteq Nat /\ IsFiniteSet(Name)
    /\ \A w \in [state : State, place : Place] : w # None
    /\ MaxTurns \in Nat

VARIABLES
    object,     \* [kind, exec]: the object made, None before
    windows,    \* of each name, [state, place], or None
    coming,     \* programs started whose window has not appeared
    file,       \* the session: a set of records, {} also if empty, or Torn
    op,         \* the step of an operation, "none" between operations
    record,     \* new_stats: the places of the states on record
    remaining,  \* those of them no window has
    old,        \* old_stats: windows that are not needed
    pairs,      \* the states resumed, of each window
    kept,       \* history: the windows found to need no change
    disturbed,  \* history: did the user or the time-out come in between?
    turns, result

local == <<record, remaining, old, kept, pairs, disturbed>>
sessionVars == <<object, windows, coming, file, op, local, turns, result>>
vars == <<registryVars, sessionVars>>

Torn == {None}  \* what cannot be read as JSON
Shown == {n \in Name : windows[n] # None}
RecordsAll(W) == {W[n] : n \in Name}
Records(W) == {W[n] : n \in {m \in Name : W[m] # None}}
NoPlaces == [s \in {} |-> None]

SessionInit ==
    /\ RegistryInit
    /\ object = None
    /\ windows = [n \in Name |-> None] /\ coming = 0
    /\ file \in {{}, Torn} /\ op = "none"
    /\ record = NoPlaces /\ remaining = {} /\ old = {} /\ kept = {}
    /\ pairs = NoPlaces /\ disturbed = FALSE
    /\ turns = 0 /\ result = "none"

(* instantiate_plugin.  A wrapped command starts with /bin/sh. *)
Program(exec) == exec = 0
Instantiate(a) ==
    /\ object = None /\ \A p \in Process : AtRest(p)
    /\ registry[Tray][a] # None /\ registry[Tray][a].kind # "plugin"
    /\ object' = registry[Tray][a]
    /\ UNCHANGED <<windows, coming, file, op, local, turns, result>>

Goto(step) == op' = step /\ UNCHANGED <<object, turns, result>>
Return(code) ==
    /\ op' = "none" /\ result' = code
    /\ record' = NoPlaces /\ remaining' = {} /\ old' = {} /\ kept' = {}
    /\ pairs' = NoPlaces /\ disturbed' = FALSE
    /\ UNCHANGED <<object, turns>>
Called(kind) ==
    /\ object # None /\ object.kind = kind
    /\ op = "none" /\ turns < MaxTurns /\ turns' = turns + 1
    /\ UNCHANGED object

------------------------------------------------------------------------------
(* ProbedCompatibility *)

OnSave ==
    /\ Called("native")
    /\ file' = Records(windows) /\ result' = "saved"
    /\ UNCHANGED <<windows, coming, op, local>>

OnClose ==
    /\ Called("native")
    /\ windows' = [n \in Name |-> None] /\ result' = "closed"
    /\ UNCHANGED <<coming, file, op, local>>

(* onResume keys the records by state: of two with one state, one is left. *)
OnResume ==
    /\ Called("native")
    /\ \/ file = {} /\ result' = "clean" /\ UNCHANGED <<op, local>>
       \/ file = Torn /\ result' = "error" /\ UNCHANGED <<op, local>>
       \/ /\ file \notin {{}, Torn}
          /\ record' \in {f \in [{r.state : r \in file} -> Place] :
                            \A s \in DOMAIN f : [state |-> s, place |-> f[s]] \in file}
          /\ op' = "match" /\ result' = "none"
          /\ disturbed' = (coming > 0)
          /\ UNCHANGED <<remaining, old, kept, pairs>>
    /\ UNCHANGED <<windows, coming, file>>

(* Of the windows with one state, the last counts; where it is on record,  *)
(* it is put in its place and kept.                                        *)
Last == {n \in Shown : \A m \in Shown : windows[m].state = windows[n].state => m <= n}
AsRecorded(s) == [state |-> s, place |-> record[s]]
Stats == {windows[n].state : n \in Shown}
Match ==
    /\ op = "match"
    /\ kept' = {n \in Last : windows[n].state \in DOMAIN record}
    /\ old' = Last \ kept'
    /\ remaining' = DOMAIN record \ Stats
    /\ windows' = [n \in Name |-> IF n \in kept' THEN AsRecorded(windows[n].state) ELSE windows[n]]
    /\ disturbed' = (disturbed \/ Cardinality(Stats) < Cardinality(Shown))
    /\ Goto("create")
    /\ UNCHANGED <<coming, file, record, pairs>>

Missing == Cardinality(remaining) - Cardinality(old)
Create ==
    /\ op = "create" /\ remaining # {}
    /\ coming' = IF Program(object.exec) /\ Missing > 0 THEN coming + Missing ELSE coming
    /\ Goto("wait")
    /\ UNCHANGED <<windows, file, local>>

CloseNothing ==
    /\ op = "create" /\ remaining = {}
    /\ Return("clean")
    /\ UNCHANGED <<windows, coming, file>>
CloseOld ==
    /\ op = "create" /\ remaining = {}
    /\ windows' = [n \in Name |-> IF n \in old THEN None ELSE windows[n]]
    /\ Return("clean")
    /\ UNCHANGED <<coming, file>>

(* Until as many windows are listed as states remain, or for a second.  (3 *)
(* is the value retry_with_timeout returns if listing them raises.)        *)
Wait ==
    /\ op = "wait"
    /\ \/ Cardinality(Shown) = Cardinality(remaining) /\ UNCHANGED disturbed
       \/ Cardinality(Shown) # Cardinality(remaining) /\ disturbed' = (disturbed \/ coming > 0)
    /\ Goto("resume")
    /\ UNCHANGED <<windows, coming, file, record, remaining, old, kept, pairs>>

(* zip(_remaining, app_ifaces): the states, in some order, go to the first *)
(* windows listed, until one of both is used up.                           *)
FirstOf(S, k) == {n \in S : Cardinality({m \in S : m < n}) < k}
Zips == {f \in [FirstOf(Shown, Cardinality(remaining)) -> remaining] :
            \A m, n \in DOMAIN f : f[m] = f[n] => m = n}

ResumeStats(f) ==
    /\ op = "resume" /\ f \in Zips
    /\ windows' = [n \in Name |-> IF n \in DOMAIN f THEN [windows[n] EXCEPT !.state = f[n]]
                                                ELSE windows[n]]
    /\ pairs' = f
    /\ Goto("place")
    /\ UNCHANGED <<coming, file, record, remaining, old, kept, disturbed>>

(* The windows are listed again; those that came or went shift the pairs.  *)
(* One whose X window cannot be found raises.                              *)
PlaceWindows(f) ==
    /\ op = "place"
    /\ f = pairs \/ (f \in Zips /\ disturbed)
    /\ \/ /\ DOMAIN f \subseteq Shown
          /\ windows' = [n \in Name |-> IF n \in DOMAIN f THEN [windows[n] EXCEPT !.place = record[f[n]]]
                                                      ELSE windows[n]]
          /\ Return("clean")
       \/ UNCHANGED windows /\ Return("raised")
    /\ UNCHANGED <<coming, file>>

------------------------------------------------------------------------------
(* DefaultCompatibility.  Encrypting raises for every record: the key is   *)
(* no Fernet key; what onSave emptied before is the copy.  onResume reads  *)
(* a session it has closed, if there is one.  killall names the command.   *)

DefaultSave ==
    /\ Called("generated")
    /\ result' = "raised"
    /\ UNCHANGED <<windows, coming, file, op, local>>

DefaultResume ==
    /\ Called("generated")
    /\ result' = IF file = {} THEN "clean" ELSE "error"
    /\ UNCHANGED <<windows, coming, file, op, local>>

DefaultClose ==
    /\ Called("generated")
    /\ windows' = IF Program(object.exec) THEN [n \in Name |-> None] ELSE windows
    /\ result' = "closed"
    /\ UNCHANGED <<coming, file, op, local>>

------------------------------------------------------------------------------
(* The application and its user.  Windows may come at any time, also long  *)
(* after they were started; the user works, opens and closes.              *)

Appear(n) ==
    /\ coming > 0 /\ coming' = coming - 1
    /\ windows[n] = None
    /\ \E pl \in Place : windows' = [windows EXCEPT ![n] = [state |-> Fresh, place |-> pl]]
    /\ disturbed' = (disturbed \/ op \notin {"wait", "none"})
    /\ UNCHANGED <<object, file, op, record, remaining, old, kept, pairs, turns, result>>

User(n) ==
    /\ object # None
    /\ \E w \in {None} \union [state : State, place : Place] :
           w # windows[n] /\ windows' = [windows EXCEPT ![n] = w]
    /\ disturbed' = (op # "none")
    /\ UNCHANGED <<object, coming, file, op, record, remaining, old, kept, pairs, turns, result>>

Next ==
    \/ object = None /\ RegistryNext /\ UNCHANGED sessionVars
    \/ /\ UNCHANGED registryVars
       /\ \/ \E a \in App : Instantiate(a)
          \/ OnSave \/ OnClose \/ OnResume \/ Match \/ Create \/ CloseOld \/ Wait
          \/ \E S \in SUBSET Name : \E f \in [S -> State] : ResumeStats(f) \/ PlaceWindows(f)
          \/ DefaultSave \/ DefaultResume \/ DefaultClose
          \/ \E n \in Name : Appear(n) \/ User(n)

Spec == SessionInit /\ [][Next]_vars

------------------------------------------------------------------------------
(* Properties *)

Record == [state : State, place : Place]
SessionTypeOK ==
    /\ object \in {None} \union [exec : 0..1, kind : {"native", "generated"}]
    /\ windows \in [Name -> {None} \union Record] /\ coming \in Nat
    /\ file \in {Torn} \union SUBSET Record
    /\ op \in {"none", "match", "create", "wait", "resume", "place"}
    /\ record \in UNION {[S -> Place] : S \in SUBSET State}
    /\ remaining \subseteq DOMAIN record /\ old \subseteq Name /\ kept \subseteq Name
    /\ turns \in 0..MaxTurns
    /\ result \in {"none", "saved", "closed", "clean", "error", "raised"}

Resumed == op # "none" /\ op' = "none" /\ result' = "clean" /\ ~disturbed
AsOnRecord == Records(windows)' = {AsRecorded(s) : s \in DOMAIN record}

(* onResume: when nobody comes in between, and the windows include all     *)
(* that are on record, or none and no more than are on record, then those  *)
(* on record are there afterwards, with their states and in their places,  *)
(* and no others - exactly if the program can be started, or no window is  *)
(* missing.  A wrapped command, as most have, starts none.                 *)
StartsMissing == Missing > 0 => Program(object.exec)
ResumeRestores ==
    [][Resumed /\ (remaining = {} \/ (kept = {} /\ Missing >= 0)) =>
           (AsOnRecord <=> StartsMissing)]_vars

(* README.md: the status is restored when the workspace is opened again.   *)
(* The same, of a start from no windows, whatever the registry has made    *)
(* of the command.                                                         *)
ReopenRestores == [][Resumed /\ kept = {} /\ old = {} => AsOnRecord]_vars

(* "keep no-change-needed windows": a window whose state is on record      *)
(* still shows it when others were resumed beside it.                      *)
KeptStaysKept == [][Resumed => \A n \in kept : windows'[n] = windows[n]]_vars
==============================================================================
