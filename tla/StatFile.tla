------------------------------ MODULE StatFile ------------------------------
(***************************************************************************)
(* One StatFile object of core/pyvdm/utils.py, as the saves of             *)
(* manager.py use it: getFile copies the stat file to a temporary file,    *)
(* the plugin's onSave rewrites that, putFile moves it back.  The object   *)
(* keeps the name of the temporary file in one attribute, which a save on  *)
(* the main thread (menu, autosave timer) and one on the hot key thread    *)
(* share.                                                                  *)
(*                                                                         *)
(* Files are numbered.  A name is bound to a file by linked, a process     *)
(* that has opened a file keeps writing to it wherever it is moved.  The   *)
(* contents are 0 for an empty file, n for the n-th session written; /tmp  *)
(* is on the file system of the stat file, so that moving renames.         *)
(***************************************************************************)
EXTENDS Naturals, FiniteSets

CONSTANTS Saver,     \* the threads that save
          Fails,     \* may onSave report an error?
          MaxFile,   \* bound: no save starts once that many files were made
          None

ASSUME StatFileAssumption ==
    /\ None \notin Nat /\ Fails \in BOOLEAN /\ MaxFile \in Nat \ {0}
    /\ Saver # {} /\ IsFiniteSet(Saver)

File == 1..MaxFile + 2 * Cardinality(Saver)  \* a save makes at most two more
Name == File        \* mkstemp names each new file after itself

VARIABLES
    stat_file,  \* the file the stat file's name is bound to
    linked,     \* the file a temporary name is bound to, None if there is none
    data,       \* what is in each file
    made,       \* how many files have been made
    temp_file,  \* the attribute: a name, None before the first getFile
    pc, path, fd,   \* of each saver: where it is, the name and file it works on
    new,        \* of each saver: the session it is saving
    time,       \* history: sessions written
    failed      \* history: has a callback failed?

object == <<stat_file, linked, data, made, temp_file>>
saver == <<pc, path, fd, new>>
vars == <<object, saver, time, failed>>

Init ==
    /\ stat_file = 1 /\ made = 1
    /\ linked = [n \in Name |-> None]
    /\ data = [f \in File |-> IF f = 1 THEN 1 ELSE 0]
    /\ temp_file = None
    /\ pc = [s \in Saver |-> "idle"]
    /\ path = [s \in Saver |-> None] /\ fd = [s \in Saver |-> None]
    /\ new = [s \in Saver |-> 1]
    /\ time = 1 /\ failed = FALSE

At(s, from, to) == pc[s] = from /\ pc' = [pc EXCEPT ![s] = to]
Bound(n) == IF n = None THEN None ELSE linked[n]

(* getFile: mkstemp makes an empty file; the copy and the return value     *)
(* look up the attribute again.                                            *)
MakeTemp(s) ==
    /\ At(s, "idle", "copy")
    /\ made < MaxFile
    /\ made' = made + 1
    /\ linked' = [linked EXCEPT ![made'] = made']
    /\ temp_file' = made'
    /\ UNCHANGED <<stat_file, data, path, fd, new, time, failed>>

(* Opening a name for writing empties its file, or makes one. *)
Opens(n, content) ==
    IF linked[n] # None
    THEN data' = [data EXCEPT ![linked[n]] = content] /\ UNCHANGED <<linked, made>>
    ELSE /\ made' = made + 1
         /\ linked' = [linked EXCEPT ![n] = made']
         /\ data' = [data EXCEPT ![made'] = content]

CopyToTemp(s) ==
    /\ At(s, "copy", "open")
    /\ Opens(temp_file, data[stat_file])
    /\ path' = [path EXCEPT ![s] = temp_file]
    /\ UNCHANGED <<stat_file, temp_file, fd, new, time, failed>>

(* onSave, a plugin's: opens the path it got for writing, then writes. *)
Open(s) ==
    /\ At(s, "open", "write")
    /\ Opens(path[s], 0)
    /\ fd' = [fd EXCEPT ![s] = linked'[path[s]]]
    /\ UNCHANGED <<stat_file, temp_file, path, new, time, failed>>

Write(s) ==
    /\ At(s, "write", "put")
    /\ time' = time + 1
    /\ new' = [new EXCEPT ![s] = time']
    /\ data' = [data EXCEPT ![fd[s]] = time']
    /\ UNCHANGED <<stat_file, linked, made, temp_file, path, fd, failed>>

SaveFails(s) ==
    /\ Fails
    /\ At(s, "open", "idle")
    /\ failed' = TRUE
    /\ UNCHANGED <<object, path, fd, new, time>>

(* putFile moves what the attribute names by now.  If that is gone it      *)
(* raises, and executeBlade swallows it: the save reports success.         *)
UnlinkThenMove(n) ==
    /\ stat_file' = Bound(n)
    /\ linked' = [linked EXCEPT ![n] = None]
Move(n) ==
    /\ stat_file' = IF Bound(n) = None THEN stat_file ELSE Bound(n)
    /\ linked' = [linked EXCEPT ![n] = None]
PutFile(s) ==
    /\ At(s, "put", "idle")
    /\ Move(temp_file)
    /\ UNCHANGED <<data, made, temp_file, path, fd, new, time, failed>>

Next == \E s \in Saver :
    MakeTemp(s) \/ CopyToTemp(s) \/ Open(s) \/ Write(s) \/ SaveFails(s) \/ PutFile(s)

Spec == Init /\ [][Next]_vars

------------------------------------------------------------------------------
(* Properties *)

AllIdle == \A s \in Saver : pc[s] = "idle"

(* However two saves interleave: once both are over, and unless a plugin   *)
(* failed, the stat file is there and holds a complete session, one of     *)
(* those the last saves wrote.                                             *)
SettlesOnASession ==
    AllIdle /\ ~failed =>
        /\ stat_file # None
        /\ \E s \in Saver : data[stat_file] = new[s]
==============================================================================
