--------------------------- MODULE ServiceRegistry ---------------------------
(***************************************************************************)
(* What the capability daemon promises the programs that use its services: *)
(* a reference-counted table of loaded services.  A caller that registers  *)
(* a service name becomes one of its holders under a fresh handle; the     *)
(* installed version is loaded for the first holder, stays the same for as *)
(* long as somebody holds the service, and is gone with the last holder.   *)
(***************************************************************************)
EXTENDS FiniteSets

CONSTANTS Name,      \* service names
          Handle,    \* handles a registration may return
          Version,   \* versions of a service that may be installed
          None       \* "no such thing"

VARIABLES installed, \* installed[n]: the version on disk, None if there is none
          holders,   \* holders[n]: the handles under which n is in use
          loaded     \* loaded[n]: the version in memory, None if not loaded

vars == <<installed, holders, loaded>>

Init ==
    /\ installed \in [Name -> Version \union {None}]
    /\ holders = [n \in Name |-> {}]
    /\ loaded = [n \in Name |-> None]

(* Somebody installs, upgrades or removes a service on disk. *)
Reconfigure(n, v) ==
    /\ installed' = [installed EXCEPT ![n] = v]
    /\ UNCHANGED <<holders, loaded>>

(* A registration: the first holder of n loads the installed version. *)
Acquire(n, h) ==
    /\ installed[n] # None
    /\ \A m \in Name : h \notin holders[m]
    /\ holders' = [holders EXCEPT ![n] = @ \union {h}]
    /\ loaded' = [loaded EXCEPT ![n] = IF holders[n] = {} THEN installed[n] ELSE @]
    /\ UNCHANGED installed

(* The end of a registration: the last holder takes the service with it. *)
Release(n, h) ==
    /\ h \in holders[n]
    /\ holders' = [holders EXCEPT ![n] = @ \ {h}]
    /\ loaded' = [loaded EXCEPT ![n] = IF holders[n] = {h} THEN None ELSE @]
    /\ UNCHANGED installed

Next ==
    \E n \in Name :
        \/ \E v \in Version \union {None} : Reconfigure(n, v)
        \/ \E h \in Handle : Acquire(n, h) \/ Release(n, h)

Spec == Init /\ [][Next]_vars
==============================================================================
