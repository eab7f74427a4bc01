------------------------------ MODULE OpenDomain ------------------------------
(***************************************************************************)
(* What opening and closing promise to everybody who reads ~/.vdm/.stat,   *)
(* the manager itself, the tray and "vdm run": the name there is that of   *)
(* the domain whose sandbox runs, if any does.  A domain is opened when no *)
(* sandbox runs, and the name and the sandbox come together; closing takes *)
(* both away.  A restart of the machine ends the sandbox and leaves the    *)
(* name.                                                                   *)
(***************************************************************************)
CONSTANTS Domain, None

VARIABLES name,  \* the name that can be read, None if there is none
          alive  \* the domains whose sandbox runs

vars == <<name, alive>>

Init == name = None /\ alive = {}

Open(d) ==
    /\ alive = {}
    /\ name' = d /\ alive' = {d}

Close ==
    /\ name # None
    /\ name' = None /\ alive' = {}

Restart ==
    /\ alive' = {}
    /\ UNCHANGED name

Next == (\E d \in Domain : Open(d)) \/ Close \/ Restart

Spec == Init /\ [][Next]_vars
==============================================================================
