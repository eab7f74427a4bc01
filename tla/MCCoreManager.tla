---------------------------- MODULE MCCoreManager ----------------------------
(* Small instances of CoreManager for TLC: two domains with one or two     *)
(* applications.  Operations one after another, with everything that may   *)
(* go wrong but exceptions of callbacks, or with an application that has a *)
(* plugin of its own; or a hot key that does not wait.                     *)
EXTENDS CoreManager

CONSTANTS home, job, editor, browser

TwoDomains == {home, job}
Applications == {editor, browser}

Turns == [enabled |-> Applications, supported |-> {}, threads |-> {"main", "worker"},
          patient |-> TRUE, faults |-> {"fails", "crash", "reboot"}]
OwnPlugin == [Turns EXCEPT !.supported = {browser}, !.faults = {"fails", "unknown"}]
HotKey == [enabled |-> {editor}, supported |-> {}, threads |-> {"hotkey", "worker"},
           patient |-> FALSE, faults |-> {"raises"}]
All == {Turns, OwnPlugin, HotKey}
OnlyOwnPlugin == {[OwnPlugin EXCEPT !.faults = {}]}
OnlyHotKey == {[HotKey EXCEPT !.faults = {}]}
==============================================================================
