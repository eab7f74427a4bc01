---------------------------- MODULE MCControlPanel ----------------------------
(* Two domains and one plugin. *)
EXTENDS ControlPanel

CONSTANTS mail, home, job
==============================================================================
