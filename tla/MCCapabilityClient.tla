-------------------------- MODULE MCCapabilityClient --------------------------
(* One capability, two daemon processes, two connections. *)
EXTENDS CapabilityClient

CONSTANT c1
==============================================================================
