----------------------------- MODULE MCAppSession -----------------------------
(* A native application - in MCSession one whose own command names pyvdm,  *)
(* so that it is not wrapped - and one without support; two windows.       *)
EXTENDS AppSession

CONSTANTS native, plain, tray, cli, blank, draft, left, right
TwoNames == 1..2
==============================================================================
