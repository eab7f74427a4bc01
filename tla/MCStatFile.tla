----------------------------- MODULE MCStatFile -----------------------------
(* The stat file of one plugin, saved from the two threads of the tray. *)
EXTENDS StatFile, TLC

CONSTANTS main, hotkey
Savers == {main, hotkey}
Symmetry == Permutations(Savers)
==============================================================================
