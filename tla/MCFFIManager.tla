---------------------------- MODULE MCFFIManager ----------------------------
(* A small instance of FFIManager for TLC. *)
EXTENDS FFIManager, TLC

CONSTANTS camera, mail, v1, v2, s1, s2, s3, u1, u2, t1

MCName == {camera, mail}
MCVersion == {v1, v2}
MCServiceSig == {s1, s2, s3}
MCUsageSig == {u1, u2}
MCTag == {t1}

Symmetry == Permutations(MCName) \union Permutations(MCVersion)
            \union Permutations(MCServiceSig) \union Permutations(MCUsageSig)
==============================================================================
