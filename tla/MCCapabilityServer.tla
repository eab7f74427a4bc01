------------------------- MODULE MCCapabilityServer -------------------------
(* Small instances of CapabilityServer for TLC. *)
EXTENDS CapabilityServer, TLC

CONSTANTS camera, v1, s1, s2, u1, u2, c1, c2

OneName == {camera}
MCVersion == {v1}
TwoSigs == {s1, s2}
OneSig == {s1}
OneUsage == {u1}
TwoUsages == {u1, u2}
OneConn == {c1}
TwoConns == {c1, c2}
MCTag == (Conn \X (1..MaxReq)) \union {Silent}

RegisterOnly == {"register", "unregister"}
AllRequests == Kinds
WithPanic == {"register", "unregister", "call", "chain_call"}

Symmetry == Permutations(Name) \union Permutations(ServiceSig)
            \union Permutations(UsageSig) \union Permutations(Conn)
==============================================================================
