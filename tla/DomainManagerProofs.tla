------------------------- MODULE DomainManagerProofs -------------------------
(***************************************************************************)
(* What the domain tree and the sandboxes promise for any names of domains *)
(* and any faults: one sandbox beside .stat, an open domain that stays     *)
(* where it is, no file lost; and, when nothing fails, a sandbox exactly   *)
(* while .stat names it and overlays that come back.                       *)
(***************************************************************************)
EXTENDS DomainManager, TLAPS, SequenceTheorems

------------------------------------------------------------------------------
(* Sandboxes                                                               *)

Places == {"upper", "start", "put_stat", "hung", "fini"}
AtParent == {"lower", "restore"}
StepTyped ==
    \/ step = <<"idle">>
    \/ \E d \in Domain, p \in Places : step = <<p, d>>
    \/ \E d \in Domain, p \in AtParent : \E i \in DOMAIN Parents(d) : step = <<p, d, i>>

(* While an operation is in progress there is no sandbox but the one it    *)
(* has just started.                                                       *)
Sandboxes ==
    /\ StepTyped
    /\ stat \in Domain \union {None} /\ sandboxes \subseteq Domain
    /\ Idle => sandboxes \subseteq {stat}
    /\ step[1] \in {"lower", "upper", "start", "hung", "fini", "restore"} => sandboxes = {}
    /\ step[1] = "put_stat" => sandboxes = {step[2]}

LEMMA StepIs ==
  ASSUME StepTyped
  PROVE  /\ Idle <=> step[1] = "idle"
         /\ ~Idle => step[1] \in Places \union AtParent /\ step[2] \in Domain
BY DEF StepTyped, Idle, Places, AtParent

LEMMA DomainLength ==
  ASSUME NEW d \in Domain
  PROVE  /\ Len(d) \in Nat \ {0} /\ Len(Parents(d)) = Len(d) - 1
         /\ DOMAIN Parents(d) = 1..Len(d)-1
<1>1. d \in Seq(STRING) /\ d # <<>>
  BY DomainAssumption
<1>2. Len(d) \in Nat \ {0}
  BY <1>1, EmptySeq, LenProperties
<1>3. DOMAIN Parents(d) = 1..Len(d)-1 /\ Len(d)-1 \in Nat
  BY <1>2 DEF Parents
<1>4. Parents(d) \in [1..Len(d)-1 -> {SubSeq(d, 1, Len(d) - i) : i \in 1..Len(d)-1}]
  BY DEF Parents
<1>5. Parents(d) \in Seq({SubSeq(d, 1, Len(d) - i) : i \in 1..Len(d)-1})
  BY <1>3, <1>4, SeqDef
<1>6. Len(Parents(d)) \in Nat /\ DOMAIN Parents(d) = 1..Len(Parents(d))
  BY <1>5, LenProperties
<1>7. \A n, m \in Nat : 1..n = 1..m => n = m
  <2> SUFFICES ASSUME NEW n \in Nat, NEW m \in Nat, 1..n = 1..m, n # m PROVE FALSE
    OBVIOUS
  <2>1. n \in 1..n \/ n = 0
    OBVIOUS
  <2>2. m \in 1..m \/ m = 0
    OBVIOUS
  <2>3. n \in 1..m \/ n = 0
    BY <2>1
  <2>4. m \in 1..n \/ m = 0
    BY <2>2
  <2> QED
    BY <2>3, <2>4
<1> QED
  BY <1>2, <1>3, <1>6, <1>7

(* The loops over the parents.                                             *)
LEMMA LoopIs ==
  ASSUME NEW d \in Domain, NEW i \in Nat \ {0}
  PROVE  /\ \/ i \in DOMAIN Parents(d) /\ Lowering(d, i) = <<"lower", d, i>> /\ Restoring(d, i) = <<"restore", d, i>>
            \/ Lowering(d, i) = <<"upper", d>> /\ Restoring(d, i) = <<"idle">>
BY DomainLength DEF Lowering, Restoring

(* The steps of __init_overlay, and those of __fini_overlay.               *)
InitOverlay == \E d \in Domain : PrepareUpper(d) \/ \E i \in DOMAIN Parents(d) : PrepareLower(d, i)
FiniOverlay == \E d \in Domain : RestoreUpper(d) \/ \E i \in DOMAIN Parents(d) : RestoreLower(d, i)

LEMMA OverlaySteps ==
  /\ InitOverlay \/ FiniOverlay => UNCHANGED <<tree, stat, sandboxes, strays, written>>
  /\ InitOverlay => \E d \in Domain :
        /\ step[1] \in {"lower", "upper"} /\ step[2] = d
        /\ \/ step' \in {<<"upper", d>>, <<"start", d>>, <<"idle">>}
           \/ \E i \in DOMAIN Parents(d) : step' = <<"lower", d, i>>
  /\ FiniOverlay => \E d \in Domain :
        /\ step[1] \in {"fini", "restore"} /\ step[2] = d
        /\ step' = <<"idle">> \/ \E i \in DOMAIN Parents(d) : step' = <<"restore", d, i>>
<1>0. \A d \in Domain : \A i \in DOMAIN Parents(d) : i + 1 \in Nat \ {0}
  BY DomainLength
<1>1. ASSUME NEW d \in Domain, PrepareUpper(d)
      PROVE  /\ UNCHANGED <<tree, stat, sandboxes, strays, written>> /\ step = <<"upper", d>>
             /\ step' \in {<<"start", d>>, <<"idle">>}
  BY <1>1 DEF PrepareUpper
<1>2. ASSUME NEW d \in Domain, NEW i \in DOMAIN Parents(d), PrepareLower(d, i)
      PROVE  /\ UNCHANGED <<tree, stat, sandboxes, strays, written>> /\ step = <<"lower", d, i>>
             /\ step' \in {Lowering(d, i + 1), <<"idle">>}
  BY <1>2 DEF PrepareLower
<1>3. ASSUME NEW d \in Domain, RestoreUpper(d)
      PROVE  /\ UNCHANGED <<tree, stat, sandboxes, strays, written>> /\ step = <<"fini", d>>
             /\ step' \in {Restoring(d, 1), <<"idle">>}
  BY <1>3 DEF RestoreUpper
<1>4. ASSUME NEW d \in Domain, NEW i \in DOMAIN Parents(d), RestoreLower(d, i)
      PROVE  /\ UNCHANGED <<tree, stat, sandboxes, strays, written>> /\ step = <<"restore", d, i>>
             /\ step' \in {Restoring(d, i + 1), <<"idle">>}
  BY <1>4 DEF RestoreLower
<1>5. ASSUME NEW d \in Domain, NEW i \in Nat \ {0}, step' \in {Lowering(d, i), <<"idle">>}
      PROVE  \/ step' \in {<<"upper", d>>, <<"start", d>>, <<"idle">>}
             \/ \E j \in DOMAIN Parents(d) : step' = <<"lower", d, j>>
  BY <1>5, LoopIs
<1>6. ASSUME NEW d \in Domain, NEW i \in Nat \ {0}, step' \in {Restoring(d, i), <<"idle">>}
      PROVE  step' = <<"idle">> \/ \E j \in DOMAIN Parents(d) : step' = <<"restore", d, j>>
  BY <1>6, LoopIs
<1>7. InitOverlay \/ FiniOverlay => UNCHANGED <<tree, stat, sandboxes, strays, written>>
  BY <1>1, <1>2, <1>3, <1>4, Zenon DEF InitOverlay, FiniOverlay
<1>8. ASSUME InitOverlay
      PROVE  \E d \in Domain :
                /\ step[1] \in {"lower", "upper"} /\ step[2] = d
                /\ \/ step' \in {<<"upper", d>>, <<"start", d>>, <<"idle">>}
                   \/ \E i \in DOMAIN Parents(d) : step' = <<"lower", d, i>>
  <2>1. ASSUME NEW d \in Domain, PrepareUpper(d)
        PROVE  step[1] = "upper" /\ step[2] = d /\ step' \in {<<"start", d>>, <<"idle">>}
    BY <1>1, <2>1
  <2>2. ASSUME NEW d \in Domain, NEW i \in DOMAIN Parents(d), PrepareLower(d, i)
        PROVE  /\ step[1] = "lower" /\ step[2] = d
               /\ \/ step' \in {<<"upper", d>>, <<"start", d>>, <<"idle">>}
                  \/ \E j \in DOMAIN Parents(d) : step' = <<"lower", d, j>>
    <3>1. step = <<"lower", d, i>> /\ step' \in {Lowering(d, i + 1), <<"idle">>}
      BY <1>2, <2>2
    <3> QED
      BY <1>0, <1>5, <3>1
  <2> QED
    BY <1>8, <2>1, <2>2 DEF InitOverlay
<1>9. ASSUME FiniOverlay
      PROVE  \E d \in Domain :
                /\ step[1] \in {"fini", "restore"} /\ step[2] = d
                /\ step' = <<"idle">> \/ \E i \in DOMAIN Parents(d) : step' = <<"restore", d, i>>
  <2>1. ASSUME NEW d \in Domain, RestoreUpper(d)
        PROVE  /\ step[1] = "fini" /\ step[2] = d
               /\ step' = <<"idle">> \/ \E j \in DOMAIN Parents(d) : step' = <<"restore", d, j>>
    <3>1. step = <<"fini", d>> /\ step' \in {Restoring(d, 1), <<"idle">>}
      BY <1>3, <2>1
    <3> QED
      BY <1>6, <3>1
  <2>2. ASSUME NEW d \in Domain, NEW i \in DOMAIN Parents(d), RestoreLower(d, i)
        PROVE  /\ step[1] = "restore" /\ step[2] = d
               /\ step' = <<"idle">> \/ \E j \in DOMAIN Parents(d) : step' = <<"restore", d, j>>
    <3>1. step = <<"restore", d, i>> /\ step' \in {Restoring(d, i + 1), <<"idle">>}
      BY <1>4, <2>2
    <3> QED
      BY <1>0, <1>6, <3>1
  <2> QED
    BY <1>9, <2>1, <2>2 DEF FiniOverlay
<1> QED
  BY <1>7, <1>8, <1>9

LEMMA BeginsAt ==
  ASSUME NEW d \in Domain, InitializeDomain(d)
  PROVE  /\ Idle /\ MayOpen /\ UNCHANGED <<tree, files, stat, sandboxes, strays>>
         /\ d \in configs \/ "missing" \in Faults
         /\ step' = <<"upper", d>> \/ \E i \in DOMAIN Parents(d) : step' = <<"lower", d, i>>
<1>1. step' = Lowering(d, 1)
  BY DEF InitializeDomain
<1> QED
  BY <1>1, LoopIs DEF InitializeDomain

(* The steps that touch neither .stat nor sandboxes nor begin anything.    *)
Offline ==
    \/ \E d \in Domain : Write(d) \/ Create(d)
    \/ \E d, new \in Domain : Rename(d, new)
    \/ \E d \in Domain, b \in BOOLEAN : Delete(d, b) \/ Fork(d, b)

LEMMA OfflineKeeps == Offline => UNCHANGED <<stat, sandboxes, step>>
BY DEF Offline, Write, Create, Rename, Delete, Fork

LEMMA NextSandboxes == Sandboxes /\ [Next]_vars => Sandboxes'
<1> SUFFICES ASSUME Sandboxes, [Next]_vars PROVE Sandboxes'
  OBVIOUS
<1>0. StepTyped /\ stat \in Domain \union {None} /\ sandboxes \subseteq Domain /\ None \notin Domain
  BY DomainAssumption DEF Sandboxes
<1>1. CASE Offline \/ UNCHANGED vars
  BY <1>1, OfflineKeeps DEF vars, Sandboxes, StepTyped, Idle
<1>2. ASSUME NEW d \in Domain, InitializeDomain(d) PROVE Sandboxes'
  <2>1. Idle /\ sandboxes = {} /\ UNCHANGED <<stat, sandboxes>>
    BY <1>0, <1>2, BeginsAt DEF MayOpen, Sandboxes
  <2>2. step' = <<"upper", d>> \/ \E i \in DOMAIN Parents(d) : step' = <<"lower", d, i>>
    BY <1>2, BeginsAt
  <2> QED
    BY <1>0, <2>1, <2>2 DEF Sandboxes, StepTyped, Idle, Places, AtParent
<1>3. CASE StartSandbox
  <2>1. step[1] = "start" /\ ~Idle /\ step[2] \in Domain /\ sandboxes = {}
    BY <1>0, <1>3, StepIs DEF StartSandbox, Sandboxes
  <2>2. CASE sandboxes' = sandboxes \union {step[2]} /\ step' = <<"put_stat", step[2]>>
    BY <1>0, <1>3, <2>1, <2>2 DEF StartSandbox, Sandboxes, StepTyped, Idle, Places
  <2>3. CASE step' \in {<<"idle">>, <<"hung", step[2]>>} /\ UNCHANGED sandboxes
    BY <1>0, <1>3, <2>1, <2>3 DEF StartSandbox, Sandboxes, StepTyped, Idle, Places
  <2> QED
    BY <1>3, <2>2, <2>3 DEF StartSandbox
<1>4. CASE PutStat
  <2>1. sandboxes = {step[2]} /\ step[2] \in Domain
    BY <1>0, <1>4, StepIs DEF PutStat, Sandboxes
  <2> QED
    BY <1>0, <1>4, <2>1 DEF PutStat, Sandboxes, StepTyped, Idle
<1>5. CASE FinalizeStat
  <2>1. stat \in Domain /\ sandboxes' = {} /\ stat' = None /\ step' = <<"fini", stat>>
    BY <1>0, <1>5 DEF FinalizeStat, Kill, Sandboxes
  <2> QED
    BY <1>0, <2>1 DEF Sandboxes, StepTyped, Idle, Places
<1>6. CASE InitOverlay \/ FiniOverlay
  <2>1. step[1] \in {"lower", "upper", "fini", "restore"} /\ UNCHANGED <<stat, sandboxes>>
    BY <1>6, OverlaySteps
  <2>2. PICK d \in Domain :
          \/ step' \in {<<"upper", d>>, <<"start", d>>, <<"idle">>}
          \/ \E i \in DOMAIN Parents(d) : step' = <<"lower", d, i>> \/ step' = <<"restore", d, i>>
    BY <1>6, OverlaySteps
  <2> QED
    BY <1>0, <2>1, <2>2 DEF Sandboxes, StepTyped, Idle, Places, AtParent
<1>7. CASE Crash
  <2>1. ~Idle /\ step' = <<"idle">> /\ UNCHANGED stat
        /\ sandboxes' = sandboxes \ (IF step[1] = "put_stat" THEN {step[2]} ELSE {})
    BY <1>7 DEF Crash
  <2>2. sandboxes' = {}
    BY <1>0, <2>1, StepIs DEF Sandboxes, Places, AtParent
  <2> QED
    BY <1>0, <2>1, <2>2 DEF Sandboxes, StepTyped, Idle
<1>8. CASE Reboot
  BY <1>0, <1>8 DEF Reboot, Sandboxes, StepTyped, Idle
<1> QED
  BY <1>1, <1>2, <1>3, <1>4, <1>5, <1>6, <1>7, <1>8 DEF Next, Offline, InitOverlay, FiniOverlay

LEMMA InitSandboxes == Init => Sandboxes
BY DEF Init, Sandboxes, StepTyped, Idle

(* Whatever fails at the start of a sandbox, and whenever the manager or   *)
(* the machine goes down, .stat names the only sandbox anybody knows of    *)
(* (initialize_domain, finalize_domain).                                   *)
THEOREM OneSandboxAlways == Spec => []OneSandbox
<1>1. Sandboxes => OneSandbox
  BY DEF Sandboxes, OneSandbox
<1> QED
  BY InitSandboxes, NextSandboxes, <1>1, PTL DEF Spec

(* Every step starts, names, ends or forgets a sandbox as OpenDomain says, *)
(* or does none of it, whatever fails (initialize_domain, finalize_domain, *)
(* putStat).                                                               *)
THEOREM DomainImplements == Spec => RefinesOpenDomain
<1>1. Init => Promise!Init
  BY DEF Init, Promise!Init, Named
<1>2. Sandboxes /\ [Next]_vars => [Promise!Next]_(Promise!vars)
  <2> SUFFICES ASSUME Sandboxes, [Next]_vars PROVE Promise!Next \/ UNCHANGED <<stat, Named>>
    BY DEF Promise!vars
  <2>0. /\ StepTyped /\ stat \in Domain \union {None} /\ None \notin Domain
        /\ step[1] = "put_stat" => Named = {}
        /\ step[1] # "put_stat" => Named = sandboxes
        /\ step'[1] # "put_stat" => Named' = sandboxes'
    BY DomainAssumption DEF Sandboxes, Named
  <2>1. CASE Offline \/ UNCHANGED vars
    BY <2>1, OfflineKeeps DEF vars, Named
  <2>2. ASSUME NEW d \in Domain, InitializeDomain(d) PROVE UNCHANGED <<stat, Named>>
    BY <2>0, <2>2, BeginsAt, StepIs
  <2>3. ASSUME StartSandbox PROVE UNCHANGED <<stat, Named>>
    <3>1. sandboxes = {} /\ Named = {} /\ UNCHANGED stat
      BY <2>0, <2>3 DEF StartSandbox, Sandboxes
    <3>2. CASE sandboxes' = sandboxes \union {step[2]} /\ step' = <<"put_stat", step[2]>>
      BY <3>1, <3>2 DEF Named
    <3>3. CASE step' \in {<<"idle">>, <<"hung", step[2]>>} /\ UNCHANGED sandboxes
      BY <2>0, <3>1, <3>3
    <3> QED
      BY <2>3, <3>1, <3>2, <3>3 DEF StartSandbox
  <2>4. ASSUME PutStat PROVE Promise!Next
    <3>1. step[1] = "put_stat" /\ Named = {} /\ sandboxes = {step[2]}
      BY <2>0, <2>4 DEF PutStat, Sandboxes
    <3>2. step[2] \in Domain
      BY <2>0, <3>1, StepIs
    <3>3. stat' = step[2] /\ Named' = {step[2]}
      BY <2>0, <2>4, <3>1 DEF PutStat
    <3> QED
      BY <3>1, <3>2, <3>3 DEF Promise!Next, Promise!Open
  <2>5. ASSUME FinalizeStat PROVE Promise!Next
    <3>1. stat # None /\ stat' = None /\ sandboxes' = {} /\ step' = <<"fini", stat>>
      BY <2>0, <2>5 DEF FinalizeStat, Kill, Sandboxes
    <3> QED
      BY <2>0, <3>1 DEF Promise!Next, Promise!Close
  <2>6. ASSUME InitOverlay \/ FiniOverlay PROVE UNCHANGED <<stat, Named>>
    <3>1. step[1] \in {"lower", "upper", "fini", "restore"} /\ UNCHANGED <<stat, sandboxes>>
      BY <2>6, OverlaySteps
    <3>2. PICK d \in Domain :
            \/ step' \in {<<"upper", d>>, <<"start", d>>, <<"idle">>}
            \/ \E i \in DOMAIN Parents(d) : step' = <<"lower", d, i>> \/ step' = <<"restore", d, i>>
      BY <2>6, OverlaySteps
    <3> QED
      BY <2>0, <3>1, <3>2
  <2>7. ASSUME Crash PROVE UNCHANGED <<stat, Named>>
    <3>1. ~Idle /\ step' = <<"idle">> /\ UNCHANGED stat
          /\ sandboxes' = sandboxes \ (IF step[1] = "put_stat" THEN {step[2]} ELSE {})
      BY <2>7 DEF Crash
    <3> QED
      BY <2>0, <3>1 DEF Named
  <2>8. ASSUME Reboot PROVE Promise!Next
    BY <2>0, <2>8 DEF Reboot, Promise!Next, Promise!Restart
  <2> QED
    BY <2>1, <2>2, <2>3, <2>4, <2>5, <2>6, <2>7, <2>8 DEF Next, Offline, InitOverlay, FiniOverlay
<1> QED
  BY <1>1, <1>2, InitSandboxes, NextSandboxes, PTL DEF Spec, RefinesOpenDomain, Promise!Spec

(* Without faults the sandbox of the open domain runs as well.             *)
NoFaults == Faults \subseteq {"missing"}
Matching ==
    /\ Idle => sandboxes = {stat} \ {None}
    /\ step[1] \in {"lower", "upper", "start", "fini", "restore"} => stat = None
    /\ step[1] # "hung"

LEMMA NextMatching ==
  ASSUME NoFaults PROVE Sandboxes /\ Matching /\ [Next]_vars => Matching'
<1> SUFFICES ASSUME Sandboxes, Matching, [Next]_vars PROVE Matching'
  OBVIOUS
<1>0. StepTyped /\ stat \in Domain \union {None} /\ None \notin Domain
  BY DomainAssumption DEF Sandboxes
<1>1. CASE Offline \/ UNCHANGED vars
  BY <1>1, OfflineKeeps DEF vars, Matching, Idle
<1>2. ASSUME NEW d \in Domain, InitializeDomain(d) PROVE Matching'
  <2>1. Idle /\ stat = None /\ UNCHANGED <<stat, sandboxes>>
    BY <1>0, <1>2, BeginsAt DEF MayOpen, Matching
  <2>2. step' = <<"upper", d>> \/ \E i \in DOMAIN Parents(d) : step' = <<"lower", d, i>>
    BY <1>2, BeginsAt
  <2> QED
    BY <2>1, <2>2 DEF Matching, Idle
<1>3. CASE StartSandbox
  BY <1>3 DEF StartSandbox, Matching, NoFaults, Idle
<1>4. CASE PutStat
  <2>1. sandboxes = {step[2]} /\ step[2] \in Domain
    BY <1>0, <1>4, StepIs DEF PutStat, Sandboxes
  <2> QED
    BY <1>0, <1>4, <2>1 DEF PutStat, Matching, Idle
<1>5. CASE FinalizeStat
  BY <1>0, <1>5 DEF FinalizeStat, Matching, Idle
<1>6. CASE InitOverlay \/ FiniOverlay
  <2>1. step[1] \in {"lower", "upper", "fini", "restore"} /\ UNCHANGED <<stat, sandboxes>>
    BY <1>6, OverlaySteps
  <2>2. PICK d \in Domain :
          \/ step' \in {<<"upper", d>>, <<"start", d>>, <<"idle">>}
          \/ \E i \in DOMAIN Parents(d) : step' = <<"lower", d, i>> \/ step' = <<"restore", d, i>>
    BY <1>6, OverlaySteps
  <2>3. stat = None /\ sandboxes = {}
    BY <2>1 DEF Sandboxes, Matching
  <2> QED
    BY <2>1, <2>2, <2>3 DEF Matching, Idle
<1>7. ~Crash /\ ~Reboot
  BY DEF Crash, Reboot, NoFaults
<1> QED
  BY <1>1, <1>2, <1>3, <1>4, <1>5, <1>6, <1>7 DEF Next, Offline, InitOverlay, FiniOverlay

(* As long as nothing fails or goes down, the sandbox of a domain runs     *)
(* exactly while .stat names it.                                           *)
THEOREM SandboxFollowsStat == ASSUME NoFaults PROVE Spec => []SandboxMatchesStat
<1>1. Init => Matching
  BY DEF Init, Matching, Idle
<1>2. Matching => SandboxMatchesStat
  BY DEF Matching, SandboxMatchesStat
<1>3. Sandboxes /\ Matching /\ [Next]_vars => Matching'
  BY NextMatching
<1> QED
  BY InitSandboxes, NextSandboxes, <1>1, <1>2, <1>3, PTL DEF Spec

------------------------------------------------------------------------------
(* The tree                                                                *)

Upto(d, k) == SubSeq(d, 1, k)
Closed(D) == \A d \in D : \A k \in 1..Len(d) : Upto(d, k) \in D

LEMMA DomainIs ==
  ASSUME NEW d \in Domain
  PROVE  d \in Seq(STRING) /\ Len(d) \in Nat \ {0}
BY DomainAssumption, EmptySeq, LenProperties

LEMMA UptoIs ==
  ASSUME NEW d \in Seq(STRING), NEW k \in 0..Len(d)
  PROVE  /\ Upto(d, k) \in Seq(STRING) /\ Len(Upto(d, k)) = k
         /\ \A i \in 1..k : Upto(d, k)[i] = d[i]
         /\ k = Len(d) => Upto(d, k) = d
<1>1. Len(d) \in Nat /\ \A i \in 1..Len(d) : d[i] \in STRING
  BY LenProperties, ElementOfSeq
<1>2. \A i \in 1..k : d[i] \in STRING
  BY <1>1
<1>3. /\ Upto(d, k) \in Seq(STRING) /\ Len(Upto(d, k)) = k
      /\ \A i \in 1..k : Upto(d, k)[i] = d[i]
  BY <1>1, <1>2, SubSeqProperties DEF Upto
<1> QED
  BY <1>3, SubSeqFull DEF Upto

(* An ancestor of an ancestor is an ancestor.                              *)
LEMMA UptoUpto ==
  ASSUME NEW d \in Seq(STRING), NEW k \in 0..Len(d), NEW j \in 0..k
  PROVE  Upto(Upto(d, k), j) = Upto(d, j)
<1>1. Len(d) \in Nat
  BY LenProperties
<1>2. Upto(d, k) \in Seq(STRING) /\ Len(Upto(d, k)) = k /\ \A i \in 1..k : Upto(d, k)[i] = d[i]
  BY <1>1, UptoIs
<1>3. /\ Upto(Upto(d, k), j) \in Seq(STRING) /\ Len(Upto(Upto(d, k), j)) = j
      /\ \A i \in 1..j : Upto(Upto(d, k), j)[i] = Upto(d, k)[i]
  BY <1>1, <1>2, UptoIs
<1>4. j \in 0..Len(d)
  BY <1>1
<1>5. /\ Upto(d, j) \in Seq(STRING) /\ Len(Upto(d, j)) = j
      /\ \A i \in 1..j : Upto(d, j)[i] = d[i]
  BY <1>4, UptoIs
<1>6. \A i \in 1..j : Upto(Upto(d, k), j)[i] = Upto(d, j)[i]
  BY <1>1, <1>2, <1>3, <1>5
<1> QED
  BY <1>3, <1>5, <1>6, SeqEqual

LEMMA RelativeIs ==
  ASSUME NEW d \in Domain, NEW e \in Domain
  PROVE  IsRelativeTo(e, d) <=> Len(d) <= Len(e) /\ Upto(e, Len(d)) = d
BY DomainIs, SubSeqFull DEF IsRelativeTo, IsPrefix, Upto

(* What is below an ancestor of d is below no less than d is.              *)
LEMMA RelativeUp ==
  ASSUME NEW d \in Domain, NEW e \in Domain, NEW k \in 1..Len(e),
         Upto(e, k) \in Domain, IsRelativeTo(Upto(e, k), d)
  PROVE  IsRelativeTo(e, d)
<1>1. e \in Seq(STRING) /\ Len(e) \in Nat /\ Len(d) \in Nat
  BY DomainIs
<1>2. Len(Upto(e, k)) = k
  BY <1>1, UptoIs
<1>3. Len(d) <= k /\ Upto(Upto(e, k), Len(d)) = d
  BY <1>2, RelativeIs
<1>4. Upto(e, Len(d)) = d
  BY <1>1, <1>3, UptoUpto
<1> QED
  BY <1>1, <1>3, <1>4, RelativeIs

LEMMA ParentsAre ==
  ASSUME NEW d \in Domain
  PROVE  Range(Parents(d)) = {Upto(d, k) : k \in 1..Len(d)-1}
<1>1. Len(d) \in Nat \ {0}
  BY DomainIs
<1>2. /\ DOMAIN Parents(d) = 1..Len(d)-1
      /\ \A i \in 1..Len(d)-1 : Parents(d)[i] = Upto(d, Len(d) - i)
  BY DEF Parents, Upto
<1>3. \A i \in 1..Len(d)-1 : Len(d) - i \in 1..Len(d)-1 /\ Len(d) - (Len(d) - i) = i
  BY <1>1
<1>4. ASSUME NEW p \in Range(Parents(d)) PROVE p \in {Upto(d, k) : k \in 1..Len(d)-1}
  <2>1. PICK i \in 1..Len(d)-1 : p = Parents(d)[i]
    BY <1>2, <1>4 DEF Range
  <2> QED
    BY <1>2, <1>3, <2>1
<1>5. ASSUME NEW k \in 1..Len(d)-1 PROVE Upto(d, k) \in Range(Parents(d))
  <2>1. Len(d) - k \in DOMAIN Parents(d) /\ Parents(d)[Len(d) - k] = Upto(d, k)
    BY <1>1, <1>2, <1>3
  <2> QED
    BY <2>1 DEF Range
<1> QED
  BY <1>4, <1>5

LEMMA ParentsIn ==
  ASSUME NEW d \in Domain
  PROVE  /\ Range(Parents(d)) \subseteq Domain
         /\ \A i \in DOMAIN Parents(d) : Parents(d)[i] \in Domain
<1>1. \A k \in 1..Len(d) : Upto(d, k) \in Domain
  BY DomainAssumption DEF Upto
<1>2. Range(Parents(d)) \subseteq Domain
  BY <1>1, ParentsAre, DomainIs
<1> QED
  BY <1>2 DEF Range

LEMMA ClosedParents ==
  ASSUME NEW d \in Domain, NEW D, Closed(D), d \in D
  PROVE  Range(Parents(d)) \subseteq D
BY ParentsAre, DomainIs DEF Closed

(* Every directory has its parents, every config its directory; the open   *)
(* domain and the one being opened or closed have a config.                *)
Tree ==
    /\ dirs \subseteq Domain /\ configs \subseteq dirs /\ Closed(dirs)
    /\ stat # None => stat \in configs
    /\ step[1] # "idle" => step[2] \in configs

LEMMA CreateClosed ==
  ASSUME NEW d \in Domain, dirs \subseteq Domain, Closed(dirs)
  PROVE  Closed(dirs \union {d} \union Range(Parents(d)))
<1>1. d \in Seq(STRING) /\ Len(d) \in Nat \ {0}
  BY DomainIs
<1>2. \A k \in 1..Len(d) : Upto(d, k) \in {d} \union Range(Parents(d))
  <2> TAKE k \in 1..Len(d)
  <2>1. CASE k = Len(d)
    BY <1>1, <2>1, UptoIs
  <2>2. CASE k # Len(d)
    BY <1>1, <2>2, ParentsAre
  <2> QED
    BY <2>1, <2>2
<1>3. ASSUME NEW e \in Range(Parents(d)), NEW k \in 1..Len(e)
      PROVE  Upto(e, k) \in {d} \union Range(Parents(d))
  <2>1. PICK j \in 1..Len(d)-1 : e = Upto(d, j)
    BY ParentsAre
  <2>2. Len(e) = j /\ Upto(e, k) = Upto(d, k)
    BY <1>1, <2>1, UptoIs, UptoUpto
  <2> QED
    BY <1>1, <1>2, <2>2
<1> QED
  BY <1>2, <1>3 DEF Closed

LEMMA DeleteClosed ==
  ASSUME NEW d \in Domain, dirs \subseteq Domain, Closed(dirs)
  PROVE  Closed(dirs \ Subtree(d))
<1> SUFFICES ASSUME NEW e \in dirs \ Subtree(d), NEW k \in 1..Len(e)
             PROVE  Upto(e, k) \in dirs \ Subtree(d)
  BY DEF Closed
<1>1. e \in Domain /\ Upto(e, k) \in dirs /\ Upto(e, k) \in Domain
  BY DEF Closed
<1> QED
  BY <1>1, RelativeUp DEF Subtree

LEMMA ForkNameIs ==
  ASSUME NEW d \in Domain, NEW copy \in BOOLEAN, NEW child \in Domain, ForkName(d, copy, child)
  PROVE  IF copy THEN Len(child) = Len(d) /\ Front(child) = Front(d)
                 ELSE Len(child) = Len(d) + 1 /\ Front(child) = d
<1> DEFINE names == IF copy THEN CopyNames[d] ELSE DeriveNames[d]
<1>1. child \in Range(names)
  BY DEF ForkName, Range
<1> QED
  BY <1>1, DomainAssumption

LEMMA ForkClosed ==
  ASSUME NEW d \in dirs, dirs \subseteq Domain, Closed(dirs), NEW copy \in BOOLEAN,
         NEW child \in Domain, ForkName(d, copy, child)
  PROVE  Closed(dirs \union {child})
<1>1. Len(child) \in Nat \ {0} /\ child \in Seq(STRING) /\ d \in Domain
  BY DomainIs
<1>2. d \in Seq(STRING) /\ Len(d) \in Nat \ {0}
  BY <1>1, DomainIs
<1>3. Front(child) = Upto(child, Len(child) - 1) /\ Front(d) = Upto(d, Len(d) - 1)
  BY DEF Front, Upto
<1>4. \A k \in 1..Len(child)-1 : Upto(child, k) = Upto(d, k) /\ k \in 1..Len(d)
  <2> TAKE k \in 1..Len(child)-1
  <2>1. Upto(child, k) = Upto(Front(child), k)
    BY <1>1, <1>3, UptoUpto
  <2>2. CASE copy
    <3>1. Len(child) = Len(d) /\ Front(child) = Front(d)
      BY <1>1, <2>2, ForkNameIs
    <3>2. Upto(Front(d), k) = Upto(d, k)
      BY <1>2, <1>3, <3>1, UptoUpto
    <3> QED
      BY <1>2, <2>1, <3>1, <3>2
  <2>3. CASE ~copy
    <3>1. Len(child) = Len(d) + 1 /\ Front(child) = d
      BY <1>1, <2>3, ForkNameIs
    <3> QED
      BY <1>2, <2>1, <3>1
  <2> QED
    BY <2>2, <2>3
<1>5. \A k \in 1..Len(child) : Upto(child, k) \in dirs \union {child}
  <2> TAKE k \in 1..Len(child)
  <2>1. CASE k = Len(child)
    BY <1>1, <2>1, UptoIs
  <2>2. CASE k # Len(child)
    BY <1>1, <1>4, <2>2 DEF Closed
  <2> QED
    BY <2>1, <2>2
<1> QED
  BY <1>5 DEF Closed

(* A renamed directory has the ancestors of the old name, and those below  *)
(* it renamed in the same way.                                             *)
LEMMA RenamedIs ==
  ASSUME NEW d \in Domain, NEW e \in Domain, NEW new \in Domain,
         IsRelativeTo(e, d), Len(new) = Len(d)
  PROVE  /\ Renamed(e, d, new) \in Seq(STRING) /\ Len(Renamed(e, d, new)) = Len(e)
         /\ \A i \in 1..Len(e) :
                Renamed(e, d, new)[i] = IF i <= Len(d) THEN new[i] ELSE e[i]
<1> DEFINE rest == SubSeq(e, Len(d) + 1, Len(e))
<1>1. /\ e \in Seq(STRING) /\ new \in Seq(STRING) /\ Len(d) \in Nat /\ Len(e) \in Nat
      /\ Len(d) <= Len(e)
  BY DomainIs, RelativeIs
<1>2. \A i \in 1..Len(e) : e[i] \in STRING
  BY <1>1, ElementOfSeq
<1>3. \A i \in (Len(d)+1)..Len(e) : e[i] \in STRING
  BY <1>1, <1>2
<1>4. /\ rest \in Seq(STRING) /\ Len(rest) = Len(e) - Len(d)
      /\ \A i \in 1..Len(e) - Len(d) : rest[i] = e[Len(d) + i]
  <2>1. Len(d) + 1 \in Int /\ Len(e) \in Int
    BY <1>1
  <2>2. /\ rest \in Seq(STRING)
        /\ Len(rest) = IF Len(d) + 1 <= Len(e) THEN Len(e) - (Len(d) + 1) + 1 ELSE 0
        /\ \A i \in 1..Len(e) - (Len(d) + 1) + 1 : rest[i] = e[(Len(d) + 1) + i - 1]
    BY <1>3, <2>1, SubSeqProperties
  <2> HIDE DEF rest
  <2>3. Len(rest) = Len(e) - Len(d) /\ Len(e) - (Len(d) + 1) + 1 = Len(e) - Len(d)
    BY <1>1, <2>2
  <2>4. \A i \in 1..Len(e) - Len(d) : (Len(d) + 1) + i - 1 = Len(d) + i
    BY <1>1
  <2> QED
    BY <2>2, <2>3, <2>4
<1> HIDE DEF rest
<1>5. /\ new \o rest \in Seq(STRING) /\ Len(new \o rest) = Len(e)
      /\ \A i \in 1..Len(e) : (new \o rest)[i] = IF i <= Len(new) THEN new[i] ELSE rest[i - Len(new)]
  <2>1. Len(new) + Len(rest) = Len(e)
    BY <1>1, <1>4
  <2>2. /\ new \o rest \in Seq(STRING) /\ Len(new \o rest) = Len(new) + Len(rest)
        /\ \A i \in 1..Len(new) + Len(rest) :
               (new \o rest)[i] = IF i <= Len(new) THEN new[i] ELSE rest[i - Len(new)]
    <3>1. new \in Seq(STRING) /\ rest \in Seq(STRING)
      BY <1>1, <1>4
    <3> QED
      BY <3>1, ConcatProperties, Zenon
  <2> QED
    BY <2>1, <2>2
<1>6. \A i \in 1..Len(e) : i > Len(d) => i - Len(d) \in 1..Len(e) - Len(d) /\ Len(d) + (i - Len(d)) = i
  BY <1>1
<1>7. \A i \in 1..Len(e) : (new \o rest)[i] = IF i <= Len(d) THEN new[i] ELSE e[i]
  <2> TAKE i \in 1..Len(e)
  <2>1. CASE i <= Len(d)
    BY <1>5, <2>1
  <2>2. CASE ~(i <= Len(d))
    <3>1. i > Len(d)
      BY <1>1, <2>2
    <3>2. rest[i - Len(d)] = e[Len(d) + (i - Len(d))]
      BY <1>4, <1>6, <3>1
    <3> QED
      BY <1>5, <1>6, <2>2, <3>1, <3>2
  <2> QED
    BY <2>1, <2>2
<1> QED
  BY <1>5, <1>7 DEF Renamed, rest

LEMMA RenamedUpto ==
  ASSUME NEW d \in Domain, NEW e \in Domain, NEW new \in Domain,
         IsRelativeTo(e, d), Len(new) = Len(d), Front(d) = Front(new), NEW k \in 1..Len(e)
  PROVE  /\ k < Len(d) => Upto(Renamed(e, d, new), k) = Upto(d, k)
         /\ k >= Len(d) /\ Upto(e, k) \in Domain =>
                /\ IsRelativeTo(Upto(e, k), d)
                /\ Upto(Renamed(e, d, new), k) = Renamed(Upto(e, k), d, new)
<1> DEFINE r == Renamed(e, d, new)
<1>1. /\ d \in Seq(STRING) /\ e \in Seq(STRING) /\ new \in Seq(STRING)
      /\ Len(d) \in Nat \ {0} /\ Len(e) \in Nat /\ Len(d) <= Len(e) /\ Upto(e, Len(d)) = d
  BY DomainIs, RelativeIs
<1>2. /\ r \in Seq(STRING) /\ Len(r) = Len(e)
      /\ \A i \in 1..Len(e) : r[i] = IF i <= Len(d) THEN new[i] ELSE e[i]
  BY RenamedIs
<1> HIDE DEF r
<1>3. /\ Upto(r, k) \in Seq(STRING) /\ Len(Upto(r, k)) = k /\ \A i \in 1..k : Upto(r, k)[i] = r[i]
  BY <1>1, <1>2, UptoIs
<1>4. ASSUME k < Len(d) PROVE Upto(r, k) = Upto(d, k)
  <2>1. k \in 0..Len(d) /\ k \in 0..Len(d)-1 /\ Len(d)-1 \in 0..Len(d)
    BY <1>1, <1>4
  <2>2. Upto(new, k) = Upto(Front(new), k) /\ Upto(d, k) = Upto(Front(d), k)
    <3>1. Front(new) = Upto(new, Len(d)-1) /\ Front(d) = Upto(d, Len(d)-1)
      BY DEF Front, Upto
    <3> QED
      BY <1>1, <2>1, <3>1, UptoUpto
  <2>3. /\ Upto(new, k) \in Seq(STRING) /\ Len(Upto(new, k)) = k
        /\ \A i \in 1..k : Upto(new, k)[i] = new[i]
    <3>1. k \in 0..Len(new)
      BY <2>1
    <3> QED
      BY <1>1, <3>1, UptoIs
  <2>4. \A i \in 1..k : Upto(r, k)[i] = Upto(new, k)[i]
    <3> TAKE i \in 1..k
    <3>1. i \in 1..Len(e) /\ i <= Len(d)
      BY <1>1, <1>4
    <3> QED
      BY <1>2, <1>3, <2>3, <3>1
  <2>5. Upto(r, k) = Upto(new, k)
    BY <1>3, <2>3, <2>4, SeqEqual
  <2> QED
    BY <2>2, <2>5
<1>5. ASSUME k >= Len(d), Upto(e, k) \in Domain
      PROVE  IsRelativeTo(Upto(e, k), d) /\ Upto(r, k) = Renamed(Upto(e, k), d, new)
  <2>1. Len(Upto(e, k)) = k /\ \A i \in 1..k : Upto(e, k)[i] = e[i]
    BY <1>1, UptoIs
  <2>2. Upto(Upto(e, k), Len(d)) = Upto(e, Len(d))
    BY <1>1, <1>5, UptoUpto
  <2>3. IsRelativeTo(Upto(e, k), d)
    BY <1>1, <1>5, <2>1, <2>2, RelativeIs
  <2>4. /\ Renamed(Upto(e, k), d, new) \in Seq(STRING) /\ Len(Renamed(Upto(e, k), d, new)) = k
        /\ \A i \in 1..k : Renamed(Upto(e, k), d, new)[i] = IF i <= Len(d) THEN new[i] ELSE Upto(e, k)[i]
    BY <1>5, <2>1, <2>3, RenamedIs
  <2>5. \A i \in 1..k : Upto(r, k)[i] = Renamed(Upto(e, k), d, new)[i]
    BY <1>1, <1>2, <1>3, <2>1, <2>4
  <2> QED
    BY <1>3, <2>3, <2>4, <2>5, SeqEqual
<1> QED
  BY <1>4, <1>5 DEF r

Moved(d, new, S) == (S \ Subtree(d)) \union {Renamed(e, d, new) : e \in S \intersect Subtree(d)}

LEMMA RenameClosed ==
  ASSUME NEW d \in dirs, NEW new \in Domain, dirs \subseteq Domain, Closed(dirs),
         Len(new) = Len(d), Front(d) = Front(new),
         \A e \in Subtree(d) : Renamed(e, d, new) \in Domain
  PROVE  Closed(Moved(d, new, dirs))
<1>1. \A e \in dirs \ Subtree(d) : \A k \in 1..Len(e) : Upto(e, k) \in dirs \ Subtree(d)
  BY DeleteClosed DEF Closed
<1>2. ASSUME NEW e \in dirs \intersect Subtree(d), NEW k \in 1..Len(Renamed(e, d, new))
      PROVE  Upto(Renamed(e, d, new), k) \in Moved(d, new, dirs)
  <2>1. /\ e \in Domain /\ IsRelativeTo(e, d) /\ Len(Renamed(e, d, new)) = Len(e)
        /\ Len(d) \in Nat /\ Len(e) \in Nat /\ Len(d) <= Len(e)
    BY RenamedIs, RelativeIs, DomainIs DEF Subtree
  <2>2. k \in 1..Len(e)
    BY <1>2, <2>1
  <2>3. Upto(e, k) \in dirs
    BY <2>2 DEF Closed
  <2>4. CASE k < Len(d)
    <3>1. Upto(Renamed(e, d, new), k) = Upto(d, k) /\ k \in 1..Len(d)
      BY <2>1, <2>2, <2>4, RenamedUpto
    <3>2. Upto(d, k) \in dirs /\ Upto(d, k) \in Domain
      BY <3>1 DEF Closed
    <3>3. Len(Upto(d, k)) = k
      BY <3>1, UptoIs, DomainIs
    <3>4. Upto(d, k) \notin Subtree(d)
      BY <2>1, <2>4, <3>2, <3>3, RelativeIs DEF Subtree
    <3> QED
      BY <3>1, <3>2, <3>4 DEF Moved
  <2>5. CASE k >= Len(d)
    <3>1. /\ IsRelativeTo(Upto(e, k), d)
          /\ Upto(Renamed(e, d, new), k) = Renamed(Upto(e, k), d, new)
      BY <2>1, <2>2, <2>3, <2>5, RenamedUpto
    <3> QED
      BY <2>3, <3>1 DEF Moved, Subtree
  <2> QED
    BY <2>1, <2>2, <2>4, <2>5
<1> QED
  BY <1>1, <1>2 DEF Closed, Moved

LEMMA NextTree ==
  ASSUME "missing" \notin Faults PROVE Sandboxes /\ Tree /\ [Next]_vars => Tree'
<1> SUFFICES ASSUME Sandboxes, Tree, [Next]_vars PROVE Tree'
  OBVIOUS
<1>0. /\ StepTyped /\ stat \in Domain \union {None} /\ None \notin Domain
      /\ dirs \subseteq Domain /\ configs \subseteq dirs /\ Closed(dirs)
      /\ stat # None => stat \in configs
  BY DomainAssumption DEF Sandboxes, Tree
<1>1. ASSUME UNCHANGED <<tree, stat, step>> PROVE Tree'
  BY <1>1 DEF tree, Tree, Closed
<1>2. ASSUME UNCHANGED <<stat, step>>, Idle, dirs' \subseteq Domain, configs' \subseteq dirs',
             Closed(dirs'), stat # None => stat \in configs'
      PROVE  Tree'
  BY <1>2 DEF Tree, Idle
<1>3. ASSUME NEW d \in Domain, InitializeDomain(d) PROVE Tree'
  <2>1. /\ d \in configs /\ UNCHANGED <<tree, stat>>
        /\ step' = <<"upper", d>> \/ \E i \in DOMAIN Parents(d) : step' = <<"lower", d, i>>
    BY <1>3, BeginsAt
  <2> QED
    BY <1>0, <2>1 DEF tree, Tree, Closed
<1>4. ASSUME NEW d \in Domain, Write(d) PROVE Tree'
  BY <1>1, <1>4 DEF Write
<1>5. ASSUME NEW d \in Domain, Create(d) PROVE Tree'
  <2>1. Closed(dirs')
    BY <1>0, <1>5, CreateClosed DEF Create
  <2>2. Range(Parents(d)) \subseteq Domain
    BY ParentsIn
  <2> QED
    BY <1>0, <1>2, <1>5, <2>1, <2>2 DEF Create
<1>6. ASSUME NEW d \in Domain, NEW new \in Domain, Rename(d, new) PROVE Tree'
  <2>1. /\ d \in dirs /\ Len(new) = Len(d) /\ Front(d) = Front(new)
        /\ \A e \in Subtree(d) : Renamed(e, d, new) \in Domain
        /\ dirs' = Moved(d, new, dirs) /\ configs' = Moved(d, new, configs)
        /\ ~OpenBelow(d) /\ Idle /\ UNCHANGED <<stat, step>>
    BY <1>0, <1>6 DEF Rename, Moved
  <2>2. Closed(dirs')
    BY <1>0, <2>1, RenameClosed
  <2>3. dirs' \subseteq Domain /\ configs' \subseteq dirs'
    BY <1>0, <2>1 DEF Moved
  <2>4. stat # None => stat \in configs'
    BY <1>0, <2>1 DEF Moved, OpenBelow, Subtree
  <2> QED
    BY <1>2, <2>1, <2>2, <2>3, <2>4
<1>7. ASSUME NEW d \in Domain, NEW b \in BOOLEAN, Delete(d, b) PROVE Tree'
  <2>1. /\ dirs' = dirs \ Subtree(d) /\ configs' = configs \ Subtree(d)
        /\ ~OpenBelow(d) /\ Idle /\ UNCHANGED <<stat, step>>
    BY <1>7 DEF Delete, MayDelete
  <2>2. Closed(dirs')
    BY <1>0, <2>1, DeleteClosed
  <2>3. stat # None => stat \in configs'
    BY <1>0, <2>1 DEF OpenBelow, Subtree
  <2> QED
    BY <1>0, <1>2, <2>1, <2>2, <2>3
<1>8. ASSUME NEW d \in Domain, NEW b \in BOOLEAN, Fork(d, b) PROVE Tree'
  <2>1. PICK child \in Domain :
            /\ ForkName(d, b, child) /\ dirs' = dirs \union {child}
            /\ configs' = IF d \in configs THEN configs \union {child} ELSE configs
    BY <1>8 DEF Fork
  <2>2. d \in dirs /\ Idle /\ UNCHANGED <<stat, step>>
    BY <1>8 DEF Fork
  <2>3. Closed(dirs')
    BY <1>0, <2>1, <2>2, ForkClosed
  <2> QED
    BY <1>0, <1>2, <2>1, <2>2, <2>3
<1>9. CASE StartSandbox
  <2>1. UNCHANGED <<tree, stat>> /\ step[1] = "start"
    BY <1>9 DEF StartSandbox
  <2>2. \/ step' = <<"put_stat", step[2]>> \/ step' = <<"idle">> \/ step' = <<"hung", step[2]>>
    BY <1>9 DEF StartSandbox
  <2> QED
    BY <2>1, <2>2 DEF tree, Tree, Closed
<1>10. CASE PutStat
  <2>1. step[2] \in configs
    BY <1>10 DEF PutStat, Tree
  <2> QED
    BY <1>10, <2>1 DEF PutStat, tree, Tree, Closed
<1>11. CASE FinalizeStat
  <2>1. UNCHANGED tree /\ stat' = None /\ step' = <<"fini", stat>> /\ stat \in configs
    BY <1>0, <1>11 DEF FinalizeStat
  <2> QED
    BY <2>1 DEF tree, Tree, Closed
<1>12. CASE Crash \/ Reboot
  <2>1. UNCHANGED <<tree, stat>> /\ step' = <<"idle">>
    BY <1>12 DEF Crash, Reboot
  <2> QED
    BY <2>1 DEF tree, Tree, Closed
<1>13. CASE UNCHANGED vars
  BY <1>1, <1>13 DEF vars
<1>14. CASE InitOverlay
  <2>1. PICK d \in Domain :
          /\ step[1] \in {"lower", "upper"} /\ step[2] = d
          /\ \/ step' \in {<<"upper", d>>, <<"start", d>>, <<"idle">>}
             \/ \E i \in DOMAIN Parents(d) : step' = <<"lower", d, i>>
    BY <1>14, OverlaySteps
  <2>2. UNCHANGED <<tree, stat>>
    BY <1>14, OverlaySteps
  <2> QED
    BY <2>1, <2>2 DEF tree, Tree, Closed
<1>15. CASE FiniOverlay
  <2>1. PICK d \in Domain :
          /\ step[1] \in {"fini", "restore"} /\ step[2] = d
          /\ step' = <<"idle">> \/ \E i \in DOMAIN Parents(d) : step' = <<"restore", d, i>>
    BY <1>15, OverlaySteps
  <2>2. UNCHANGED <<tree, stat>>
    BY <1>15, OverlaySteps
  <2> QED
    BY <2>1, <2>2 DEF tree, Tree, Closed
<1> QED
  BY <1>3, <1>4, <1>5, <1>6, <1>7, <1>8, <1>9, <1>10, <1>11, <1>12, <1>13, <1>14, <1>15
     DEF Next, InitOverlay, FiniOverlay

(* As long as only domains that exist are opened, no sequence of creating, *)
(* renaming, forking and deleting takes the open domain, or an ancestor    *)
(* its mount is made of, away from under it, whatever fails or goes down.  *)
THEOREM OpenDomainStays == ASSUME "missing" \notin Faults PROVE Spec => []OpenDomainExists
<1>1. Init => Tree
  BY DEF Init, Tree, Closed
<1>2. Sandboxes /\ Tree => OpenDomainExists
  BY ClosedParents DEF Sandboxes, Tree, OpenDomainExists
<1>3. Sandboxes /\ Tree /\ [Next]_vars => Tree'
  BY NextTree
<1> QED
  BY InitSandboxes, NextSandboxes, <1>1, <1>2, <1>3, PTL DEF Spec

------------------------------------------------------------------------------
(* The files                                                               *)

Entry == {None} \union {Link(t) : t \in Slot} \union {Dir(q) : q \in Layers}
Held == {None} \union Layers

LEMMA LinkIs ==
  ASSUME NEW t \in Slot
  PROVE  /\ Link(t) \in Entry /\ Link(t) # None /\ IsLink(Link(t)) /\ ~IsDir(Link(t))
         /\ Link(t).to = t
<1>1. t \in STRING \X {"upper", "lower"}
  <2>1. PICK d \in Domain, u \in {"upper", "lower"} : t = <<Last(d), u>>
    BY DEF Slot, Stems
  <2>2. Last(d) \in STRING
    <3>1. Last(d) = d[Len(d)]
      BY DEF Last
    <3>2. d \in Seq(STRING) /\ Len(d) \in 1..Len(d)
      BY DomainIs
    <3>3. \A i \in 1..Len(d) : d[i] \in STRING
      BY <3>2, ElementOfSeq
    <3> QED
      BY <3>1, <3>2, <3>3
  <2> QED
    BY <2>1, <2>2
<1>2. Link(t) \in [kind : {"link"}, to : STRING \X {"upper", "lower"}]
  BY <1>1 DEF Link
<1>3. Link(t) # None
  BY <1>2, DomainAssumption
<1> QED
  BY <1>3 DEF Link, Entry, IsLink, IsDir

LEMMA DirIs ==
  ASSUME NEW q \in Layers
  PROVE  /\ Dir(q) \in Entry /\ Dir(q) # None /\ IsDir(Dir(q)) /\ ~IsLink(Dir(q))
         /\ Dir(q).layers = q
<1>1. Dir(q) \in [kind : {"dir"}, layers : Seq(SUBSET (Domain \X (1..MaxFiles)))]
  BY DEF Dir, Layers, File
<1>2. Dir(q) # None
  BY <1>1, DomainAssumption
<1> QED
  BY <1>2 DEF Dir, Entry, IsLink, IsDir

LEMMA EntryIs ==
  ASSUME NEW x \in Entry
  PROVE  /\ x = None \/ IsLink(x) \/ IsDir(x)
         /\ x = None => ~IsDir(x) /\ ~IsLink(x)
         /\ IsLink(x) => x.to \in Slot /\ x = Link(x.to) /\ ~IsDir(x)
         /\ IsDir(x) => x.layers \in Layers /\ x = Dir(x.layers)
<1>1. CASE x = None
  BY <1>1 DEF IsDir, IsLink
<1>2. CASE x \in {Link(t) : t \in Slot}
  BY <1>2, LinkIs
<1>3. CASE x \in {Dir(q) : q \in Layers}
  BY <1>3, DirIs
<1> QED
  BY <1>1, <1>2, <1>3 DEF Entry

(* A file is in a stack of layers.                                         *)
In(f, q) == \E i \in DOMAIN q : f \in q[i]

LEMMA LayersAre ==
  ASSUME NEW q \in Layers
  PROVE  /\ q \in Seq(SUBSET File) /\ Len(q) \in Nat \ {0} /\ DOMAIN q = 1..Len(q)
         /\ \A i \in 1..Len(q) : q[i] \subseteq File
         /\ q # None
<1>1. q \in Seq(SUBSET File) /\ q # <<>>
  BY DEF Layers
<1>2. Len(q) \in Nat /\ DOMAIN q = 1..Len(q) /\ Len(q) # 0
  BY <1>1, LenProperties, EmptySeq
<1>3. \A i \in 1..Len(q) : q[i] \in SUBSET File
  BY <1>1, ElementOfSeq
<1> QED
  BY <1>1, <1>2, <1>3, DomainAssumption DEF File

LEMMA LandsOn ==
  ASSUME NEW q \in Held, NEW r \in Layers
  PROVE  /\ Lands(q, r) \in Layers
         /\ \A f : In(f, r) \/ (q # None /\ In(f, q)) => In(f, Lands(q, r))
<1>1. CASE q = None
  BY <1>1 DEF Lands
<1>2. CASE q # None
  <2>1. q \in Layers /\ Lands(q, r) = q \o r
    BY <1>2 DEF Held, Lands
  <2>2. q \in Seq(SUBSET File) /\ r \in Seq(SUBSET File) /\ Len(q) \in Nat \ {0} /\ Len(r) \in Nat \ {0}
        /\ DOMAIN q = 1..Len(q) /\ DOMAIN r = 1..Len(r)
    BY <2>1, LayersAre
  <2>3. /\ q \o r \in Seq(SUBSET File) /\ Len(q \o r) = Len(q) + Len(r)
        /\ \A i \in 1..Len(q) + Len(r) : (q \o r)[i] = IF i <= Len(q) THEN q[i] ELSE r[i - Len(q)]
    BY <2>2, ConcatProperties, Zenon
  <2> DEFINE s == q \o r
  <2> HIDE DEF s
  <2>4. s \in Seq(SUBSET File) /\ Len(s) = Len(q) + Len(r) /\ DOMAIN s = 1..Len(s)
    BY <2>3, LenProperties DEF s
  <2>5. \A i \in 1..Len(q) + Len(r) : s[i] = IF i <= Len(q) THEN q[i] ELSE r[i - Len(q)]
    BY <2>3 DEF s
  <2>6. s \in Layers
    BY <2>2, <2>4, EmptySeq DEF Layers
  <2>7. ASSUME NEW f, In(f, q) PROVE In(f, s)
    <3>1. PICK i \in 1..Len(q) : f \in q[i]
      BY <2>2, <2>7 DEF In
    <3>2. i \in 1..Len(q) + Len(r) /\ i <= Len(q)
      BY <2>2
    <3>3. s[i] = q[i] /\ i \in DOMAIN s
      BY <2>4, <2>5, <3>2
    <3> QED
      BY <3>1, <3>3 DEF In
  <2>8. ASSUME NEW f, In(f, r) PROVE In(f, s)
    <3>1. PICK i \in 1..Len(r) : f \in r[i]
      BY <2>2, <2>8 DEF In
    <3>2. PICK j \in 1..Len(q) + Len(r) : j = Len(q) + i
      BY <2>2
    <3>3. ~(j <= Len(q)) /\ j - Len(q) = i
      BY <2>2, <3>2
    <3>4. s[j] = r[i] /\ j \in DOMAIN s
      BY <2>4, <2>5, <3>3
    <3> QED
      BY <3>1, <3>4 DEF In
  <2> QED
    BY <2>1, <2>6, <2>7, <2>8 DEF s
<1> QED
  BY <1>1, <1>2

(* A new file at the top of the layers.                                    *)
LEMMA NewFile ==
  ASSUME NEW q \in Layers, NEW f \in File
  PROVE  /\ [q EXCEPT ![1] = @ \union {f}] \in Layers
         /\ In(f, [q EXCEPT ![1] = @ \union {f}])
         /\ \A g : In(g, q) => In(g, [q EXCEPT ![1] = @ \union {f}])
<1>1. q \in Seq(SUBSET File) /\ Len(q) \in Nat \ {0} /\ DOMAIN q = 1..Len(q) /\ q[1] \union {f} \in SUBSET File
  BY LayersAre
<1>2. 1 \in 1..Len(q)
  BY <1>1
<1>3. PICK r : r = [q EXCEPT ![1] = q[1] \union {f}]
  OBVIOUS
<1>4. r \in Seq(SUBSET File) /\ Len(r) = Len(q)
  <2>1. \A s \in Seq(SUBSET File), i \in 1..Len(q), e \in SUBSET File : s = q =>
           [s EXCEPT ![i] = e] \in Seq(SUBSET File) /\ Len([s EXCEPT ![i] = e]) = Len(q)
    BY ExceptSeq
  <2> QED
    BY <1>1, <1>2, <1>3, <2>1
<1>5. r # <<>>
  BY <1>1, <1>4, EmptySeq
<1>6. r \in Layers
  BY <1>4, <1>5 DEF Layers
<1>7. DOMAIN r = DOMAIN q /\ r[1] = q[1] \union {f} /\ \A i \in DOMAIN q : i # 1 => r[i] = q[i]
  BY <1>1, <1>2, <1>3
<1>8. In(f, r) /\ \A g : In(g, q) => In(g, r)
  BY <1>1, <1>2, <1>7 DEF In
<1> QED
  BY <1>3, <1>6, <1>8

FilesOK ==
    /\ dirs \subseteq Domain /\ configs \subseteq dirs
    /\ overlay \in [Domain -> Entry]
    /\ \A d \in Domain : overlay[d] # None => d \in dirs
    /\ tmp \in [Slot -> Held]
    /\ written \subseteq File

(* A file is in an overlay directory, or in /tmp.                          *)
Kept(f, entries, slots) ==
    \/ \E d \in Domain : IsDir(entries[d]) /\ In(f, entries[d].layers)
    \/ \E t \in Slot : slots[t] # None /\ In(f, slots[t])

(* What a step that moves overlays does to them, whatever else it does.    *)
MovesFiles(slots) ==
    /\ overlay' \in [Domain -> Entry] /\ tmp' \in [Slot -> Held]
    /\ \A d \in Domain : overlay'[d] # None => overlay[d] # None \/ d \in dirs
    /\ \A f : Kept(f, overlay, slots) => Kept(f, overlay', tmp')

LEMMA SlotsAre ==
  ASSUME NEW d \in Domain PROVE Upper(d) \in Slot /\ Lower(d) \in Slot
BY DEF Upper, Lower, Slot, Stems

LEMMA RelinkMoves ==
  ASSUME overlay \in [Domain -> Entry], NEW d \in Domain, NEW t \in Slot,
         NEW slots \in [Slot -> Held], overlay[d] # None \/ d \in dirs, Relink(d, t, slots)
  PROVE  MovesFiles(slots)
<1>1. overlay' = [overlay EXCEPT ![d] = Link(t)]
  BY DEF Relink
<1>2. /\ overlay' \in [Domain -> Entry] /\ overlay'[d] = Link(t)
      /\ \A e \in Domain : e # d => overlay'[e] = overlay[e]
  BY <1>1, LinkIs
<1>3. \A e \in Domain : overlay'[e] # None => overlay[e] # None \/ e \in dirs
  BY <1>2
<1>4. CASE IsDir(overlay[d])
  <2>1. PICK q \in Layers : q = overlay[d].layers
    BY <1>4, EntryIs
  <2>2. PICK r : r = Lands(slots[t], q)
    OBVIOUS
  <2>3. r \in Layers /\ \A f : In(f, q) \/ (slots[t] # None /\ In(f, slots[t])) => In(f, r)
    BY <2>2, LandsOn
  <2>4. /\ tmp' \in [Slot -> Held] /\ tmp'[t] = r
        /\ \A u \in Slot : u # t => tmp'[u] = slots[u]
    <3>1. tmp' = [slots EXCEPT ![t] = r]
      BY <1>4, <2>1, <2>2 DEF Relink
    <3> QED
      BY <2>3, <3>1 DEF Held
  <2>5. tmp'[t] # None
    BY <2>3, <2>4, LayersAre
  <2>6. ASSUME NEW f, NEW e \in Domain, IsDir(overlay[e]), In(f, overlay[e].layers)
        PROVE  Kept(f, overlay', tmp')
    <3>1. CASE e = d
      <4>1. In(f, q)
        BY <2>1, <2>6, <3>1, Zenon
      <4>2. In(f, r)
        BY <2>3, <4>1
      <4>3. In(f, tmp'[t])
        BY <2>4, <4>2
      <4> QED
        BY <2>5, <4>3 DEF Kept
    <3>2. CASE e # d
      BY <1>2, <2>6, <3>2 DEF Kept
    <3> QED
      BY <3>1, <3>2
  <2>7. ASSUME NEW f, NEW u \in Slot, slots[u] # None, In(f, slots[u])
        PROVE  Kept(f, overlay', tmp')
    <3>1. CASE u = t
      <4>1. In(f, tmp'[t])
        BY <2>3, <2>4, <2>7, <3>1
      <4> QED
        BY <2>5, <4>1 DEF Kept
    <3>2. CASE u # t
      BY <2>4, <2>7, <3>2 DEF Kept
    <3> QED
      BY <3>1, <3>2
  <2>8. \A f : Kept(f, overlay, slots) => Kept(f, overlay', tmp')
    BY <2>6, <2>7 DEF Kept
  <2> QED
    BY <1>2, <1>3, <2>4, <2>8 DEF MovesFiles
<1>5. CASE ~IsDir(overlay[d])
  <2>1. tmp' = slots
    BY <1>5 DEF Relink
  <2>2. \A f : Kept(f, overlay, slots) => Kept(f, overlay', tmp')
    BY <1>2, <1>5, <2>1 DEF Kept
  <2> QED
    BY <1>2, <1>3, <2>1, <2>2 DEF MovesFiles
<1> QED
  BY <1>4, <1>5

LEMMA MoveBackMoves ==
  ASSUME overlay \in [Domain -> Entry], tmp \in [Slot -> Held],
         NEW d \in Domain, NEW t \in Slot, MoveBack(d, t)
  PROVE  MovesFiles(tmp)
<1>1. PICK q \in Layers : q = tmp[t]
  BY DEF MoveBack, Held
<1>2. /\ ~IsDir(overlay[d]) /\ d \in dirs /\ overlay' = [overlay EXCEPT ![d] = Dir(q)]
      /\ tmp' = [tmp EXCEPT ![t] = None]
  BY <1>1 DEF MoveBack
<1>3. /\ overlay' \in [Domain -> Entry] /\ overlay'[d] = Dir(q)
      /\ \A e \in Domain : e # d => overlay'[e] = overlay[e]
  BY <1>2, DirIs
<1>4. tmp' \in [Slot -> Held] /\ \A u \in Slot : u # t => tmp'[u] = tmp[u]
  BY <1>2 DEF Held
<1>5. IsDir(overlay'[d]) /\ overlay'[d].layers = q
  BY <1>3, DirIs
<1>6. \A e \in Domain : overlay'[e] # None => overlay[e] # None \/ e \in dirs
  BY <1>2, <1>3
<1>7. ASSUME NEW f, NEW e \in Domain, IsDir(overlay[e]), In(f, overlay[e].layers)
      PROVE  Kept(f, overlay', tmp')
  BY <1>2, <1>3, <1>7 DEF Kept
<1>8. ASSUME NEW f, NEW u \in Slot, tmp[u] # None, In(f, tmp[u])
      PROVE  Kept(f, overlay', tmp')
  <2>1. CASE u = t
    <3>1. In(f, overlay'[d].layers)
      BY <1>1, <1>5, <1>8, <2>1
    <3> QED
      BY <1>5, <3>1 DEF Kept
  <2>2. CASE u # t
    BY <1>4, <1>8, <2>2 DEF Kept
  <2> QED
    BY <2>1, <2>2
<1>9. \A f : Kept(f, overlay, tmp) => Kept(f, overlay', tmp')
  BY <1>7, <1>8 DEF Kept
<1> QED
  BY <1>3, <1>4, <1>6, <1>9 DEF MovesFiles

LEMMA UnlinkMoves ==
  ASSUME overlay \in [Domain -> Entry], tmp \in [Slot -> Held], NEW d \in Domain,
         ~IsDir(overlay[d]), overlay' = [overlay EXCEPT ![d] = None], UNCHANGED tmp
  PROVE  MovesFiles(tmp)
<1>1. /\ overlay' \in [Domain -> Entry] /\ overlay'[d] = None
      /\ \A e \in Domain : e # d => overlay'[e] = overlay[e]
  BY DEF Entry
<1>2. \A f : Kept(f, overlay, tmp) => Kept(f, overlay', tmp')
  BY <1>1 DEF Kept
<1> QED
  BY <1>1, <1>2 DEF MovesFiles

LEMMA StayMoves ==
  ASSUME overlay \in [Domain -> Entry], tmp \in [Slot -> Held], UNCHANGED <<overlay, tmp>>
  PROVE  MovesFiles(tmp)
BY DEF MovesFiles, Kept

LEMMA RaisesMoves ==
  ASSUME overlay \in [Domain -> Entry], tmp \in [Slot -> Held],
         NEW d \in Domain, NEW t \in Slot, MoveBackRaises(d, t)
  PROVE  MovesFiles(tmp)
BY UnlinkMoves, StayMoves DEF MoveBackRaises

LEMMA PrepareMoves ==
  ASSUME FilesOK, NEW d \in Domain
  PROVE  /\ PrepareUpper(d) => MovesFiles(tmp)
         /\ \A i \in DOMAIN Parents(d) : PrepareLower(d, i) => MovesFiles(tmp)
<1>1. /\ overlay \in [Domain -> Entry] /\ tmp \in [Slot -> Held] /\ Upper(d) \in Slot
      /\ \A e \in Domain : overlay[e] # None => e \in dirs
  BY SlotsAre DEF FilesOK
<1>2. /\ Made(d) \in [Slot -> Held] /\ \A t \in Slot : tmp[t] # None => Made(d)[t] = tmp[t]
  <2>1. <<{}>> \in Layers
    BY DEF Layers
  <2> QED
    BY <1>1, <2>1 DEF Made, Held
<1>3. \A f : Kept(f, overlay, tmp) => Kept(f, overlay, Made(d))
  BY <1>2 DEF Kept
<1>4. ASSUME PrepareUpper(d) PROVE MovesFiles(tmp)
  <2>1. CASE ~Blocked(d) /\ Relink(d, Upper(d), Made(d))
    <3>1. d \in dirs
      BY <2>1 DEF Blocked
    <3>2. MovesFiles(Made(d))
      BY <1>1, <1>2, <2>1, <3>1, RelinkMoves
    <3> QED
      BY <1>3, <3>2 DEF MovesFiles
  <2>2. CASE tmp' = Made(d) /\ UNCHANGED overlay
    BY <1>1, <1>2, <1>3, <2>2 DEF MovesFiles
  <2> QED
    BY <1>4, <2>1, <2>2 DEF PrepareUpper
<1>5. ASSUME NEW i \in DOMAIN Parents(d), PrepareLower(d, i) PROVE MovesFiles(tmp)
  <2>1. PICK p \in Domain : p = Parents(d)[i]
    BY ParentsIn
  <2>2. Lower(p) \in Slot
    BY SlotsAre
  <2>3. CASE Exists(p, tmp) /\ Relink(p, Lower(p), tmp)
    <3>1. overlay[p] # None
      BY <2>3 DEF Exists, IsDir, IsLink
    <3> QED
      BY <1>1, <2>2, <2>3, <3>1, RelinkMoves
  <2>4. CASE UNCHANGED <<overlay, tmp>>
    BY <1>1, <2>4, StayMoves
  <2> QED
    BY <1>5, <2>1, <2>3, <2>4 DEF PrepareLower
<1> QED
  BY <1>4, <1>5

LEMMA RestoreMoves ==
  ASSUME FilesOK, NEW d \in Domain
  PROVE  /\ RestoreUpper(d) => MovesFiles(tmp)
         /\ \A i \in DOMAIN Parents(d) : RestoreLower(d, i) => MovesFiles(tmp)
<1>1. overlay \in [Domain -> Entry] /\ tmp \in [Slot -> Held] /\ Upper(d) \in Slot
  BY SlotsAre DEF FilesOK
<1>2. ASSUME RestoreUpper(d) PROVE MovesFiles(tmp)
  BY <1>1, <1>2, MoveBackMoves, RaisesMoves DEF RestoreUpper
<1>3. ASSUME NEW i \in DOMAIN Parents(d), RestoreLower(d, i) PROVE MovesFiles(tmp)
  <2>1. PICK p \in Domain : p = Parents(d)[i]
    BY ParentsIn
  <2>2. Lower(p) \in Slot
    BY SlotsAre
  <2>3. MoveBack(p, Lower(p)) \/ MoveBackRaises(p, Lower(p)) \/ UNCHANGED <<overlay, tmp>>
    BY <1>3, <2>1 DEF RestoreLower
  <2> QED
    BY <1>1, <2>2, <2>3, MoveBackMoves, RaisesMoves, StayMoves
<1> QED
  BY <1>2, <1>3

LEMMA ForkMoves ==
  ASSUME FilesOK, NEW d \in Domain, ForkOverlay(d)
  PROVE  MovesFiles(tmp)
<1>1. overlay \in [Domain -> Entry] /\ tmp \in [Slot -> Held] /\ Upper(d) \in Slot
  BY SlotsAre DEF FilesOK
<1> QED
  BY <1>1, MoveBackMoves, UnlinkMoves, StayMoves DEF ForkOverlay

(* What is empty, a link or a directory before a step is so after it.      *)
KindsKept ==
    /\ \A t \in Slot : tmp'[t] = None <=> tmp[t] = None
    /\ \A d \in Domain : /\ IsDir(overlay'[d]) <=> IsDir(overlay[d])
                         /\ IsLink(overlay'[d]) <=> IsLink(overlay[d])

(* A file that is written is kept, and the others stay.                    *)
LEMMA WriteMoves ==
  ASSUME FilesOK, NEW d \in Domain, Write(d)
  PROVE  /\ MovesFiles(tmp) /\ KindsKept
         /\ written' \subseteq File /\ \A f \in written' : f \in written \/ Kept(f, overlay', tmp')
<1>1. overlay \in [Domain -> Entry] /\ tmp \in [Slot -> Held] /\ Upper(d) \in Slot /\ written \subseteq File
  BY SlotsAre DEF FilesOK
<1>2. PICK f \in File :
        /\ tmp[Upper(d)] # None \/ IsDir(overlay[d])
        /\ written' = written \union {f}
        /\ IF tmp[Upper(d)] # None
           THEN tmp' = [tmp EXCEPT ![Upper(d)][1] = @ \union {f}] /\ UNCHANGED overlay
           ELSE overlay' = [overlay EXCEPT ![d].layers[1] = @ \union {f}] /\ UNCHANGED tmp
  BY DEF Write, File
<1>3. CASE tmp[Upper(d)] # None
  <2>1. PICK q \in Layers : q = tmp[Upper(d)]
    BY <1>1, <1>3 DEF Held
  <2>2. PICK r : r = [q EXCEPT ![1] = @ \union {f}]
    OBVIOUS
  <2>3. r \in Layers /\ r # None /\ In(f, r) /\ \A g : In(g, q) => In(g, r)
    BY <2>2, NewFile, LayersAre
  <2>4. tmp' = [tmp EXCEPT ![Upper(d)] = r]
    BY <1>2, <1>3, <2>1, <2>2
  <2>5. /\ tmp' \in [Slot -> Held] /\ tmp'[Upper(d)] = r
        /\ \A t \in Slot : t # Upper(d) => tmp'[t] = tmp[t]
    BY <1>1, <2>3, <2>4 DEF Held
  <2>6. UNCHANGED overlay
    BY <1>2, <1>3
  <2>7. ASSUME NEW g, NEW t \in Slot, tmp[t] # None, In(g, tmp[t]) PROVE Kept(g, overlay', tmp')
    <3>1. CASE t = Upper(d)
      <4>1. In(g, tmp'[Upper(d)])
        BY <2>1, <2>3, <2>5, <2>7, <3>1
      <4> QED
        BY <1>1, <2>3, <2>5, <4>1 DEF Kept
    <3>2. CASE t # Upper(d)
      BY <2>5, <2>7, <3>2 DEF Kept
    <3> QED
      BY <3>1, <3>2
  <2>8. \A g : Kept(g, overlay, tmp) => Kept(g, overlay', tmp')
    BY <2>6, <2>7 DEF Kept
  <2>9. Kept(f, overlay', tmp')
    BY <1>1, <2>3, <2>5 DEF Kept
  <2>10. KindsKept
    BY <1>3, <2>3, <2>5, <2>6 DEF KindsKept
  <2> QED
    BY <1>1, <1>2, <2>5, <2>6, <2>8, <2>9, <2>10 DEF MovesFiles
<1>4. CASE tmp[Upper(d)] = None
  <2>1. IsDir(overlay[d]) /\ overlay[d] \in Entry
    BY <1>1, <1>2, <1>4
  <2>2. PICK q \in Layers : overlay[d] = Dir(q)
    BY <2>1, EntryIs
  <2>3. PICK r : r = [q EXCEPT ![1] = @ \union {f}]
    OBVIOUS
  <2>4. r \in Layers /\ In(f, r) /\ \A g : In(g, q) => In(g, r)
    BY <2>3, NewFile
  <2>5. overlay' = [overlay EXCEPT ![d].layers[1] = @ \union {f}] /\ UNCHANGED tmp
    BY <1>2, <1>4
  <2>6. overlay' = [overlay EXCEPT ![d] = Dir(r)]
    <3>1. overlay' = [overlay EXCEPT ![d] = [overlay[d] EXCEPT !.layers =
                        [overlay[d].layers EXCEPT ![1] = overlay[d].layers[1] \union {f}]]]
      BY <2>5
    <3>2. overlay[d].layers = q
      BY <2>2, DirIs
    <3>3. [Dir(q) EXCEPT !.layers = r] = Dir(r)
      BY DEF Dir
    <3> QED
      BY <2>2, <2>3, <3>1, <3>2, <3>3
  <2>7. /\ overlay' \in [Domain -> Entry] /\ overlay'[d] = Dir(r)
        /\ \A e \in Domain : e # d => overlay'[e] = overlay[e]
    BY <1>1, <2>4, <2>6, DirIs
  <2>8. IsDir(overlay'[d]) /\ overlay'[d].layers = r /\ overlay[d].layers = q
    BY <2>2, <2>4, <2>7, DirIs
  <2>9. overlay[d] # None
    BY <2>1 DEF IsDir
  <2>10. ASSUME NEW g, NEW e \in Domain, IsDir(overlay[e]), In(g, overlay[e].layers)
         PROVE  Kept(g, overlay', tmp')
    <3>1. CASE e = d
      <4>1. In(g, overlay'[d].layers)
        BY <2>4, <2>8, <2>10, <3>1
      <4> QED
        BY <2>8, <4>1 DEF Kept
    <3>2. CASE e # d
      BY <2>7, <2>10, <3>2 DEF Kept
    <3> QED
      BY <3>1, <3>2
  <2>11. \A g : Kept(g, overlay, tmp) => Kept(g, overlay', tmp')
    BY <2>5, <2>10 DEF Kept
  <2>12. Kept(f, overlay', tmp')
    BY <2>4, <2>8 DEF Kept
  <2>13. \A e \in Domain : overlay'[e] # None => overlay[e] # None \/ e \in dirs
    BY <2>7, <2>9
  <2>14. KindsKept
    <3>1. ~IsLink(overlay'[d]) /\ ~IsLink(overlay[d])
      BY <2>2, <2>4, <2>7, DirIs
    <3> QED
      BY <2>1, <2>5, <2>7, <2>8, <3>1 DEF KindsKept
  <2> QED
    BY <1>1, <1>2, <2>5, <2>7, <2>11, <2>12, <2>13, <2>14 DEF MovesFiles
<1> QED
  BY <1>3, <1>4

(* Renaming back gives the old name.                                       *)
LEMMA RenamedBack ==
  ASSUME NEW d \in Domain, NEW e \in Domain, NEW new \in Domain,
         IsRelativeTo(e, d), Len(new) = Len(d), Renamed(e, d, new) \in Domain
  PROVE  IsRelativeTo(Renamed(e, d, new), new) /\ Renamed(Renamed(e, d, new), new, d) = e
<1> DEFINE r == Renamed(e, d, new)
<1>1. /\ r \in Domain /\ r \in Seq(STRING) /\ Len(r) = Len(e)
      /\ \A i \in 1..Len(e) : r[i] = IF i <= Len(d) THEN new[i] ELSE e[i]
  BY RenamedIs
<1> HIDE DEF r
<1>2. /\ d \in Seq(STRING) /\ e \in Seq(STRING) /\ new \in Seq(STRING)
      /\ Len(d) \in Nat \ {0} /\ Len(e) \in Nat /\ Len(d) <= Len(e) /\ Upto(e, Len(d)) = d
  BY DomainIs, RelativeIs
<1>3. Len(new) \in 0..Len(r)
  BY <1>1, <1>2
<1>4. /\ Upto(r, Len(new)) \in Seq(STRING) /\ Len(Upto(r, Len(new))) = Len(new)
      /\ \A i \in 1..Len(new) : Upto(r, Len(new))[i] = r[i]
  BY <1>1, <1>3, UptoIs
<1>5. \A i \in 1..Len(new) : Upto(r, Len(new))[i] = new[i]
  <2> TAKE i \in 1..Len(new)
  <2>1. i \in 1..Len(e) /\ i <= Len(d)
    BY <1>2
  <2>2. r[i] = new[i]
    BY <1>1, <2>1
  <2> QED
    BY <1>4, <2>2
<1>6. Upto(r, Len(new)) = new
  BY <1>2, <1>4, <1>5, SeqEqual
<1>7. IsRelativeTo(r, new)
  BY <1>1, <1>3, <1>6, RelativeIs
<1>8. /\ Renamed(r, new, d) \in Seq(STRING) /\ Len(Renamed(r, new, d)) = Len(r)
      /\ \A i \in 1..Len(r) : Renamed(r, new, d)[i] = IF i <= Len(new) THEN d[i] ELSE r[i]
  BY <1>1, <1>7, RenamedIs
<1>9. \A i \in 1..Len(d) : e[i] = d[i]
  <2>1. Len(d) \in 0..Len(e)
    BY <1>2
  <2>2. \A i \in 1..Len(d) : Upto(e, Len(d))[i] = e[i]
    BY <1>2, <2>1, UptoIs
  <2> QED
    BY <1>2, <2>2
<1>10. \A i \in 1..Len(e) : Renamed(r, new, d)[i] = e[i]
  BY <1>1, <1>2, <1>8, <1>9
<1>11. Renamed(r, new, d) = e
  BY <1>1, <1>2, <1>8, <1>10, SeqEqual
<1> QED
  BY <1>7, <1>11 DEF r

LEMMA RenameEntries ==
  ASSUME NEW d \in Domain, NEW new \in Domain, Rename(d, new), NEW e \in Domain
  PROVE  /\ IsRelativeTo(e, new) /\ Renamed(e, new, d) \in dirs => overlay'[e] = overlay[Renamed(e, new, d)]
         /\ ~(IsRelativeTo(e, new) /\ Renamed(e, new, d) \in dirs) =>
                /\ e \in Subtree(d) => overlay'[e] = None
                /\ e \notin Subtree(d) => overlay'[e] = overlay[e]
<1>1. d # new /\ Len(new) = Len(d)
  BY DEF Rename
<1>2. overlay'[e] = CASE IsRelativeTo(e, new) /\ Renamed(e, new, d) \in dirs -> overlay[Renamed(e, new, d)]
                      [] e \in Subtree(d) -> None
                      [] OTHER -> overlay[e]
  BY DEF Rename
<1>3. CASE IsRelativeTo(e, new) /\ Renamed(e, new, d) \in dirs
  <2>1. ASSUME e \in Subtree(d) PROVE FALSE
    <3>1. IsRelativeTo(e, d)
      BY <2>1 DEF Subtree
    <3>2. Upto(e, Len(d)) = d /\ Upto(e, Len(new)) = new
      BY <1>3, <3>1, RelativeIs
    <3> QED
      BY <1>1, <3>2
  <2> QED
    BY <1>2, <1>3, <2>1
<1>4. CASE ~(IsRelativeTo(e, new) /\ Renamed(e, new, d) \in dirs)
  BY <1>2, <1>4
<1> QED
  BY <1>3, <1>4

LEMMA RenameFiles ==
  ASSUME FilesOK, NEW d \in Domain, NEW new \in Domain, Rename(d, new)
  PROVE  FilesOK' /\ \A f : Kept(f, overlay, tmp) => Kept(f, overlay', tmp')
<1>1. /\ dirs \subseteq Domain /\ configs \subseteq dirs /\ overlay \in [Domain -> Entry]
      /\ \A e \in Domain : overlay[e] # None => e \in dirs
      /\ tmp \in [Slot -> Held] /\ written \subseteq File
  BY DEF FilesOK
<1>2. /\ d # new /\ Len(new) = Len(d) /\ \A e \in Subtree(d) : Renamed(e, d, new) \in Domain
      /\ dirs' = Moved(d, new, dirs) /\ configs' = Moved(d, new, configs)
      /\ Emptied(new) /\ UNCHANGED <<tmp, written>>
  BY DEF Rename, Moved
<1>3. overlay' = [e \in Domain |->
           CASE IsRelativeTo(e, new) /\ Renamed(e, new, d) \in dirs -> overlay[Renamed(e, new, d)]
             [] e \in Subtree(d) -> None
             [] OTHER -> overlay[e]]
  BY DEF Rename
<1>4. \A e \in Domain :
        /\ IsRelativeTo(e, new) /\ Renamed(e, new, d) \in dirs => overlay'[e] = overlay[Renamed(e, new, d)]
        /\ ~(IsRelativeTo(e, new) /\ Renamed(e, new, d) \in dirs) =>
               /\ e \in Subtree(d) => overlay'[e] = None
               /\ e \notin Subtree(d) => overlay'[e] = overlay[e]
  BY RenameEntries
<1>5. dirs' \subseteq Domain /\ configs' \subseteq dirs'
  BY <1>1, <1>2 DEF Moved
<1>6. ASSUME NEW e \in Domain
      PROVE  overlay'[e] \in Entry /\ (overlay'[e] # None => e \in dirs')
  <2>1. CASE IsRelativeTo(e, new) /\ Renamed(e, new, d) \in dirs
    <3>1. PICK z \in dirs : z = Renamed(e, new, d)
      BY <2>1
    <3>2. IsRelativeTo(z, d) /\ Renamed(z, d, new) = e
      BY <1>1, <1>2, <2>1, <3>1, RenamedBack
    <3>3. e \in dirs'
      BY <1>2, <3>2 DEF Moved, Subtree
    <3> QED
      BY <1>1, <1>4, <2>1, <3>1, <3>3
  <2>2. CASE ~(IsRelativeTo(e, new) /\ Renamed(e, new, d) \in dirs)
    <3>1. CASE e \in Subtree(d)
      BY <1>4, <2>2, <3>1 DEF Entry
    <3>2. CASE e \notin Subtree(d)
      BY <1>1, <1>2, <1>4, <2>2, <3>2 DEF Moved
    <3> QED
      BY <3>1, <3>2
  <2> QED
    BY <2>1, <2>2
<1>7. FilesOK'
  <2>1. overlay' \in [Domain -> Entry]
    BY <1>3, <1>6
  <2> QED
    BY <1>1, <1>2, <1>5, <1>6, <2>1 DEF FilesOK
<1>8. ASSUME NEW f, NEW e \in Domain, IsDir(overlay[e]), In(f, overlay[e].layers)
      PROVE  Kept(f, overlay', tmp')
  <2>1. overlay[e] # None /\ e \in dirs
    BY <1>1, <1>8 DEF IsDir
  <2>2. CASE e \in Subtree(d)
    <3>1. PICK z \in Domain : z = Renamed(e, d, new)
      BY <1>2, <2>2
    <3>2. IsRelativeTo(z, new) /\ Renamed(z, new, d) = e
      BY <1>2, <2>2, <3>1, RenamedBack DEF Subtree
    <3>3. overlay'[z] = overlay[e]
      BY <1>4, <2>1, <3>2
    <3> QED
      BY <1>8, <3>3 DEF Kept
  <2>3. CASE e \notin Subtree(d)
    <3>1. ~(IsRelativeTo(e, new) /\ Renamed(e, new, d) \in dirs)
      <4>1. ASSUME IsRelativeTo(e, new) PROVE FALSE
        <5>1. e \in Subtree(new)
          BY <2>1, <4>1 DEF Subtree
        <5> QED
          BY <1>2, <2>1, <5>1 DEF Emptied
      <4> QED
        BY <4>1
    <3>2. overlay'[e] = overlay[e]
      BY <1>4, <2>3, <3>1
    <3> QED
      BY <1>8, <3>2 DEF Kept
  <2> QED
    BY <2>2, <2>3
<1>9. \A f : Kept(f, overlay, tmp) => Kept(f, overlay', tmp')
  BY <1>2, <1>8 DEF Kept
<1> QED
  BY <1>7, <1>9

LEMMA DeleteFiles ==
  ASSUME FilesOK, NEW d \in Domain, NEW b \in BOOLEAN, Delete(d, b)
  PROVE  /\ FilesOK' /\ written' \subseteq written
         /\ \A f \in written' : Kept(f, overlay, tmp) => Kept(f, overlay', tmp')
<1>1. /\ dirs \subseteq Domain /\ configs \subseteq dirs /\ overlay \in [Domain -> Entry]
      /\ \A e \in Domain : overlay[e] # None => e \in dirs
      /\ tmp \in [Slot -> Held] /\ written \subseteq File
  BY DEF FilesOK
<1>2. /\ dirs' = dirs \ Subtree(d) /\ configs' = configs \ Subtree(d)
      /\ overlay' = [e \in Domain |-> IF e \in Subtree(d) THEN None ELSE overlay[e]]
      /\ written' = written \ UNION {UNION Range(overlay[e].layers) :
                                        e \in {x \in Subtree(d) : IsDir(overlay[x])}}
      /\ UNCHANGED tmp
  BY DEF Delete
<1>3. \A e \in Domain : /\ e \in Subtree(d) => overlay'[e] = None
                        /\ e \notin Subtree(d) => overlay'[e] = overlay[e]
  BY <1>2
<1>4. overlay' \in [Domain -> Entry]
  BY <1>1, <1>2 DEF Entry
<1>5. written' \subseteq written
  BY <1>2
<1>6. \A e \in Domain : overlay'[e] # None => e \in dirs'
  BY <1>1, <1>2, <1>3
<1>7. FilesOK'
  BY <1>1, <1>2, <1>4, <1>5, <1>6 DEF FilesOK
<1>8. ASSUME NEW f \in written', NEW e \in Domain, IsDir(overlay[e]), In(f, overlay[e].layers)
      PROVE  e \notin Subtree(d)
  <2>1. f \in UNION Range(overlay[e].layers)
    BY <1>8 DEF In, Range
  <2> QED
    BY <1>2, <1>8, <2>1
<1>9. \A f \in written' : Kept(f, overlay, tmp) => Kept(f, overlay', tmp')
  BY <1>2, <1>3, <1>8 DEF Kept
<1> QED
  BY <1>5, <1>7, <1>9

LEMMA NextFiles ==
  ASSUME FilesOK, [Next]_vars
  PROVE  /\ FilesOK'
         /\ \A f \in written' : \/ Kept(f, overlay', tmp')
                                \/ f \in written /\ ~Kept(f, overlay, tmp)
<1>0. /\ dirs \subseteq Domain /\ configs \subseteq dirs /\ overlay \in [Domain -> Entry]
      /\ \A e \in Domain : overlay[e] # None => e \in dirs
      /\ tmp \in [Slot -> Held] /\ written \subseteq File
  BY DEF FilesOK
<1> DEFINE Goal == /\ FilesOK'
                   /\ \A f \in written' : \/ Kept(f, overlay', tmp')
                                          \/ f \in written /\ ~Kept(f, overlay, tmp)
<1>1. ASSUME UNCHANGED <<tree, files>> PROVE Goal
  BY <1>0, <1>1 DEF tree, files, FilesOK, Kept
<1>2. ASSUME MovesFiles(tmp), dirs \subseteq dirs', dirs' \subseteq Domain, configs' \subseteq dirs',
             written' \subseteq File, \A f \in written' : f \in written \/ Kept(f, overlay', tmp')
      PROVE  Goal
  <2>1. FilesOK'
    BY <1>0, <1>2 DEF FilesOK, MovesFiles
  <2>2. \A f : Kept(f, overlay, tmp) => Kept(f, overlay', tmp')
    BY <1>2 DEF MovesFiles
  <2> QED
    BY <1>2, <2>1, <2>2
<1>3. ASSUME NEW d \in Domain, InitializeDomain(d) PROVE Goal
  BY <1>1, <1>3 DEF InitializeDomain
<1>4. ASSUME InitOverlay \/ FiniOverlay PROVE Goal
  <2>1. UNCHANGED <<tree, written>>
    BY <1>4, OverlaySteps
  <2>2. MovesFiles(tmp)
    BY <1>4, PrepareMoves, RestoreMoves DEF InitOverlay, FiniOverlay
  <2> QED
    BY <1>0, <1>2, <2>1, <2>2 DEF tree
<1>5. ASSUME NEW d \in Domain, Write(d) PROVE Goal
  <2>1. UNCHANGED tree
    BY <1>5 DEF Write
  <2> QED
    BY <1>0, <1>2, <1>5, <2>1, WriteMoves DEF tree
<1>6. ASSUME NEW d \in Domain, Create(d) PROVE Goal
  <2>1. /\ dirs' = dirs \union {d} \union Range(Parents(d)) /\ configs' = configs \union {d}
        /\ UNCHANGED files
    BY <1>6 DEF Create
  <2>2. MovesFiles(tmp) /\ UNCHANGED written
    BY <1>0, <2>1, StayMoves DEF files
  <2>3. dirs' \subseteq Domain
    BY <1>0, <2>1, ParentsIn
  <2> QED
    BY <1>0, <1>2, <2>1, <2>2, <2>3
<1>7. ASSUME NEW d \in Domain, NEW new \in Domain, Rename(d, new) PROVE Goal
  <2>1. UNCHANGED written
    BY <1>7 DEF Rename
  <2> QED
    BY <1>7, <2>1, RenameFiles
<1>8. ASSUME NEW d \in Domain, NEW b \in BOOLEAN, Delete(d, b) PROVE Goal
  BY <1>8, DeleteFiles
<1>9. ASSUME NEW d \in Domain, NEW b \in BOOLEAN, Fork(d, b) PROVE Goal
  <2>1. ForkOverlay(d) \/ UNCHANGED <<overlay, tmp>>
    BY <1>9 DEF Fork
  <2>2. MovesFiles(tmp)
    BY <1>0, <2>1, ForkMoves, StayMoves
  <2>3. PICK child \in Domain :
            /\ dirs' = dirs \union {child}
            /\ configs' = IF d \in configs THEN configs \union {child} ELSE configs
    BY <1>9 DEF Fork
  <2>4. UNCHANGED written
    BY <1>9 DEF Fork
  <2> QED
    BY <1>0, <1>2, <2>2, <2>3, <2>4
<1>10. ASSUME StartSandbox \/ PutStat \/ FinalizeStat \/ Crash \/ UNCHANGED vars PROVE Goal
  BY <1>1, <1>10 DEF StartSandbox, PutStat, FinalizeStat, Crash, vars
<1>11. ASSUME Reboot PROVE Goal
  <2>1. UNCHANGED <<tree, overlay>> /\ tmp' = [t \in Slot |-> None] /\ written' = written \ InTmp
    BY <1>11 DEF Reboot
  <2>2. FilesOK'
    BY <1>0, <2>1 DEF tree, FilesOK, Held
  <2>3. ASSUME NEW f \in written', Kept(f, overlay, tmp) PROVE Kept(f, overlay', tmp')
    <3>1. ASSUME NEW t \in Slot, tmp[t] # None, In(f, tmp[t]) PROVE FALSE
      <4>1. f \in UNION Range(tmp[t])
        BY <3>1 DEF In, Range
      <4>2. f \in InTmp
        BY <3>1, <4>1 DEF InTmp
      <4> QED
        BY <2>1, <2>3, <4>2
    <3> QED
      BY <2>1, <2>3, <3>1 DEF Kept
  <2> QED
    BY <2>1, <2>2, <2>3
<1> HIDE DEF Goal
<1>12. Goal
  BY <1>3, <1>4, <1>5, <1>6, <1>7, <1>8, <1>9, <1>10, <1>11 DEF Next, InitOverlay, FiniOverlay
<1> QED
  BY <1>12 DEF Goal

LEMMA InitFiles == Init => FilesOK
BY DEF Init, FilesOK, Entry, Held

(* What the variables of the domain tree and its files hold: the overlay   *)
(* of a directory is a link to a slot or a stack of layers, and only a     *)
(* directory that exists has one; an operation in progress is about a      *)
(* domain, and about one of its parents while they are moved.              *)
THEOREM DomainTypeCorrect == Spec => []TypeOK
<1>1. ASSUME FilesOK, Sandboxes, strays \subseteq Domain PROVE TypeOK
  <2>1. \A d \in Domain :
           \/ overlay[d] = None
           \/ IsLink(overlay[d]) /\ overlay[d].to \in Slot
           \/ IsDir(overlay[d]) /\ overlay[d].layers \in Layers
    BY <1>1, EntryIs DEF FilesOK
  <2>2. \A t \in Slot : tmp[t] = None \/ tmp[t] \in Layers
    BY <1>1 DEF FilesOK, Held
  <2>3. \/ step = <<"idle">>
        \/ step \in {"upper", "start", "put_stat", "hung", "fini"} \X Domain
        \/ \E d \in Domain : step \in {"lower", "restore"} \X {d} \X DOMAIN Parents(d)
    BY <1>1 DEF Sandboxes, StepTyped, Places, AtParent
  <2> QED
    BY <1>1, <2>1, <2>2, <2>3 DEF TypeOK, FilesOK, Sandboxes
<1>2. ASSUME Sandboxes, strays \subseteq Domain, [Next]_vars PROVE strays' \subseteq Domain
  <2>1. ASSUME InitOverlay \/ FiniOverlay PROVE UNCHANGED strays
    BY <2>1, OverlaySteps
  <2>2. ASSUME Crash PROVE strays' \subseteq Domain
    <3>1. step[2] \in Domain
      BY <1>2, <2>2, StepIs DEF Crash, Sandboxes
    <3> QED
      BY <1>2, <2>2, <3>1 DEF Crash
  <2>3. ASSUME Reboot PROVE strays' = {}
    BY <2>3 DEF Reboot
  <2>4. ASSUME Offline PROVE UNCHANGED strays
    BY <2>4 DEF Offline, Write, Create, Rename, Delete, Fork
  <2>5. ASSUME \/ \E d \in Domain : InitializeDomain(d)
               \/ StartSandbox \/ PutStat \/ FinalizeStat \/ UNCHANGED vars
        PROVE  UNCHANGED strays
    BY <2>5 DEF InitializeDomain, StartSandbox, PutStat, FinalizeStat, vars
  <2> QED
    BY <1>2, <2>1, <2>2, <2>3, <2>4, <2>5 DEF Next, Offline, InitOverlay, FiniOverlay
<1>3. Init => strays \subseteq Domain
  BY DEF Init
<1>4. FilesOK /\ [Next]_vars => FilesOK'
  BY NextFiles
<1>5. FilesOK /\ Sandboxes /\ strays \subseteq Domain => TypeOK
  BY <1>1
<1>6. Sandboxes /\ strays \subseteq Domain /\ [Next]_vars => (strays \subseteq Domain)'
  BY <1>2
<1> QED
  BY InitFiles, InitSandboxes, NextSandboxes, <1>3, <1>4, <1>5, <1>6, PTL DEF Spec

(* Every written file is in an overlay directory or in a slot of /tmp.     *)
AllKept == \A f \in written : Kept(f, overlay, tmp)

(* No file written inside a domain is destroyed but by deleting its        *)
(* directory or by a restart of the machine while it is in /tmp: whatever  *)
(* fails, whoever is killed, however overlays are moved out, buried, moved *)
(* back, copied and renamed, it is in an overlay directory or in /tmp.     *)
THEOREM FilesSurvive == Spec => []NothingDestroyed
<1>1. Init => AllKept
  BY DEF Init, AllKept
<1>2. FilesOK /\ AllKept /\ [Next]_vars => FilesOK' /\ AllKept'
  BY NextFiles DEF AllKept
<1>3. ASSUME AllKept PROVE NothingDestroyed
  <2> SUFFICES ASSUME NEW f \in written
               PROVE  \/ f \in UNION {UNION Range(overlay[d].layers) : d \in {e \in Domain : IsDir(overlay[e])}}
                      \/ f \in InTmp
    BY DEF NothingDestroyed
  <2>1. Kept(f, overlay, tmp)
    BY <1>3 DEF AllKept
  <2>2. ASSUME NEW d \in Domain, IsDir(overlay[d]), In(f, overlay[d].layers)
        PROVE  f \in UNION {UNION Range(overlay[e].layers) : e \in {e \in Domain : IsDir(overlay[e])}}
    <3>1. f \in UNION Range(overlay[d].layers)
      BY <2>2 DEF In, Range
    <3> QED
      BY <2>2, <3>1
  <2>3. ASSUME NEW t \in Slot, tmp[t] # None, In(f, tmp[t]) PROVE f \in InTmp
    <3>1. f \in UNION Range(tmp[t])
      BY <2>3 DEF In, Range
    <3> QED
      BY <2>3, <3>1 DEF InTmp
  <2> QED
    BY <2>1, <2>2, <2>3 DEF Kept
<1>4. AllKept => NothingDestroyed
  BY <1>3
<1> QED
  BY InitFiles, <1>1, <1>2, <1>4, PTL DEF Spec

------------------------------------------------------------------------------
(* The overlays at home                                                    *)

(* No two ancestors of a domain have the same last component: they would   *)
(* share the slot in /tmp.                                                 *)
StemsDiffer ==
    \A d \in Domain : \A i, j \in DOMAIN Parents(d) :
        Last(Parents(d)[i]) = Last(Parents(d)[j]) => i = j

(* Lent to the mount of d: the overlays of its parents with a number in I, *)
(* and its own if up.  A lent overlay is in its slot, and at most a link   *)
(* in its place; if there was none there is no link either.                *)
Lent(d, I, up, entries, slots) ==
    /\ \A i \in I : IF slots[Lower(Parents(d)[i])] = None THEN ~IsLink(entries[Parents(d)[i]])
                                                          ELSE ~IsDir(entries[Parents(d)[i]])
    /\ up => slots[Upper(d)] # None /\ ~IsDir(entries[d])
    /\ \A e \in Domain : IsLink(entries[e]) => (\E i \in I : e = Parents(d)[i]) \/ (up /\ e = d)
    /\ \A t \in Slot : slots[t] # None => (\E i \in I : t = Lower(Parents(d)[i])) \/ (up /\ t = Upper(d))

Home == (\A d \in Domain : ~IsLink(overlay[d])) /\ (\A t \in Slot : tmp[t] = None)

LEMMA LentNothing == ASSUME NEW d \in Domain PROVE Lent(d, {}, FALSE, overlay, tmp) <=> Home
BY DEF Lent, Home

LEMMA SlotsDiffer ==
  ASSUME StemsDiffer, NEW d \in Domain, NEW i \in DOMAIN Parents(d)
  PROVE  /\ Parents(d)[i] \in Domain /\ Parents(d)[i] # d /\ Lower(Parents(d)[i]) \in Slot
         /\ Upper(d) \in Slot /\ Lower(Parents(d)[i]) # Upper(d)
         /\ \A j \in DOMAIN Parents(d) : j # i =>
                Parents(d)[j] # Parents(d)[i] /\ Lower(Parents(d)[j]) # Lower(Parents(d)[i])
<1>1. PICK p \in Domain : p = Parents(d)[i]
  BY ParentsIn
<1>2. p # d
  <2>1. p \in Range(Parents(d))
    BY <1>1 DEF Range
  <2>2. PICK k \in 1..Len(d)-1 : p = Upto(d, k)
    BY <2>1, ParentsAre
  <2>3. Len(p) = k /\ k # Len(d)
    BY <2>2, DomainIs, UptoIs
  <2> QED
    BY <2>3
<1>3. \A j \in DOMAIN Parents(d) : j # i => Last(Parents(d)[j]) # Last(p)
  BY <1>1 DEF StemsDiffer
<1>4. \A j \in DOMAIN Parents(d) : j # i => Parents(d)[j] # p /\ Lower(Parents(d)[j]) # Lower(p)
  BY <1>3 DEF Lower
<1> QED
  BY <1>1, <1>2, <1>4, SlotsAre DEF Lower, Upper

(* The overlay of one parent more is lent.                                 *)
LEMMA LowerLends ==
  ASSUME StemsDiffer, FilesOK, NEW d \in Domain, NEW i \in DOMAIN Parents(d),
         NEW I \in SUBSET DOMAIN Parents(d), i \notin I, Lent(d, I, FALSE, overlay, tmp), PrepareLower(d, i)
  PROVE  Lent(d, I \union {i}, FALSE, overlay', tmp') /\ step' = Lowering(d, i + 1)
<1>1. PICK p \in Domain : p = Parents(d)[i]
  BY ParentsIn
<1>2. PICK t \in Slot : t = Lower(p)
  BY SlotsAre
<1>3. \A j \in I : Parents(d)[j] \in Domain /\ Parents(d)[j] # p
                   /\ Lower(Parents(d)[j]) \in Slot /\ Lower(Parents(d)[j]) # t
  BY <1>1, <1>2, SlotsDiffer
<1>4. /\ \A j \in I : IF tmp[Lower(Parents(d)[j])] = None THEN ~IsLink(overlay[Parents(d)[j]])
                                                          ELSE ~IsDir(overlay[Parents(d)[j]])
      /\ \A e \in Domain : IsLink(overlay[e]) => \E j \in I : e = Parents(d)[j]
      /\ \A u \in Slot : tmp[u] # None => \E j \in I : u = Lower(Parents(d)[j])
  BY DEF Lent
<1>5. tmp[t] = None /\ ~IsLink(overlay[p])
  BY <1>3, <1>4
<1>6. overlay \in [Domain -> Entry] /\ tmp \in [Slot -> Held]
  BY DEF FilesOK
<1>7. ASSUME ~IsDir(overlay[p])
      PROVE  UNCHANGED <<overlay, tmp>> /\ step' = Lowering(d, i + 1)
  <2>1. ~Exists(p, tmp)
    BY <1>5, <1>7 DEF Exists
  <2> QED
    BY <1>1, <2>1 DEF PrepareLower
<1>8. ASSUME IsDir(overlay[p])
      PROVE  /\ step' = Lowering(d, i + 1) /\ Relink(p, t, tmp)
  <2>1. Exists(p, tmp) /\ ~Stuck(p, t, tmp)
    BY <1>5, <1>8 DEF Exists, Stuck, MayLand
  <2> QED
    BY <1>1, <1>2, <2>1 DEF PrepareLower
<1>9. CASE ~IsDir(overlay[p])
  <2>1. \A j \in I \union {i} : IF tmp[Lower(Parents(d)[j])] = None THEN ~IsLink(overlay[Parents(d)[j]])
                                                                  ELSE ~IsDir(overlay[Parents(d)[j]])
    BY <1>1, <1>2, <1>4, <1>5
  <2> QED
    BY <1>4, <1>7, <1>9, <2>1 DEF Lent
<1>10. CASE IsDir(overlay[p])
  <2>1. PICK q \in Layers : q = overlay[p].layers
    BY <1>6, <1>10, EntryIs
  <2>2. overlay' = [overlay EXCEPT ![p] = Link(t)] /\ tmp' = [tmp EXCEPT ![t] = q]
    BY <1>5, <1>8, <1>10, <2>1 DEF Relink, Lands
  <2>3. /\ overlay'[p] = Link(t) /\ \A e \in Domain : e # p => overlay'[e] = overlay[e]
        /\ tmp'[t] = q /\ \A u \in Slot : u # t => tmp'[u] = tmp[u]
    BY <1>6, <2>2
  <2>4. ~IsDir(overlay'[p]) /\ tmp'[t] # None
    BY <2>3, LinkIs, LayersAre
  <2>5. \A j \in I : IF tmp'[Lower(Parents(d)[j])] = None THEN ~IsLink(overlay'[Parents(d)[j]])
                                                          ELSE ~IsDir(overlay'[Parents(d)[j]])
    BY <1>3, <1>4, <2>3
  <2>6. IF tmp'[Lower(Parents(d)[i])] = None THEN ~IsLink(overlay'[Parents(d)[i]])
                                             ELSE ~IsDir(overlay'[Parents(d)[i]])
    BY <1>1, <1>2, <2>4
  <2>7. \A e \in Domain : IsLink(overlay'[e]) => \E j \in I \union {i} : e = Parents(d)[j]
    BY <1>1, <1>4, <2>3
  <2>8. \A u \in Slot : tmp'[u] # None => \E j \in I \union {i} : u = Lower(Parents(d)[j])
    BY <1>1, <1>2, <1>4, <2>3
  <2>9. Lent(d, I \union {i}, FALSE, overlay', tmp')
    BY <2>5, <2>6, <2>7, <2>8 DEF Lent
  <2> QED
    BY <1>8, <1>10, <2>9
<1> QED
  BY <1>9, <1>10

(* The overlay of the domain itself is lent.                               *)
LEMMA UpperLends ==
  ASSUME StemsDiffer, FilesOK, NEW d \in Domain, d \in dirs,
         Lent(d, DOMAIN Parents(d), FALSE, overlay, tmp), PrepareUpper(d)
  PROVE  Lent(d, DOMAIN Parents(d), TRUE, overlay', tmp') /\ step' = <<"start", d>>
<1>1. PICK t \in Slot : t = Upper(d)
  BY SlotsAre
<1>2. \A j \in DOMAIN Parents(d) : Parents(d)[j] \in Domain /\ Parents(d)[j] # d
                   /\ Lower(Parents(d)[j]) \in Slot /\ Lower(Parents(d)[j]) # t
  BY <1>1, SlotsDiffer
<1>3. /\ \A j \in DOMAIN Parents(d) :
            IF tmp[Lower(Parents(d)[j])] = None THEN ~IsLink(overlay[Parents(d)[j]])
                                                ELSE ~IsDir(overlay[Parents(d)[j]])
      /\ \A e \in Domain : IsLink(overlay[e]) => \E j \in DOMAIN Parents(d) : e = Parents(d)[j]
      /\ \A u \in Slot : tmp[u] # None => \E j \in DOMAIN Parents(d) : u = Lower(Parents(d)[j])
  BY DEF Lent
<1>4. tmp[t] = None /\ ~IsLink(overlay[d])
  BY <1>2, <1>3
<1>5. overlay \in [Domain -> Entry] /\ tmp \in [Slot -> Held]
  BY DEF FilesOK
<1>6. PICK slots \in [Slot -> Held] :
        /\ slots = Made(d) /\ slots[t] = <<{}>> /\ slots[t] \in Layers
        /\ \A u \in Slot : u # t => slots[u] = tmp[u]
  <2>1. <<{}>> \in Layers
    BY DEF Layers
  <2>2. PICK e : e = <<{}>>
    OBVIOUS
  <2>3. Made(d) = [tmp EXCEPT ![t] = e]
    BY <1>1, <1>4, <2>2 DEF Made
  <2>4. PICK slots : slots = Made(d)
    OBVIOUS
  <2>5. /\ slots \in [Slot -> Held] /\ slots[t] = e
        /\ \A u \in Slot : u # t => slots[u] = tmp[u]
    BY <1>5, <2>1, <2>2, <2>3, <2>4 DEF Held
  <2> QED
    BY <2>1, <2>2, <2>4, <2>5
<1>7. Len(<<{}>>) = 1
  OBVIOUS
<1>8. overlay[d] = None \/ IsDir(overlay[d])
  BY <1>4, <1>5, EntryIs
<1>9. ~Blocked(d) /\ ~Stuck(d, t, slots)
  BY <1>6, <1>7, <1>8 DEF Blocked, Stuck, Exists, MayLand
<1>10. Relink(d, t, slots) /\ step' = <<"start", d>>
  BY <1>1, <1>6, <1>9 DEF PrepareUpper
<1>11. overlay'[d] = Link(t) /\ \A e \in Domain : e # d => overlay'[e] = overlay[e]
  BY <1>5, <1>10 DEF Relink
<1>12. tmp'[t] \in Layers /\ \A u \in Slot : u # t => tmp'[u] = tmp[u]
  <2>1. CASE IsDir(overlay[d])
    <3>1. PICK q \in Layers : q = overlay[d].layers
      BY <1>5, <2>1, EntryIs
    <3>2. PICK r : r = Lands(slots[t], q)
      OBVIOUS
    <3>3. r \in Layers
      BY <1>6, <3>2, LandsOn
    <3>4. tmp' = [slots EXCEPT ![t] = r]
      BY <1>10, <2>1, <3>1, <3>2 DEF Relink
    <3> QED
      BY <1>6, <3>3, <3>4
  <2>2. CASE ~IsDir(overlay[d])
    <3>1. tmp' = slots
      BY <1>10, <2>2 DEF Relink
    <3> QED
      BY <1>6, <3>1
  <2> QED
    BY <2>1, <2>2
<1>13. ~IsDir(overlay'[d]) /\ tmp'[t] # None
  BY <1>11, <1>12, LinkIs, LayersAre
<1>14. \A j \in DOMAIN Parents(d) :
            IF tmp'[Lower(Parents(d)[j])] = None THEN ~IsLink(overlay'[Parents(d)[j]])
                                                 ELSE ~IsDir(overlay'[Parents(d)[j]])
  BY <1>2, <1>3, <1>11, <1>12
<1>15. \A e \in Domain : IsLink(overlay'[e]) => (\E j \in DOMAIN Parents(d) : e = Parents(d)[j]) \/ e = d
  BY <1>3, <1>11
<1>16. \A u \in Slot : tmp'[u] # None => (\E j \in DOMAIN Parents(d) : u = Lower(Parents(d)[j])) \/ u = t
  BY <1>3, <1>12
<1>17. Lent(d, DOMAIN Parents(d), TRUE, overlay', tmp')
  BY <1>1, <1>13, <1>14, <1>15, <1>16 DEF Lent
<1> QED
  BY <1>10, <1>17

(* The overlay of the domain comes back.                                   *)
LEMMA UpperReturns ==
  ASSUME StemsDiffer, FilesOK, NEW d \in Domain, d \in dirs,
         Lent(d, DOMAIN Parents(d), TRUE, overlay, tmp), RestoreUpper(d)
  PROVE  Lent(d, DOMAIN Parents(d), FALSE, overlay', tmp') /\ step' = Restoring(d, 1)
<1>1. PICK t \in Slot : t = Upper(d)
  BY SlotsAre
<1>2. \A j \in DOMAIN Parents(d) : Parents(d)[j] \in Domain /\ Parents(d)[j] # d
                   /\ Lower(Parents(d)[j]) \in Slot /\ Lower(Parents(d)[j]) # t
  BY <1>1, SlotsDiffer
<1>3. /\ \A j \in DOMAIN Parents(d) :
            IF tmp[Lower(Parents(d)[j])] = None THEN ~IsLink(overlay[Parents(d)[j]])
                                                ELSE ~IsDir(overlay[Parents(d)[j]])
      /\ \A e \in Domain : IsLink(overlay[e]) => (\E j \in DOMAIN Parents(d) : e = Parents(d)[j]) \/ e = d
      /\ \A u \in Slot : tmp[u] # None => (\E j \in DOMAIN Parents(d) : u = Lower(Parents(d)[j])) \/ u = t
      /\ tmp[t] # None /\ ~IsDir(overlay[d])
  BY <1>1 DEF Lent
<1>4. overlay \in [Domain -> Entry] /\ tmp \in [Slot -> Held]
  BY DEF FilesOK
<1>5. PICK q \in Layers : q = tmp[t]
  BY <1>3, <1>4 DEF Held
<1>6. MoveBack(d, t) /\ step' = Restoring(d, 1)
  BY <1>1, <1>3 DEF RestoreUpper, MoveBackRaises
<1>7. overlay' = [overlay EXCEPT ![d] = Dir(q)] /\ tmp' = [tmp EXCEPT ![t] = None]
  BY <1>5, <1>6 DEF MoveBack
<1>8. /\ overlay'[d] = Dir(q) /\ \A e \in Domain : e # d => overlay'[e] = overlay[e]
      /\ tmp'[t] = None /\ \A u \in Slot : u # t => tmp'[u] = tmp[u]
  BY <1>4, <1>7
<1>9. ~IsLink(overlay'[d])
  BY <1>8, DirIs
<1>10. \A j \in DOMAIN Parents(d) :
            IF tmp'[Lower(Parents(d)[j])] = None THEN ~IsLink(overlay'[Parents(d)[j]])
                                                 ELSE ~IsDir(overlay'[Parents(d)[j]])
  BY <1>2, <1>3, <1>8
<1>11. \A e \in Domain : IsLink(overlay'[e]) => \E j \in DOMAIN Parents(d) : e = Parents(d)[j]
  BY <1>3, <1>8, <1>9
<1>12. \A u \in Slot : tmp'[u] # None => \E j \in DOMAIN Parents(d) : u = Lower(Parents(d)[j])
  BY <1>3, <1>8
<1>13. Lent(d, DOMAIN Parents(d), FALSE, overlay', tmp')
  BY <1>10, <1>11, <1>12 DEF Lent
<1> QED
  BY <1>6, <1>13

(* The overlay of one parent comes back.                                   *)
LEMMA LowerReturns ==
  ASSUME StemsDiffer, FilesOK, NEW d \in Domain, NEW i \in DOMAIN Parents(d), Parents(d)[i] \in dirs,
         NEW I \in SUBSET DOMAIN Parents(d), i \in I, Lent(d, I, FALSE, overlay, tmp), RestoreLower(d, i)
  PROVE  Lent(d, I \ {i}, FALSE, overlay', tmp') /\ step' = Restoring(d, i + 1)
<1>1. PICK p \in Domain : p = Parents(d)[i] /\ p \in dirs
  BY ParentsIn
<1>2. PICK t \in Slot : t = Lower(p)
  BY SlotsAre
<1>3. \A j \in I \ {i} : Parents(d)[j] \in Domain /\ Parents(d)[j] # p
                   /\ Lower(Parents(d)[j]) \in Slot /\ Lower(Parents(d)[j]) # t
  BY <1>1, <1>2, SlotsDiffer
<1>4. /\ \A j \in I : IF tmp[Lower(Parents(d)[j])] = None THEN ~IsLink(overlay[Parents(d)[j]])
                                                          ELSE ~IsDir(overlay[Parents(d)[j]])
      /\ \A e \in Domain : IsLink(overlay[e]) => e = p \/ \E j \in I \ {i} : e = Parents(d)[j]
      /\ \A u \in Slot : tmp[u] # None => u = t \/ \E j \in I \ {i} : u = Lower(Parents(d)[j])
  BY <1>1, <1>2 DEF Lent
<1>5. IF tmp[t] = None THEN ~IsLink(overlay[p]) ELSE ~IsDir(overlay[p])
  BY <1>1, <1>2, <1>4
<1>6. overlay \in [Domain -> Entry] /\ tmp \in [Slot -> Held]
  BY DEF FilesOK
<1>7. CASE tmp[t] = None
  <2>1. UNCHANGED <<overlay, tmp>> /\ step' = Restoring(d, i + 1)
    BY <1>1, <1>2, <1>7 DEF RestoreLower
  <2> QED
    BY <1>4, <1>5, <1>7, <2>1 DEF Lent
<1>8. CASE tmp[t] # None
  <2>1. PICK q \in Layers : q = tmp[t]
    BY <1>6, <1>8 DEF Held
  <2>2. MoveBack(p, t) /\ step' = Restoring(d, i + 1)
    BY <1>1, <1>2, <1>5, <1>8 DEF RestoreLower, MoveBackRaises
  <2>3. overlay' = [overlay EXCEPT ![p] = Dir(q)] /\ tmp' = [tmp EXCEPT ![t] = None]
    BY <2>1, <2>2 DEF MoveBack
  <2>4. /\ overlay'[p] = Dir(q) /\ \A e \in Domain : e # p => overlay'[e] = overlay[e]
        /\ tmp'[t] = None /\ \A u \in Slot : u # t => tmp'[u] = tmp[u]
    BY <1>6, <2>3
  <2>5. ~IsLink(overlay'[p])
    BY <2>4, DirIs
  <2>6. \A j \in I \ {i} : IF tmp'[Lower(Parents(d)[j])] = None THEN ~IsLink(overlay'[Parents(d)[j]])
                                                                ELSE ~IsDir(overlay'[Parents(d)[j]])
    BY <1>3, <1>4, <2>4
  <2>7. \A e \in Domain : IsLink(overlay'[e]) => \E j \in I \ {i} : e = Parents(d)[j]
    BY <1>4, <2>4, <2>5
  <2>8. \A u \in Slot : tmp'[u] # None => \E j \in I \ {i} : u = Lower(Parents(d)[j])
    BY <1>4, <2>4
  <2>9. Lent(d, I \ {i}, FALSE, overlay', tmp')
    BY <2>6, <2>7, <2>8 DEF Lent
  <2> QED
    BY <2>2, <2>9
<1> QED
  BY <1>7, <1>8

(* The open domain and its ancestors: their overlays are lent.             *)
Owned == IF stat = None THEN {} ELSE {stat} \union Range(Parents(stat))

(* A step that leaves /tmp alone, makes no entry of the open domain and    *)
(* its ancestors a directory or a link, and makes no new links elsewhere.  *)
Tame ==
    /\ UNCHANGED <<tmp, stat, step>>
    /\ \A e \in Owned : /\ IsDir(overlay'[e]) => IsDir(overlay[e])
                        /\ IsLink(overlay'[e]) => IsLink(overlay[e])
    /\ \A e \in Domain \ Owned : IsLink(overlay'[e]) => \E z \in Domain \ Owned : IsLink(overlay[z])

LEMMA NoneIs == ~IsDir(None) /\ ~IsLink(None)
BY DEF IsDir, IsLink

LEMMA OwnedAbove ==
  ASSUME stat \in Domain, NEW e \in {stat} \union Range(Parents(stat))
  PROVE  /\ e \in Domain
         /\ \A d \in Domain : IsRelativeTo(e, d) => IsRelativeTo(stat, d)
<1>1. CASE e = stat
  BY <1>1
<1>2. CASE e \in Range(Parents(stat))
  <2>1. PICK k \in 1..Len(stat)-1 : e = Upto(stat, k)
    BY <1>2, ParentsAre
  <2>2. k \in 1..Len(stat) /\ e \in Domain
    BY <1>2, <2>1, DomainIs, ParentsIn
  <2> QED
    BY <2>1, <2>2, RelativeUp
<1> QED
  BY <1>1, <1>2

LEMMA OwnedIs ==
  ASSUME stat \in Domain \union {None}
  PROVE  /\ Owned \subseteq Domain
         /\ \A e \in Owned : /\ stat \in Domain /\ stat # None
                             /\ \A d \in Domain : IsRelativeTo(e, d) => IsRelativeTo(stat, d)
BY OwnedAbove DEF Owned

LEMMA OfflineTame ==
  ASSUME FilesOK, Tree, stat \in Domain \union {None}, ~SameDevice, Offline
  PROVE  (Idle /\ Tame) \/ (KindsKept /\ UNCHANGED <<stat, step>>)
<1>1. UNCHANGED <<stat, step>>
  BY OfflineKeeps
<1>2. overlay \in [Domain -> Entry] /\ configs \subseteq dirs /\ dirs \subseteq Domain /\ Owned \subseteq Domain
      /\ (stat # None => stat \in configs)
  BY OwnedIs DEF FilesOK, Tree
<1>3. ASSUME UNCHANGED tmp, \A e \in Domain : overlay'[e] = None \/ overlay'[e] = overlay[e]
      PROVE  Tame
  BY <1>1, <1>2, <1>3, NoneIs DEF Tame
<1>4. ASSUME NEW d \in Domain, Write(d) PROVE KindsKept
  BY <1>4, WriteMoves
<1>5. ASSUME NEW d \in Domain, Create(d) PROVE Tame
  BY <1>3, <1>5 DEF Create, files
<1>6. ASSUME NEW d \in Domain, NEW b \in BOOLEAN, Delete(d, b) PROVE Tame
  <2>1. overlay' = [e \in Domain |-> IF e \in Subtree(d) THEN None ELSE overlay[e]] /\ UNCHANGED tmp
    BY <1>6 DEF Delete
  <2> QED
    BY <1>3, <2>1
<1>7. ASSUME NEW d \in Domain, NEW b \in BOOLEAN, Fork(d, b) PROVE Tame
  <2>1. UNCHANGED tmp /\ (UNCHANGED overlay \/ overlay' = [overlay EXCEPT ![d] = None])
    BY <1>7 DEF Fork, ForkOverlay
  <2>2. \A e \in Domain : overlay'[e] = None \/ overlay'[e] = overlay[e]
    BY <1>2, <2>1
  <2> QED
    BY <1>3, <2>1, <2>2
<1>8. ASSUME NEW d \in Domain, NEW new \in Domain, Rename(d, new) PROVE Tame
  <2>1. /\ Len(new) = Len(d) /\ Emptied(new) /\ ~OpenBelow(d) /\ UNCHANGED tmp
        /\ \A e \in Subtree(d) : Renamed(e, d, new) \in Domain
    BY <1>8 DEF Rename
  <2>2. \A e \in Owned : e \notin Subtree(d)
    BY <2>1, OwnedIs DEF Subtree, OpenBelow
  <2>3. \A e \in Owned : ~IsRelativeTo(e, new)
    <3> SUFFICES ASSUME NEW e \in Owned, IsRelativeTo(e, new) PROVE FALSE
      OBVIOUS
    <3>1. stat \in dirs /\ stat \in configs /\ IsRelativeTo(stat, new)
      BY <1>2, OwnedIs
    <3>2. stat \in Subtree(new)
      BY <3>1 DEF Subtree
    <3> QED
      BY <2>1, <3>1, <3>2 DEF Emptied
  <2>4. \A e \in Owned : overlay'[e] = overlay[e]
    BY <1>2, <1>8, <2>2, <2>3, RenameEntries
  <2>5. ASSUME NEW e \in Domain \ Owned, IsLink(overlay'[e])
        PROVE  \E z \in Domain \ Owned : IsLink(overlay[z])
    <3>1. CASE IsRelativeTo(e, new) /\ Renamed(e, new, d) \in dirs
      <4>1. PICK z \in dirs : z = Renamed(e, new, d)
        BY <3>1
      <4>2. z \in Domain /\ IsRelativeTo(z, d)
        BY <1>2, <2>1, <3>1, <4>1, RenamedBack
      <4>3. z \in Subtree(d)
        BY <4>2 DEF Subtree
      <4>4. overlay'[e] = overlay[z]
        BY <1>8, <3>1, <4>1, RenameEntries
      <4> QED
        BY <2>2, <2>5, <4>2, <4>3, <4>4
    <3>2. CASE ~(IsRelativeTo(e, new) /\ Renamed(e, new, d) \in dirs)
      <4>1. overlay'[e] = None \/ overlay'[e] = overlay[e]
        BY <1>8, <3>2, RenameEntries
      <4> QED
        BY <2>5, <4>1, NoneIs
    <3> QED
      BY <3>1, <3>2
  <2> QED
    BY <1>1, <2>1, <2>4, <2>5 DEF Tame
<1>9. Idle \/ \E d \in Domain : Write(d)
  BY DEF Offline, Create, Rename, Delete, Fork
<1> QED
  BY <1>1, <1>4, <1>5, <1>6, <1>7, <1>8, <1>9 DEF Offline

LEMMA LentStays ==
  ASSUME StemsDiffer, NEW d \in Domain, NEW I \in SUBSET DOMAIN Parents(d), NEW up \in BOOLEAN,
         KindsKept, Lent(d, I, up, overlay, tmp)
  PROVE  Lent(d, I, up, overlay', tmp')
<1>1. \A i \in I : Parents(d)[i] \in Domain /\ Lower(Parents(d)[i]) \in Slot
  BY SlotsDiffer
<1>2. Upper(d) \in Slot
  BY SlotsAre
<1> QED
  BY <1>1, <1>2 DEF Lent, KindsKept

Before(d, i) == {j \in DOMAIN Parents(d) : j < i}
From(d, i) == {j \in DOMAIN Parents(d) : j >= i}

(* Which overlays are lent at each point of the operations.                *)
AtRest == Idle => IF stat = None THEN Home ELSE Lent(stat, DOMAIN Parents(stat), TRUE, overlay, tmp)
AtLower == step[1] = "lower" => Lent(step[2], Before(step[2], step[3]), FALSE, overlay, tmp)
AtUpper == step[1] = "upper" => Lent(step[2], DOMAIN Parents(step[2]), FALSE, overlay, tmp)
AtMount == step[1] \in {"start", "put_stat", "fini"} =>
               Lent(step[2], DOMAIN Parents(step[2]), TRUE, overlay, tmp)
AtRestore == step[1] = "restore" => Lent(step[2], From(step[2], step[3]), FALSE, overlay, tmp)
InPlace == AtRest /\ AtLower /\ AtUpper /\ AtMount /\ AtRestore

LEMMA GoesHome == step' = <<"idle">> /\ AtRest' => InPlace'
<1>1. ASSUME step' = <<"idle">>, AtRest' PROVE InPlace'
  <2>1. AtLower' /\ AtUpper' /\ AtMount' /\ AtRestore'
    BY <1>1 DEF AtLower, AtUpper, AtMount, AtRestore
  <2> QED
    BY <1>1, <2>1 DEF InPlace
<1> QED
  BY <1>1

LEMMA GoesTo ==
  ASSUME NEW d \in Domain, NEW i
  PROVE  /\ step' = <<"lower", d, i>> /\ Lent(d, Before(d, i), FALSE, overlay', tmp') => InPlace'
         /\ step' = <<"upper", d>> /\ Lent(d, DOMAIN Parents(d), FALSE, overlay', tmp') => InPlace'
         /\ step' \in {<<"start", d>>, <<"put_stat", d>>, <<"fini", d>>}
                /\ Lent(d, DOMAIN Parents(d), TRUE, overlay', tmp') => InPlace'
         /\ step' = <<"restore", d, i>> /\ Lent(d, From(d, i), FALSE, overlay', tmp') => InPlace'
<1>1. ASSUME step' = <<"lower", d, i>>, Lent(d, Before(d, i), FALSE, overlay', tmp') PROVE InPlace'
  <2>1. AtRest'
    BY <1>1 DEF AtRest, Idle
  <2>2. AtLower'
    BY <1>1 DEF AtLower
  <2>3. AtUpper' /\ AtMount' /\ AtRestore'
    BY <1>1 DEF AtUpper, AtMount, AtRestore
  <2> QED
    BY <2>1, <2>2, <2>3 DEF InPlace
<1>2. ASSUME step' = <<"upper", d>>, Lent(d, DOMAIN Parents(d), FALSE, overlay', tmp') PROVE InPlace'
  <2>1. AtRest'
    BY <1>2 DEF AtRest, Idle
  <2>2. AtUpper'
    BY <1>2 DEF AtUpper
  <2>3. AtLower' /\ AtMount' /\ AtRestore'
    BY <1>2 DEF AtLower, AtMount, AtRestore
  <2> QED
    BY <2>1, <2>2, <2>3 DEF InPlace
<1>3. ASSUME step' \in {<<"start", d>>, <<"put_stat", d>>, <<"fini", d>>},
             Lent(d, DOMAIN Parents(d), TRUE, overlay', tmp')
      PROVE  InPlace'
  <2>1. AtRest'
    BY <1>3 DEF AtRest, Idle
  <2>2. step'[2] = d
    BY <1>3
  <2>3. AtMount'
    BY <1>3, <2>2 DEF AtMount
  <2>4. step'[1] \notin {"lower", "upper", "restore"}
    BY <1>3
  <2>5. AtLower' /\ AtUpper' /\ AtRestore'
    BY <2>4 DEF AtLower, AtUpper, AtRestore
  <2> QED
    BY <2>1, <2>3, <2>5 DEF InPlace
<1>4. ASSUME step' = <<"restore", d, i>>, Lent(d, From(d, i), FALSE, overlay', tmp') PROVE InPlace'
  <2>1. AtRest'
    BY <1>4 DEF AtRest, Idle
  <2>2. AtRestore'
    BY <1>4 DEF AtRestore
  <2>3. AtLower' /\ AtUpper' /\ AtMount'
    BY <1>4 DEF AtLower, AtUpper, AtMount
  <2> QED
    BY <2>1, <2>2, <2>3 DEF InPlace
<1> QED
  BY <1>1, <1>2, <1>3, <1>4, Zenon

(* The rounds of the loops over the parents.                               *)
LEMMA LoopPlaces ==
  ASSUME NEW d \in Domain, NEW i \in Nat \ {0}
  PROVE  /\ step' = Lowering(d, i) /\ Lent(d, Before(d, i), FALSE, overlay', tmp') => InPlace'
         /\ step' = Restoring(d, i) /\ stat' = None /\ Lent(d, From(d, i), FALSE, overlay', tmp') => InPlace'
<1>1. DOMAIN Parents(d) = 1..Len(Parents(d)) /\ Len(Parents(d)) \in Nat
  BY DomainLength
<1>2. CASE i <= Len(Parents(d))
  <2>1. Lowering(d, i) = <<"lower", d, i>> /\ Restoring(d, i) = <<"restore", d, i>>
    BY <1>2 DEF Lowering, Restoring
  <2> QED
    BY <2>1, GoesTo, Zenon
<1>3. CASE ~(i <= Len(Parents(d)))
  <2>1. Lowering(d, i) = <<"upper", d>> /\ Restoring(d, i) = <<"idle">>
    BY <1>3 DEF Lowering, Restoring
  <2>2. Before(d, i) = DOMAIN Parents(d) /\ From(d, i) = {}
    BY <1>1, <1>3 DEF Before, From
  <2>3. Lent(d, {}, FALSE, overlay', tmp') /\ stat' = None => AtRest'
    BY DEF Lent, Home, AtRest
  <2> QED
    BY <2>1, <2>2, <2>3, GoesTo, GoesHome, Zenon
<1> QED
  BY <1>2, <1>3, Zenon

LEMMA NextInPlace ==
  ASSUME Faults = {}, ~SameDevice, StemsDiffer
  PROVE  FilesOK /\ Sandboxes /\ Matching /\ Tree /\ InPlace /\ [Next]_vars => InPlace'
<1> SUFFICES ASSUME FilesOK, Sandboxes, Matching, Tree, InPlace, [Next]_vars PROVE InPlace'
  OBVIOUS
<1>0. /\ stat \in Domain \union {None} /\ None \notin Domain /\ StepTyped /\ configs \subseteq dirs
      /\ \A d \in dirs : Range(Parents(d)) \subseteq dirs
  <2>1. dirs \subseteq Domain /\ Closed(dirs) /\ configs \subseteq dirs
    BY DEF Tree
  <2> QED
    BY <2>1, ClosedParents, DomainAssumption DEF Sandboxes
<1>1. \A d \in Domain : \A i \in DOMAIN Parents(d) : i \in Nat \ {0} /\ i + 1 \in Nat \ {0}
  BY DomainLength
<1>2. ASSUME Idle, Tame PROVE InPlace'
  <2>1. UNCHANGED <<tmp, stat, step>> /\ step' = <<"idle">>
    BY <1>2 DEF Tame, Idle
  <2>2. ASSUME stat = None PROVE Home'
    <3>1. Owned = {} /\ Home
      BY <1>2, <2>2 DEF Owned, InPlace, AtRest
    <3> QED
      BY <1>2, <2>1, <3>1 DEF Tame, Home
  <2>3. ASSUME stat # None PROVE Lent(stat, DOMAIN Parents(stat), TRUE, overlay', tmp')
    <3>1. PICK d \in Domain : d = stat
      BY <1>0, <2>3
    <3>2. Lent(d, DOMAIN Parents(d), TRUE, overlay, tmp)
      BY <1>2, <2>3, <3>1 DEF InPlace, AtRest
    <3>3. d \in Owned /\ \A i \in DOMAIN Parents(d) : Parents(d)[i] \in Owned
      BY <2>3, <3>1 DEF Owned, Range
    <3>4. \A e \in Owned : e = d \/ \E i \in DOMAIN Parents(d) : e = Parents(d)[i]
      BY <2>3, <3>1 DEF Owned, Range
    <3>5. \A e \in Domain : IsLink(overlay[e]) => e \in Owned
      BY <3>2, <3>3 DEF Lent
    <3>6. \A e \in Domain : IsLink(overlay'[e]) => e \in Owned
      BY <1>2, <3>5 DEF Tame
    <3>7. \A e \in Owned : /\ IsDir(overlay'[e]) => IsDir(overlay[e])
                           /\ IsLink(overlay'[e]) => IsLink(overlay[e])
      BY <1>2 DEF Tame
    <3>8. Lent(d, DOMAIN Parents(d), TRUE, overlay', tmp')
      BY <2>1, <3>2, <3>3, <3>4, <3>6, <3>7 DEF Lent
    <3> QED
      BY <3>1, <3>8
  <2>4. AtRest'
    BY <2>1, <2>2, <2>3 DEF AtRest
  <2> QED
    BY <2>1, <2>4, GoesHome
<1>3. ASSUME KindsKept, UNCHANGED <<stat, step>> PROVE InPlace'
  <2>1. CASE Idle
    <3>1. step' = <<"idle">> /\ stat' = stat
      BY <1>3, <2>1 DEF Idle
    <3>2. ASSUME stat = None PROVE Home'
      <4>1. Home
        BY <2>1, <3>2 DEF InPlace, AtRest
      <4> QED
        BY <1>3, <4>1 DEF KindsKept, Home
    <3>3. ASSUME stat # None PROVE Lent(stat, DOMAIN Parents(stat), TRUE, overlay', tmp')
      <4>1. stat \in Domain /\ Lent(stat, DOMAIN Parents(stat), TRUE, overlay, tmp)
        BY <1>0, <2>1, <3>3 DEF InPlace, AtRest
      <4> QED
        BY <1>3, <4>1, LentStays
    <3>4. AtRest'
      BY <3>1, <3>2, <3>3 DEF AtRest
    <3> QED
      BY <3>1, <3>4, GoesHome
  <2>2. ASSUME NEW d \in Domain, NEW i \in DOMAIN Parents(d), step = <<"lower", d, i>> PROVE InPlace'
    <3>1. Lent(d, Before(d, i), FALSE, overlay, tmp)
      BY <2>2 DEF InPlace, AtLower
    <3>2. Before(d, i) \in SUBSET DOMAIN Parents(d)
      BY DEF Before
    <3>3. Lent(d, Before(d, i), FALSE, overlay', tmp') /\ step' = <<"lower", d, i>>
      BY <1>3, <2>2, <3>1, <3>2, LentStays
    <3> QED
      BY <3>3, GoesTo, Zenon
  <2>3. ASSUME NEW d \in Domain, NEW i \in DOMAIN Parents(d), step = <<"restore", d, i>> PROVE InPlace'
    <3>1. Lent(d, From(d, i), FALSE, overlay, tmp)
      BY <2>3 DEF InPlace, AtRestore
    <3>2. From(d, i) \in SUBSET DOMAIN Parents(d)
      BY DEF From
    <3>3. Lent(d, From(d, i), FALSE, overlay', tmp') /\ step' = <<"restore", d, i>>
      BY <1>3, <2>3, <3>1, <3>2, LentStays
    <3> QED
      BY <3>3, GoesTo, Zenon
  <2>4. ASSUME NEW d \in Domain, step = <<"upper", d>> PROVE InPlace'
    <3>1. Lent(d, DOMAIN Parents(d), FALSE, overlay, tmp)
      BY <2>4 DEF InPlace, AtUpper
    <3>2. Lent(d, DOMAIN Parents(d), FALSE, overlay', tmp') /\ step' = <<"upper", d>>
      BY <1>3, <2>4, <3>1, LentStays
    <3> QED
      BY <3>2, GoesTo, Zenon
  <2>5. ASSUME NEW d \in Domain, step \in {<<"start", d>>, <<"put_stat", d>>, <<"fini", d>>} PROVE InPlace'
    <3>1. step[1] \in {"start", "put_stat", "fini"} /\ step[2] = d
      BY <2>5
    <3>2. Lent(d, DOMAIN Parents(d), TRUE, overlay, tmp)
      BY <3>1 DEF InPlace, AtMount
    <3>3. Lent(d, DOMAIN Parents(d), TRUE, overlay', tmp')
      BY <1>3, <3>2, LentStays
    <3>4. step' \in {<<"start", d>>, <<"put_stat", d>>, <<"fini", d>>}
      BY <1>3, <2>5
    <3> QED
      BY <3>3, <3>4, GoesTo, Zenon
  <2>6. \A d \in Domain : step # <<"hung", d>>
    BY DEF Matching
  <2> QED
    BY <1>0, <2>1, <2>2, <2>3, <2>4, <2>5, <2>6 DEF StepTyped, Places, AtParent, Idle
<1>4. ASSUME NEW d \in Domain, InitializeDomain(d) PROVE InPlace'
  <2>1. Idle /\ stat = None /\ UNCHANGED <<files, stat>>
    BY <1>0, <1>4, BeginsAt DEF MayOpen, Matching
  <2>2. Home
    BY <2>1 DEF InPlace, AtRest
  <2>3. Lent(d, {}, FALSE, overlay, tmp)
    BY <2>2, LentNothing
  <2>4. overlay' = overlay /\ tmp' = tmp
    BY <2>1 DEF files
  <2>5. Before(d, 1) = {}
    BY <1>1 DEF Before
  <2>6. Lent(d, Before(d, 1), FALSE, overlay', tmp')
    BY <2>3, <2>4, <2>5
  <2>7. step' = Lowering(d, 1)
    BY <1>4 DEF InitializeDomain
  <2>8. 1 \in Nat \ {0}
    OBVIOUS
  <2> QED
    BY <2>6, <2>7, <2>8, LoopPlaces, Zenon
<1>5. ASSUME NEW d \in Domain, NEW i \in DOMAIN Parents(d), PrepareLower(d, i) PROVE InPlace'
  <2>1. step = <<"lower", d, i>>
    BY <1>5 DEF PrepareLower
  <2>2. Lent(d, Before(d, i), FALSE, overlay, tmp)
    BY <2>1 DEF InPlace, AtLower
  <2>3. Before(d, i) \in SUBSET DOMAIN Parents(d) /\ i \notin Before(d, i)
    BY <1>1 DEF Before
  <2>4. Before(d, i + 1) = Before(d, i) \union {i}
    BY <1>1 DEF Before
  <2>5. Lent(d, Before(d, i + 1), FALSE, overlay', tmp') /\ step' = Lowering(d, i + 1)
    BY <1>5, <2>2, <2>3, <2>4, LowerLends
  <2> QED
    BY <1>1, <2>5, LoopPlaces
<1>6. ASSUME NEW d \in Domain, PrepareUpper(d) PROVE InPlace'
  <2>1. step = <<"upper", d>>
    BY <1>6 DEF PrepareUpper
  <2>2. Lent(d, DOMAIN Parents(d), FALSE, overlay, tmp) /\ d \in dirs
    BY <1>0, <2>1 DEF InPlace, AtUpper, Tree
  <2>3. Lent(d, DOMAIN Parents(d), TRUE, overlay', tmp') /\ step' = <<"start", d>>
    BY <1>6, <2>2, UpperLends
  <2> QED
    BY <2>3, GoesTo
<1>7. ASSUME StartSandbox PROVE InPlace'
  <2>1. PICK d \in Domain : d = step[2]
    BY <1>0, <1>7, StepIs DEF StartSandbox
  <2>2. step[1] = "start" /\ step' = <<"put_stat", d>> /\ UNCHANGED files
    BY <1>7, <2>1 DEF StartSandbox
  <2>3. Lent(d, DOMAIN Parents(d), TRUE, overlay, tmp)
    BY <2>1, <2>2 DEF InPlace, AtMount
  <2>4. Lent(d, DOMAIN Parents(d), TRUE, overlay', tmp')
    BY <2>2, <2>3 DEF files
  <2> QED
    BY <2>2, <2>4, GoesTo
<1>8. ASSUME PutStat PROVE InPlace'
  <2>1. PICK d \in Domain : d = step[2]
    BY <1>0, <1>8, StepIs DEF PutStat
  <2>2. step[1] = "put_stat" /\ step' = <<"idle">> /\ stat' = d /\ UNCHANGED files
    BY <1>8, <2>1 DEF PutStat
  <2>3. Lent(d, DOMAIN Parents(d), TRUE, overlay, tmp)
    BY <2>1, <2>2 DEF InPlace, AtMount
  <2>4. Lent(d, DOMAIN Parents(d), TRUE, overlay', tmp')
    BY <2>2, <2>3 DEF files
  <2>5. AtRest'
    BY <1>0, <2>2, <2>4 DEF AtRest
  <2> QED
    BY <2>2, <2>5, GoesHome
<1>9. ASSUME FinalizeStat PROVE InPlace'
  <2>1. PICK d \in Domain : d = stat
    BY <1>0, <1>9 DEF FinalizeStat
  <2>2. Idle /\ stat # None /\ step' = <<"fini", d>> /\ UNCHANGED files
    BY <1>9, <2>1 DEF FinalizeStat
  <2>3. Lent(d, DOMAIN Parents(d), TRUE, overlay, tmp)
    BY <2>1, <2>2 DEF InPlace, AtRest
  <2>4. Lent(d, DOMAIN Parents(d), TRUE, overlay', tmp')
    BY <2>2, <2>3 DEF files
  <2> QED
    BY <2>2, <2>4, GoesTo
<1>10. ASSUME NEW d \in Domain, RestoreUpper(d) PROVE InPlace'
  <2>1. step = <<"fini", d>> /\ UNCHANGED stat
    BY <1>10 DEF RestoreUpper
  <2>2. Lent(d, DOMAIN Parents(d), TRUE, overlay, tmp) /\ d \in dirs /\ stat = None
    BY <1>0, <2>1 DEF InPlace, AtMount, Tree, Matching
  <2>3. Lent(d, DOMAIN Parents(d), FALSE, overlay', tmp') /\ step' = Restoring(d, 1)
    BY <1>10, <2>2, UpperReturns
  <2>4. From(d, 1) = DOMAIN Parents(d)
    <3>1. \A j \in DOMAIN Parents(d) : j >= 1
      BY <1>1
    <3> QED
      BY <3>1, Zenon DEF From
  <2>5. 1 \in Nat \ {0} /\ stat' = None
    BY <2>1, <2>2
  <2>6. Lent(d, From(d, 1), FALSE, overlay', tmp')
    BY <2>3, <2>4
  <2> QED
    BY <2>3, <2>5, <2>6, LoopPlaces, Zenon
<1>11. ASSUME NEW d \in Domain, NEW i \in DOMAIN Parents(d), RestoreLower(d, i) PROVE InPlace'
  <2>1. step = <<"restore", d, i>> /\ UNCHANGED stat
    BY <1>11 DEF RestoreLower
  <2>2. Lent(d, From(d, i), FALSE, overlay, tmp) /\ d \in dirs /\ stat = None
    BY <1>0, <2>1 DEF InPlace, AtRestore, Tree, Matching
  <2>3. Parents(d)[i] \in dirs
    BY <1>0, <2>2 DEF Range
  <2>4. From(d, i) \in SUBSET DOMAIN Parents(d) /\ i \in From(d, i) /\ From(d, i + 1) = From(d, i) \ {i}
    BY <1>1 DEF From
  <2>5. Lent(d, From(d, i + 1), FALSE, overlay', tmp') /\ step' = Restoring(d, i + 1)
    BY <1>11, <2>2, <2>3, <2>4, LowerReturns
  <2> QED
    BY <1>1, <2>1, <2>2, <2>5, LoopPlaces
<1>12. ASSUME Offline PROVE InPlace'
  BY <1>0, <1>2, <1>3, <1>12, OfflineTame
<1>13. ASSUME UNCHANGED vars PROVE InPlace'
  BY <1>3, <1>13 DEF vars, files, KindsKept
<1>14. ~Crash /\ ~Reboot
  BY DEF Crash, Reboot
<1> QED
  BY <1>4, <1>5, <1>6, <1>7, <1>8, <1>9, <1>10, <1>11, <1>12, <1>13, <1>14 DEF Next, Offline

(* When nothing fails or goes down, /tmp is not on the device of the       *)
(* domains, and no two ancestors of a domain have the same name, every     *)
(* overlay is back in its place when no domain is open, and nothing is     *)
(* left in /tmp (__init_overlay, __fini_overlay), whatever was created,    *)
(* renamed, forked and deleted while it was open.                          *)
THEOREM OverlaysReturn ==
  ASSUME Faults = {}, ~SameDevice, StemsDiffer
  PROVE  Spec => []HomeWhenClosed
<1>1. Init => FilesOK /\ Sandboxes /\ Matching /\ Tree /\ InPlace
  <2>1. Init => Matching /\ Tree
    BY DEF Init, Matching, Idle, Tree, Closed
  <2>2. ASSUME Init PROVE InPlace
    <3>1. step = <<"idle">> /\ stat = None /\ Home
      BY <2>2, NoneIs DEF Init, Home
    <3> QED
      BY <3>1 DEF InPlace, AtRest, AtLower, AtUpper, AtMount, AtRestore
  <2> QED
    BY <2>1, <2>2, InitFiles, InitSandboxes
<1>2. FilesOK /\ Sandboxes /\ Matching /\ Tree /\ InPlace /\ [Next]_vars
        => (FilesOK /\ Sandboxes /\ Matching /\ Tree /\ InPlace)'
  <2>1. NoFaults /\ "missing" \notin Faults
    BY DEF NoFaults
  <2> QED
    BY <2>1, NextFiles, NextSandboxes, NextMatching, NextTree, NextInPlace
<1>3. InPlace => HomeWhenClosed
  BY DEF InPlace, AtRest, Home, HomeWhenClosed
<1> QED
  BY <1>1, <1>2, <1>3, PTL DEF Spec
==============================================================================
