-------------------------- MODULE PluginManagerProofs --------------------------
(***************************************************************************)
(* Proofs about PluginManager, for every set of plugins, packages and      *)
(* versions, whichever names begin with one another, and either or both of *)
(* the threads.                                                            *)
(***************************************************************************)
EXTENDS PluginManager, FiniteSetTheorems, TLAPS

Ops == {"load", "install", "uninstall"}
Codes == {"none", "raised", "failed", "ALL_CLEAN"}

LEMMA Init_Calls == PluginInit => CallTypeOK
  BY DEF PluginInit, CallTypeOK

(* Every action is a step of an operation, the beginning of one, or the    *)
(* arrival of a package.                                                   *)
LEMMA Next_Begins ==
    ASSUME PluginNext, CallTypeOK
    PROVE  \/ \E t \in Thread : Steps(t)
           \/ \E t \in Thread, op \in Ops, n \in Name, d \in Package \union {root, temp} :
                  Begin(t, op, n, d) /\ UNCHANGED installed
           \/ \E p \in Package : Place(p)
<1>1. \A S \in SUBSET Package : S # {} => Last(S) \in Package
  BY OrderAssumption DEF Last
<1>2. ASSUME NEW t \in Thread, NEW n \in Name, Run(t, n)
      PROVE  \E m \in Name, d \in Package : Begin(t, "load", m, d) /\ UNCHANGED installed
  <2>1. Glob(n) \in SUBSET Package
    BY DEF Glob, CallTypeOK
  <2>2. Last(Glob(n)) \in Package
    BY <1>1, <1>2, <2>1 DEF Run
  <2>3. Info[Last(Glob(n))].name \in Name
    BY <2>2, PluginAssumption
  <2> QED BY <1>2, <2>2, <2>3 DEF Run
<1>3. ASSUME NEW t \in Thread, NEW n \in Name, NEW v, Load(t, n, v)
      PROVE  \E d \in Package : Begin(t, "load", n, d) /\ UNCHANGED installed
  <2>1. NewEnough(n, v) \in SUBSET Package
    BY DEF NewEnough, Glob, CallTypeOK
  <2> QED BY <1>1, <1>3, <2>1 DEF Load
<1>4. ASSUME NEW t \in Thread, NEW p \in Package, Install(t, p)
      PROVE  \E n \in Name : Begin(t, "install", n, temp) /\ UNCHANGED installed
  BY <1>4, PluginAssumption DEF Install
<1>5. ASSUME NEW t \in Thread, NEW n \in Name, Uninstall(t, n)
      PROVE  Begin(t, "uninstall", n, root) /\ UNCHANGED installed
  BY <1>5 DEF Uninstall
<1> QED BY <1>2, <1>3, <1>4, <1>5 DEF PluginNext, Ops

LEMMA Next_Calls == CallTypeOK /\ [PluginNext]_pluginVars => CallTypeOK'
<1> SUFFICES ASSUME CallTypeOK, [PluginNext]_pluginVars PROVE CallTypeOK'
  OBVIOUS
<1> USE DEF CallTypeOK, Ops, Codes
<1> USE PluginAssumption
<1>1. CASE UNCHANGED pluginVars
  BY <1>1 DEF pluginVars, place
<1>2. ASSUME NEW t \in Thread, NEW op \in Ops, NEW n \in Name, NEW d \in Package \union {root, temp},
             Begin(t, op, n, d), UNCHANGED installed
      PROVE  CallTypeOK'
  <2>1. [pc |-> "enter", op |-> op, name |-> n, dir |-> d,
         pwd |-> cwd, left |-> {}, code |-> "none"] \in Operation
    BY DEF Operation, Codes
  <2> QED BY <1>2, <2>1 DEF Begin
<1>3. ASSUME NEW t \in Thread, Enter(t)
      PROVE  CallTypeOK'
  <2>1. call[t] \in Operation
    BY <1>3 DEF Enter, Resting
  <2>2. Glob(call[t].name) \subseteq Package
    BY DEF Glob
  <2>3. call' \in [Thread -> {Resting} \union Operation]
    BY <1>3, <2>1, <2>2 DEF Enter, Operation
  <2>4. cwd' \in Package \union {home, root, temp}
    BY <1>3, <2>1 DEF Enter, ChangeDir, Operation
  <2> QED BY <1>3, <2>3, <2>4 DEF Enter
<1>4. ASSUME NEW t \in Thread, TestConfig(t)
      PROVE  CallTypeOK'
  <2>1. call[t] \in Operation
    BY <1>4 DEF TestConfig, Resting
  <2>2. PICK code \in Codes : Leave(t, code)
    BY <1>4 DEF TestConfig, Codes
  <2>3. [call[t] EXCEPT !.pc = "exit", !.code = code] \in Operation
    BY <2>1 DEF Operation
  <2> QED BY <1>4, <2>2, <2>3 DEF TestConfig, Leave, place
<1>5. ASSUME NEW t \in Thread, RemoveNext(t)
      PROVE  CallTypeOK'
  <2>1. call[t] \in Operation
    BY <1>5 DEF RemoveNext, Resting
  <2>2. CASE \E code \in Codes : Leave(t, code) /\ UNCHANGED installed
    <3>1. PICK code \in Codes : Leave(t, code) /\ UNCHANGED installed
      BY <2>2
    <3>2. [call[t] EXCEPT !.pc = "exit", !.code = code] \in Operation
      BY <2>1 DEF Operation
    <3> QED BY <1>5, <3>1, <3>2 DEF RemoveNext, Leave, place
  <2>3. CASE ~\E code \in Codes : Leave(t, code) /\ UNCHANGED installed
    <3> DEFINE p == First(call[t].left)
    <3>1. /\ installed' = installed \ {p}
          /\ call' = [call EXCEPT ![t].left = @ \ {p}]
      BY <1>5, <2>3 DEF RemoveNext, Codes
    <3>2. [call[t] EXCEPT !.left = call[t].left \ {p}] \in Operation
      BY <2>1 DEF Operation
    <3> HIDE DEF p
    <3> QED BY <1>5, <3>1, <3>2 DEF RemoveNext, place
  <2> QED BY <2>2, <2>3
<1>6. ASSUME NEW t \in Thread, Exit(t)
      PROVE  CallTypeOK'
  <2>1. call[t] \in Operation
    BY <1>6 DEF Exit, Resting
  <2>2. cwd' \in Package \union {home, root, temp}
    BY <1>6, <2>1 DEF Exit, ChangeDir, Operation
  <2> QED BY <1>6, <2>2 DEF Exit
<1>7. ASSUME NEW p \in Package, Place(p)
      PROVE  CallTypeOK'
  BY <1>7 DEF Place, place
<1>8. CASE PluginNext
  <2>1. CASE \E t \in Thread : Steps(t)
    BY <2>1, <1>3, <1>4, <1>5, <1>6 DEF Steps
  <2>2. CASE \E t \in Thread, op \in Ops, n \in Name, d \in Package \union {root, temp} :
                Begin(t, op, n, d) /\ UNCHANGED installed
    BY <2>2, <1>2
  <2>3. CASE \E p \in Package : Place(p)
    BY <2>3, <1>7
  <2> QED BY <1>8, <2>1, <2>2, <2>3, Next_Begins
<1> QED BY <1>1, <1>8

LEMMA Init_Types == PluginInit => PluginTypeOK
<1> SUFFICES ASSUME PluginInit PROVE PluginTypeOK
  OBVIOUS
<1>1. path \in Int
  BY DEF PluginInit
<1>2. overlapped \in BOOLEAN /\ missed \in BOOLEAN
  BY DEF PluginInit
<1> QED BY <1>1, <1>2, Init_Calls DEF PluginInit, PluginTypeOK

LEMMA Next_Types == PluginTypeOK /\ [PluginNext]_pluginVars => PluginTypeOK'
<1> SUFFICES ASSUME PluginTypeOK, [PluginNext]_pluginVars PROVE PluginTypeOK'
  OBVIOUS
<1> DEFINE rest == /\ built \subseteq installed \union {temp} /\ archive \in Package \union {home}
                   /\ path \in Int /\ overlapped \in BOOLEAN /\ missed \in BOOLEAN
<1>1. CASE UNCHANGED pluginVars
  BY <1>1 DEF pluginVars, place, PluginTypeOK, CallTypeOK
<1>2. ASSUME NEW t \in Thread, Enter(t) \/ Exit(t)
      PROVE  rest'
  <2>1. Pop => path' \in Int
    BY DEF Pop, PluginTypeOK
  <2>2. path + 1 \in Int
    BY DEF PluginTypeOK
  <2>3. path' \in Int
    <3>1. CASE Enter(t) BY <3>1, <2>1, <2>2 DEF Enter
    <3>2. CASE Exit(t)  BY <3>2, <2>1 DEF Exit
    <3> QED BY <1>2, <3>1, <3>2
  <2>4. missed' \in BOOLEAN /\ overlapped' \in BOOLEAN
    BY <1>2 DEF Enter, Exit, PluginTypeOK
  <2>5. built' \subseteq installed' \union {temp} /\ archive' \in Package \union {home}
    <3>1. CASE Enter(t) BY <3>1 DEF Enter, PluginTypeOK
    <3>2. CASE Exit(t)  BY <3>2 DEF Exit, PluginTypeOK
    <3> QED BY <1>2, <3>1, <3>2
  <2> QED BY <2>3, <2>4, <2>5
<1>3. ASSUME NEW t \in Thread, TestConfig(t)
      PROVE  rest'
  <2>1. Holds(cwd) \in Package /\ IsDir(cwd) => cwd \in installed \union {temp}
    BY PluginAssumption DEF Holds, IsDir, PluginTypeOK, CallTypeOK
  <2> QED BY <1>3, <2>1 DEF TestConfig, place, PluginTypeOK
<1>4. ASSUME NEW t \in Thread, RemoveNext(t)
      PROVE  rest'
  <2>1. built' \subseteq installed' \union {temp}
    BY <1>4 DEF RemoveNext, PluginTypeOK
  <2> QED BY <1>4, <2>1 DEF RemoveNext, place, PluginTypeOK
<1>5. ASSUME NEW t \in Thread, NEW op, NEW n, NEW d, Begin(t, op, n, d)
      PROVE  path' \in Int /\ overlapped' \in BOOLEAN /\ missed' \in BOOLEAN
  <2>1. overlapped' \in BOOLEAN
    BY <1>5 DEF Begin
  <2> QED BY <1>5, <2>1 DEF Begin, PluginTypeOK
<1>6. ASSUME NEW t \in Thread, NEW n \in Name, Run(t, n) \/ Uninstall(t, n)
      PROVE  rest'
  BY <1>5, <1>6 DEF Run, Uninstall, PluginTypeOK
<1>7. ASSUME NEW t \in Thread, NEW n \in Name, NEW v, Load(t, n, v)
      PROVE  rest'
  BY <1>5, <1>7 DEF Load, PluginTypeOK
<1>8. ASSUME NEW t \in Thread, NEW p \in Package, Install(t, p)
      PROVE  rest'
  BY <1>5, <1>8 DEF Install, PluginTypeOK
<1>9. ASSUME NEW p \in Package, Place(p)
      PROVE  rest'
  BY <1>9 DEF Place, place, PluginTypeOK
<1>10. CASE PluginNext
  <2>1. rest'
    BY <1>2, <1>3, <1>4, <1>6, <1>7, <1>8, <1>9, <1>10 DEF PluginNext, Steps
  <2> QED BY <2>1, Next_Calls DEF PluginTypeOK
<1> QED BY <1>1, <1>10

(* Whatever the operations of the threads do, in any order, what they keep *)
(* has its type; what is built is there, or is being installed.            *)
THEOREM PluginTyped == Spec => []PluginTypeOK
  BY Init_Types, Next_Types, PTL DEF Spec

------------------------------------------------------------------------------
(* uninstall *)

(* What is left to remove has every version of the plugin there is.        *)
NoneMissed == \A t \in Thread : call[t].pc = "uninstall" =>
                  \A p \in installed : Info[p].name = call[t].name => p \in call[t].left

LEMMA Init_NoneMissed == PluginInit => NoneMissed
  BY DEF PluginInit, NoneMissed, Resting

LEMMA Next_NoneMissed == CallTypeOK /\ NoneMissed /\ [PluginNext]_pluginVars => NoneMissed'
<1> SUFFICES ASSUME CallTypeOK, NoneMissed, [PluginNext]_pluginVars PROVE NoneMissed'
  OBVIOUS
<1> USE DEF CallTypeOK, NoneMissed
<1>1. CASE UNCHANGED pluginVars
  BY <1>1 DEF pluginVars
<1>2. ASSUME NEW t \in Thread, NEW op, NEW n, NEW d, Begin(t, op, n, d), UNCHANGED installed
      PROVE  NoneMissed'
  BY <1>2 DEF Begin
<1>3. ASSUME NEW t \in Thread, Enter(t)
      PROVE  NoneMissed'
  <2>1. call[t] \in Operation
    BY <1>3 DEF Enter, Resting
  <2>2. \A u \in Thread \ {t} : call'[u] = call[u]
    BY <1>3 DEF Enter
  <2>3. /\ call'[t].pc = call[t].op /\ call'[t].name = call[t].name
        /\ call[t].op = "uninstall" => call'[t].left = Glob(call[t].name)
    BY <1>3, <2>1 DEF Enter, Operation
  <2> QED BY <1>3, <2>2, <2>3 DEF Enter, Glob
<1>4. ASSUME NEW t \in Thread, TestConfig(t)
      PROVE  NoneMissed'
  <2>1. PICK code : Leave(t, code)
    BY <1>4 DEF TestConfig
  <2>2. call[t] \in Operation
    BY <1>4 DEF TestConfig, Resting
  <2> QED BY <1>4, <2>1, <2>2 DEF TestConfig, Leave, Operation
<1>5. ASSUME NEW t \in Thread, RemoveNext(t)
      PROVE  NoneMissed'
  <2>1. call[t] \in Operation
    BY <1>5 DEF RemoveNext, Resting
  <2>2. \A u \in Thread \ {t} : call'[u] = call[u]
    BY <1>5 DEF RemoveNext, Leave
  <2>3. installed' \subseteq installed
    BY <1>5 DEF RemoveNext
  <2>4. call'[t].pc = "exit" \/ \E p : /\ call'[t].left = call[t].left \ {p}
                                       /\ call'[t].name = call[t].name
                                       /\ installed' = installed \ {p}
    BY <1>5, <2>1 DEF RemoveNext, Leave, Operation
  <2> QED BY <1>5, <2>2, <2>3, <2>4 DEF RemoveNext
<1>6. ASSUME NEW t \in Thread, Exit(t)
      PROVE  NoneMissed'
  BY <1>6 DEF Exit, Resting
<1>7. ASSUME NEW p \in Package, Place(p)
      PROVE  NoneMissed'
  BY <1>7 DEF Place
<1> QED BY <1>1, <1>2, <1>3, <1>4, <1>5, <1>6, <1>7, Next_Begins DEF Steps

LEMMA Completes ==
    ASSUME CallTypeOK, NoneMissed, [PluginNext]_pluginVars, NEW t \in Thread,
           call[t].pc = "uninstall", call'[t].pc = "exit", call'[t].code = "ALL_CLEAN"
    PROVE  call[t].name \notin {Info[p].name : p \in installed}
<1>1. RemoveNext(t)
  <2>1. ASSUME NEW u \in Thread, Steps(u), u # t
        PROVE  call'[t] = call[t]
    BY <2>1 DEF Steps, Enter, TestConfig, RemoveNext, Leave, Exit, CallTypeOK
  <2>2. ASSUME NEW u \in Thread, NEW op, NEW n, NEW d, Begin(u, op, n, d)
        PROVE  call'[t] = call[t] \/ call'[t].pc = "enter"
    BY <2>2 DEF Begin, CallTypeOK
  <2>3. ASSUME NEW p \in Package, Place(p)
        PROVE  call' = call
    BY <2>3 DEF Place
  <2>4. Steps(t)
    BY <2>1, <2>2, <2>3, Next_Begins DEF pluginVars
  <2> QED BY <2>4 DEF Steps, Enter, TestConfig, Exit
<1>2. call[t] \in Operation
  BY DEF CallTypeOK, Resting
<1>3. call[t].left = {}
  BY <1>1, <1>2 DEF RemoveNext, Leave, Operation, CallTypeOK
<1> QED BY <1>1, <1>3 DEF NoneMissed, RemoveNext, Leave

(* When uninstall reports success, no version of the plugin is left.       *)
THEOREM UninstallsAll == Spec => UninstallComplete
<1>1. CallTypeOK /\ NoneMissed /\ [PluginNext]_pluginVars =>
          [\A t \in Thread :
              call[t].pc = "uninstall" /\ call'[t].pc = "exit" /\ call'[t].code = "ALL_CLEAN" =>
                  call[t].name \notin {Info[p].name : p \in installed}]_pluginVars
  BY Completes
<1> QED BY Init_Calls, Next_Calls, Init_NoneMissed, Next_NoneMissed, <1>1, PTL
        DEF Spec, UninstallComplete

------------------------------------------------------------------------------
(* WorkSpace *)

(* While no two workspaces have overlapped, the one that is open goes back *)
(* home.                                                                   *)
OneAtATime == \A t, u \in Thread : t = u \/ Idle(t) \/ Idle(u)
GoesHome == \A t \in Thread : ~Idle(t) => call[t].pwd = home
BackHome == ~overlapped => OneAtATime /\ GoesHome /\ HomeAlone

LEMMA Init_BackHome == PluginInit => BackHome
  BY DEF PluginInit, BackHome, OneAtATime, GoesHome, HomeAlone, Idle, Resting

(* A step of an operation that changes at most the working directory.      *)
LEMMA Going_BackHome ==
    ASSUME CallTypeOK, BackHome, NEW t \in Thread, ~Idle(t), UNCHANGED overlapped,
           \A u \in Thread \ {t} : call'[u] = call[u],
           call'[t].pc # "idle", call'[t].pwd = call[t].pwd
    PROVE  BackHome'
  BY DEF BackHome, OneAtATime, GoesHome, HomeAlone, Idle, AllRest

LEMMA Next_BackHome == CallTypeOK /\ BackHome /\ [PluginNext]_pluginVars => BackHome'
<1> SUFFICES ASSUME CallTypeOK, BackHome, [PluginNext]_pluginVars PROVE BackHome'
  OBVIOUS
<1> USE DEF CallTypeOK
<1>1. CASE UNCHANGED <<cwd, overlapped, call>>
  BY <1>1 DEF BackHome, OneAtATime, GoesHome, HomeAlone, AllRest, Idle
<1>2. ASSUME NEW t \in Thread, NEW op, NEW n, NEW d, Begin(t, op, n, d)
      PROVE  BackHome'
  <2> SUFFICES ASSUME ~overlapped' PROVE (OneAtATime /\ GoesHome /\ HomeAlone)'
    BY DEF BackHome
  <2>1. ~overlapped /\ Idle(t) /\ \A u \in Thread \ {t} : Idle(u)
    BY <1>2 DEF Begin
  <2>2. cwd = home
    BY <2>1 DEF BackHome, HomeAlone, AllRest
  <2>3. call' = [call EXCEPT ![t] = [pc |-> "enter", op |-> op, name |-> n, dir |-> d,
                                    pwd |-> cwd, left |-> {}, code |-> "none"]]
    BY <1>2 DEF Begin
  <2>4. call'[t].pc = "enter" /\ call'[t].pwd = home /\ \A u \in Thread \ {t} : call'[u] = call[u]
    BY <2>2, <2>3
  <2> QED BY <2>1, <2>4 DEF OneAtATime, GoesHome, HomeAlone, AllRest, Idle
<1>3. ASSUME NEW t \in Thread, Enter(t) \/ TestConfig(t) \/ RemoveNext(t)
      PROVE  BackHome'
  <2>1. call[t] \in Operation
    BY <1>3 DEF Enter, TestConfig, RemoveNext, Resting
  <2>2. ~Idle(t) /\ UNCHANGED overlapped
    BY <1>3 DEF Enter, TestConfig, RemoveNext, Idle, place
  <2>3. \A u \in Thread \ {t} : call'[u] = call[u]
    BY <1>3 DEF Enter, TestConfig, RemoveNext, Leave
  <2>4. call'[t].pc # "idle" /\ call'[t].pwd = call[t].pwd
    <3>1. CASE Enter(t)
      BY <3>1, <2>1 DEF Enter, Operation, Ops
    <3>2. CASE TestConfig(t)
      <4>1. PICK code : Leave(t, code)
        BY <3>2 DEF TestConfig
      <4> QED BY <4>1, <2>1 DEF Leave, Operation
    <3>3. CASE RemoveNext(t)
      BY <3>3, <2>1 DEF RemoveNext, Leave, Operation
    <3> QED BY <1>3, <3>1, <3>2, <3>3
  <2> QED BY <2>2, <2>3, <2>4, Going_BackHome
<1>4. ASSUME NEW t \in Thread, Exit(t)
      PROVE  BackHome'
  <2>1. ~Idle(t) /\ call'[t] = Resting /\ UNCHANGED overlapped
    BY <1>4 DEF Exit, Idle
  <2>2. \A u \in Thread \ {t} : call'[u] = call[u]
    BY <1>4 DEF Exit
  <2>3. ~overlapped => cwd' = home
    BY <1>4, <2>1 DEF Exit, ChangeDir, IsDir, BackHome, GoesHome
  <2> QED BY <2>1, <2>2, <2>3
          DEF BackHome, OneAtATime, GoesHome, HomeAlone, AllRest, Idle, Resting
<1>5. ASSUME NEW p \in Package, Place(p)
      PROVE  BackHome'
  BY <1>1, <1>5 DEF Place, place
<1> QED BY <1>1, <1>2, <1>3, <1>4, <1>5, Next_Begins DEF Steps, pluginVars, place

(* However operations end, the process is back where it was, unless the    *)
(* workspaces of two threads overlapped (WorkSpace.__exit__).              *)
THEOREM WorkSpaceGoesHome == Spec => []HomeAlone
<1>1. BackHome => HomeAlone
  BY DEF BackHome, HomeAlone
<1> QED BY Init_Calls, Next_Calls, Init_BackHome, Next_BackHome, <1>1, PTL DEF Spec

(* sys.path has an entry for each workspace that is open.                  *)
Inside == {t \in Thread : call[t].pc \notin {"idle", "enter"}}
Counted == ~missed => path = Cardinality(Inside)

LEMMA FewThreads == \A S \in SUBSET Thread : IsFiniteSet(S)
<1>1. IsFiniteSet({"main", "worker"})
  <2>1. IsFiniteSet({"main"})
    BY FS_Singleton
  <2>2. {"main", "worker"} = {"main"} \union {"worker"}
    OBVIOUS
  <2> QED BY <2>1, <2>2, FS_AddElement
<1> QED BY <1>1, FS_Subset, PluginAssumption

LEMMA Init_Counted == PluginInit => Counted
<1> SUFFICES ASSUME PluginInit PROVE Counted
  OBVIOUS
<1>1. Inside = {}
  BY DEF PluginInit, Inside, Resting
<1> QED BY <1>1, FS_EmptySet DEF PluginInit, Counted

LEMMA Next_Counted == CallTypeOK /\ Counted /\ [PluginNext]_pluginVars => Counted'
<1> SUFFICES ASSUME CallTypeOK, Counted, [PluginNext]_pluginVars PROVE Counted'
  OBVIOUS
<1> USE DEF CallTypeOK
<1>1. CASE UNCHANGED <<path, missed, Inside>>
  BY <1>1 DEF Counted
<1>2. ASSUME NEW t \in Thread, NEW op, NEW n, NEW d, Begin(t, op, n, d)
      PROVE  Counted'
  <2>1. Inside' = Inside
    BY <1>2 DEF Begin, Inside, Idle
  <2> QED BY <1>1, <1>2, <2>1 DEF Begin
<1>3. ASSUME NEW t \in Thread, Enter(t)
      PROVE  Counted'
  <2> SUFFICES ASSUME ~missed' PROVE path' = Cardinality(Inside')
    BY DEF Counted
  <2>1. ~missed /\ path' = path + 1
    BY <1>3 DEF Enter
  <2>2. call[t] \in Operation
    BY <1>3 DEF Enter, Resting
  <2>3. call'[t].pc \in Ops /\ \A u \in Thread \ {t} : call'[u] = call[u]
    BY <1>3, <2>2 DEF Enter, Operation, Ops
  <2>4. t \notin Inside /\ Inside' = Inside \union {t}
    <3>1. call[t].pc = "enter" /\ call'[t].pc \notin {"idle", "enter"}
      BY <1>3, <2>3 DEF Enter, Ops
    <3> QED BY <2>3, <3>1 DEF Inside
  <2>5. Cardinality(Inside \union {t}) = Cardinality(Inside) + 1
    BY <2>4, FewThreads, FS_AddElement DEF Inside
  <2>6. path = Cardinality(Inside)
    BY <2>1 DEF Counted
  <2> QED BY <2>1, <2>4, <2>5, <2>6
<1>4. ASSUME NEW t \in Thread, TestConfig(t) \/ RemoveNext(t)
      PROVE  Counted'
  <2>1. call[t] \in Operation
    BY <1>4 DEF TestConfig, RemoveNext, Resting
  <2>2. call'[t].pc \in {"exit", "uninstall"} /\ \A u \in Thread \ {t} : call'[u] = call[u]
    BY <1>4, <2>1 DEF TestConfig, RemoveNext, Leave, Operation
  <2>3. Inside' = Inside
    BY <1>4, <2>2 DEF TestConfig, RemoveNext, Inside
  <2> QED BY <1>1, <1>4, <2>3 DEF TestConfig, RemoveNext, place
<1>5. ASSUME NEW t \in Thread, Exit(t)
      PROVE  Counted'
  <2> SUFFICES ASSUME ~missed' PROVE path' = Cardinality(Inside')
    BY DEF Counted
  <2>1. ~missed /\ path = Cardinality(Inside)
    BY <1>5 DEF Exit, Counted
  <2>2. t \in Inside /\ Inside' = Inside \ {t}
    BY <1>5 DEF Exit, Inside, Resting
  <2>3. Cardinality(Inside) \in Nat /\ Cardinality(Inside') = Cardinality(Inside) - 1
    BY <2>2, FewThreads, FS_RemoveElement, FS_CardinalityType DEF Inside
  <2> QED BY <1>5, <2>1, <2>3 DEF Exit, Pop, MaxEaten
<1>6. ASSUME NEW p \in Package, Place(p)
      PROVE  Counted'
  BY <1>1, <1>6 DEF Place, place, Inside
<1> QED BY <1>1, <1>2, <1>3, <1>4, <1>5, <1>6, Next_Begins DEF Steps, pluginVars, place, Inside

(* However the workspaces of the threads overlap, sys.path is what it was  *)
(* when all are left, unless one was entered whose directory was gone.     *)
THEOREM WorkSpaceKeepsPath == Spec => []PathSettles
<1>1. Counted => PathSettles
  <2> SUFFICES ASSUME Counted, AllRest, ~missed PROVE path = 0
    BY DEF PathSettles
  <2>1. Inside = {}
    BY DEF Inside, AllRest, Idle
  <2> QED BY <2>1, FS_EmptySet DEF Counted
<1> QED BY Init_Calls, Next_Calls, Init_Counted, Next_Counted, <1>1, PTL DEF Spec
==============================================================================
