-------------------------- MODULE CoreManagerProofs --------------------------
(***************************************************************************)
(* What the operations promise when none starts before the last has ended, *)
(* for any domains, plugins and threads, with failures, crashes and        *)
(* restarts: one sandbox, a close that closes, a failed open that is       *)
(* undone; and, as long as no callback raises, sessions that are restored  *)
(* and never replaced by older ones.                                       *)
(***************************************************************************)
EXTENDS CoreManager, TLAPS

Pcs == {"check", "start", "load", "loading", "blade", "tasks", "finalize", "kill"}
Codes == {"clean", "failed", "traceback"}

ThreadTyped ==
    /\ thread \in [Thread -> {IdleThread} \union Busy]
    /\ result \in [Thread -> {NoResult} \union [op : {"open", "save", "close"}, code : Codes]]
    /\ up \in {"down", "starting", "up"}

DataTyped ==
    /\ stat \in Domain \union {None} /\ sandboxes \subseteq Domain /\ moved \subseteq Domain
    /\ plugins \in {None} \union [of : Domain, names : SUBSET Plugin]
    /\ running \subseteq Plugin /\ shown \in [Plugin -> Content]
    /\ session \in [Domain -> [Plugin -> Content]]
    /\ work \in Content

(* Where a thread may be in which operation.                               *)
Place(t) ==
    ~Idle(t) =>
        /\ thread[t].op = "open" => thread[t].goal \in Domain
        /\ thread[t].pc \in {"check", "start", "load", "loading"} => thread[t].op = "open"
        /\ thread[t].pc = "loading" => plugins # None
        /\ thread[t].pc = "tasks" => thread[t].of \in Domain
Places == \A t \in Thread : Place(t)

(* Nothing shown, kept or saved is later than the last work.               *)
Kept(t) == ~Idle(t) => \A x \in Plugin : thread[t].kept[x] <= work
Bounded ==
    /\ \A x \in Plugin : shown[x] <= work
    /\ \A d \in Domain, x \in Plugin : session[d][x] <= work
    /\ \A t \in Thread : Kept(t)

Settled == TypeOK /\ Places /\ Bounded

LEMMA TypeParts == TypeOK <=> setting \in Setting /\ ThreadTyped /\ DataTyped
  BY DEF TypeOK, ThreadTyped, DataTyped, Codes

------------------------------------------------------------------------------
(* Types *)

LEMMA BusyIs ==
  ASSUME ThreadTyped, NEW t \in Thread, ~Idle(t)
  PROVE  thread[t] \in Busy
BY DEF ThreadTyped, Idle, IdleThread

LEMMA ReturnTyped ==
  ASSUME ThreadTyped, NEW t \in Thread, ~Idle(t), NEW code \in Codes, Return(t, code),
         setting' = setting
  PROVE  ThreadTyped'
<1>1. [op |-> thread[t].op, code |-> code] \in [op : {"open", "save", "close"}, code : Codes]
  BY BusyIs DEF Busy
<1> QED
  BY <1>1 DEF Return, ThreadTyped, Thread

LEMMA GotoTyped ==
  ASSUME ThreadTyped, NEW t \in Thread, ~Idle(t), NEW pc \in Pcs, Goto(t, pc),
         UNCHANGED <<result, up, setting>>
  PROVE  ThreadTyped'
<1>1. [thread[t] EXCEPT !.pc = pc] \in Busy
  BY BusyIs DEF Busy, Pcs
<1> QED
  BY <1>1 DEF Goto, ThreadTyped, Thread

LEMMA FailTyped ==
  ASSUME ThreadTyped, NEW t \in Thread, ~Idle(t), Fail(t), UNCHANGED <<result, up, setting>>
  PROVE  ThreadTyped'
<1>1. [thread[t] EXCEPT !.pc = "finalize", !.bad = TRUE] \in Busy
  BY BusyIs DEF Busy
<1> QED
  BY <1>1 DEF Fail, ThreadTyped, Thread

LEMMA CallTyped ==
  ASSUME ThreadTyped, DataTyped, NEW t \in Thread, NEW op \in {"open", "save", "close"},
         NEW goal \in Domain \union {None}, NEW pc \in Pcs, thread' = Call(t, op, goal, pc),
         UNCHANGED <<result, setting>>, up' \in {up, "starting"}
  PROVE  ThreadTyped'
<1>1. [x \in {} |-> ""] \in [{} -> Phase]
  OBVIOUS
<1>2. [x \in {} |-> ""] \in UNION {[S -> Phase] : S \in SUBSET Plugin}
  BY <1>1
<1>3. [pc |-> pc, op |-> op, goal |-> goal, of |-> None,
       tasks |-> [x \in {} |-> ""], kept |-> shown, bad |-> FALSE] \in Busy
  BY <1>2 DEF Busy, Pcs, DataTyped
<1> QED
  BY <1>3 DEF Call, ThreadTyped, Thread

(* The tasks of an operation are phases of plugins.                        *)
LEMMA TasksTyped ==
  ASSUME NEW b \in Busy, NEW x \in DOMAIN b.tasks
  PROVE  /\ x \in Plugin /\ b.tasks[x] \in Phase
         /\ Without(b.tasks, x) \in UNION {[S -> Phase] : S \in SUBSET Plugin}
         /\ \A p \in Phase : [b.tasks EXCEPT ![x] = p] \in UNION {[S -> Phase] : S \in SUBSET Plugin}
<1>1. PICK S \in SUBSET Plugin : b.tasks \in [S -> Phase]
  BY DEF Busy
<1>2. Without(b.tasks, x) \in [S \ {x} -> Phase] /\ S \ {x} \in SUBSET Plugin
  BY <1>1 DEF Without
<1>3. \A p \in Phase : [b.tasks EXCEPT ![x] = p] \in [S -> Phase]
  BY <1>1
<1> QED
  BY <1>1, <1>2, <1>3

ThreadStep(t) ==
    \/ \E op \in {"save", "close"} : Begin(t, op)
    \/ \E d \in Domain : Switch(t, d)
    \/ Check(t) \/ StartSandbox(t) \/ ReadStat(t) \/ Kill(t)
    \/ Load(t) \/ LoadPlugin(t) \/ Blade(t) \/ TasksEnd(t)
    \/ \E x \in Plugin : Task(t, x) \/ TaskFails(t, x)

LEMMA ThreadStepTyped ==
  ASSUME TypeOK, Places, NEW t \in Thread, ThreadStep(t), setting' = setting
  PROVE  ThreadTyped' /\ DataTyped'
<1> USE TypeParts
<1>1. ASSUME NEW op \in {"save", "close"}, Begin(t, op) PROVE ThreadTyped' /\ DataTyped'
  <2>1. ThreadTyped'
    BY <1>1, CallTyped DEF Begin, Pcs
  <2> QED
    BY <1>1, <2>1 DEF Begin, domain, apps, DataTyped
<1>2. ASSUME NEW d \in Domain, Switch(t, d) PROVE ThreadTyped' /\ DataTyped'
  <2>1. ThreadTyped'
    <3>1. ASSUME thread' = Call(t, "open", d, "check") PROVE ThreadTyped'
      BY <1>2, <3>1, CallTyped DEF Switch, Pcs
    <3>2. ASSUME thread' = Call(t, "save", d, "blade") PROVE ThreadTyped'
      BY <1>2, <3>2, CallTyped DEF Switch, Pcs
    <3> QED
      BY <1>2, <3>1, <3>2 DEF Switch
  <2> QED
    BY <1>2, <2>1 DEF Switch, domain, apps, DataTyped
<1>3. CASE Check(t)
  <2>1. ~Idle(t)
    BY <1>3 DEF Check, Idle
  <2>2. ThreadTyped'
    BY <1>3, <2>1, ReturnTyped, GotoTyped DEF Check, Codes, Pcs
  <2> QED
    BY <1>3, <2>2 DEF Check, domain, apps, DataTyped
<1>4. CASE StartSandbox(t)
  <2>1. ~Idle(t) /\ thread[t].goal \in Domain
    BY <1>4 DEF StartSandbox, Idle, Places, Place
  <2>2. ThreadTyped'
    BY <1>4, <2>1, ReturnTyped, GotoTyped DEF StartSandbox, Codes, Pcs
  <2> QED
    BY <1>4, <2>1, <2>2 DEF StartSandbox, apps, DataTyped
<1>5. CASE ReadStat(t)
  <2>1. ~Idle(t) /\ thread[t] \in Busy
    BY <1>5, BusyIs DEF ReadStat, Idle
  <2>2. ASSUME AfterFinalize(t, FALSE) PROVE ThreadTyped'
    BY <2>1, <2>2, ReturnTyped DEF AfterFinalize, Codes
  <2>3. ASSUME UNCHANGED <<result, up>>,
               thread' = [thread EXCEPT ![t].pc = "kill", ![t].of = stat]
        PROVE  ThreadTyped'
    <3>1. [thread[t] EXCEPT !.pc = "kill", !.of = stat] \in Busy
      BY <2>1 DEF DataTyped, Busy
    <3> QED
      BY <2>3, <3>1 DEF ThreadTyped, Thread
  <2>4. ThreadTyped'
    BY <1>5, <2>2, <2>3 DEF ReadStat, ThreadTyped
  <2> QED
    BY <1>5, <2>4 DEF ReadStat, domain, apps, DataTyped
<1>6. CASE Kill(t)
  <2>1. ~Idle(t)
    BY <1>6 DEF Kill, Idle
  <2>2. ThreadTyped'
    BY <1>6, <2>1, ReturnTyped DEF Kill, AfterFinalize, Codes
  <2> QED
    BY <1>6, <2>2 DEF Kill, Killed, apps, DataTyped
<1>7. CASE Load(t)
  <2>1. ~Idle(t) /\ thread[t].goal \in Domain
    BY <1>7 DEF Load, Idle, Places, Place
  <2>2. ThreadTyped'
    BY <1>7, <2>1, GotoTyped, FailTyped DEF Load, Pcs
  <2> QED
    BY <1>7, <2>1, <2>2 DEF Load, domain, apps, DataTyped
<1>8. CASE LoadPlugin(t)
  <2>1. ~Idle(t) /\ plugins # None /\ plugins \in [of : Domain, names : SUBSET Plugin]
    BY <1>8 DEF LoadPlugin, Idle, Places, Place, DataTyped
  <2>2. ThreadTyped'
    <3>1. CASE UNCHANGED thread
      BY <1>8, <3>1 DEF LoadPlugin, ThreadTyped, Thread
    <3>2. CASE Goto(t, "blade") \/ Goto(t, "finalize") \/ Fail(t)
      BY <1>8, <2>1, <3>2, GotoTyped, FailTyped DEF LoadPlugin, Pcs
    <3> QED
      BY <1>8, <3>1, <3>2 DEF LoadPlugin
  <2>3. Enabled \subseteq Plugin
    BY CoreAssumption DEF Enabled
  <2>4. plugins' \in [of : Domain, names : SUBSET Plugin]
    BY <1>8, <2>1, <2>3 DEF LoadPlugin
  <2> QED
    BY <1>8, <2>2, <2>4 DEF LoadPlugin, domain, apps, DataTyped
<1>9. CASE Blade(t)
  <2>1. ~Idle(t) /\ thread[t] \in Busy
    BY <1>9, BusyIs DEF Blade, Idle
  <2>2. ASSUME plugins # None, UNCHANGED <<result, up>>,
               thread' = [thread EXCEPT ![t].pc = "tasks", ![t].of = plugins.of,
                             ![t].tasks = [x \in plugins.names |-> First[thread[t].op]]]
        PROVE  ThreadTyped'
    <3>1. plugins \in [of : Domain, names : SUBSET Plugin]
      BY <2>2 DEF DataTyped
    <3>2. First[thread[t].op] \in Phase
      BY <2>1 DEF Busy, First, Phase
    <3>3. [x \in plugins.names |-> First[thread[t].op]] \in [plugins.names -> Phase]
      BY <3>2
    <3>4. [thread[t] EXCEPT !.pc = "tasks", !.of = plugins.of,
                            !.tasks = [x \in plugins.names |-> First[thread[t].op]]] \in Busy
      <4> DEFINE tasks == [x \in plugins.names |-> First[thread[t].op]]
      <4>1. tasks \in UNION {[S -> Phase] : S \in SUBSET Plugin} /\ plugins.of \in Domain
        BY <3>1, <3>3
      <4> HIDE DEF tasks
      <4>2. [thread[t] EXCEPT !.pc = "tasks", !.of = plugins.of, !.tasks = tasks] \in Busy
        BY <2>1, <4>1 DEF Busy
      <4> QED BY <4>2 DEF tasks
    <3> QED
      BY <2>2, <3>4 DEF ThreadTyped, Thread
  <2>3. ASSUME Raised(t) PROVE ThreadTyped'
    BY <2>1, <2>3, GotoTyped, ReturnTyped DEF Raised, Codes, Pcs
  <2>4. ThreadTyped'
    BY <1>9, <2>2, <2>3 DEF Blade
  <2> QED
    BY <1>9, <2>4 DEF Blade, domain, apps, DataTyped
<1>10. CASE TasksEnd(t)
  <2>1. ~Idle(t)
    BY <1>10 DEF TasksEnd, Idle
  <2>2. ThreadTyped'
    BY <1>10, <2>1, GotoTyped, ReturnTyped DEF TasksEnd, Closes, Undo, Codes, Pcs
  <2> QED
    BY <1>10, <2>2 DEF TasksEnd, domain, apps, DataTyped
<1>11. ASSUME NEW x \in Plugin, Task(t, x) PROVE ThreadTyped' /\ DataTyped'
  <2> DEFINE phase == thread[t].tasks[x]
             after == IF phase \in DOMAIN Following THEN [thread[t].tasks EXCEPT ![x] = Following[phase]]
                                                    ELSE Without(thread[t].tasks, x)
             kept == IF phase = "save" THEN shown[x] ELSE thread[t].kept[x]
  <2>1. ~Idle(t) /\ thread[t] \in Busy /\ x \in DOMAIN thread[t].tasks
    BY <1>11, BusyIs DEF Task, Idle
  <2>2. phase \in Phase /\ after \in UNION {[S -> Phase] : S \in SUBSET Plugin}
    <3>1. \A p \in DOMAIN Following : Following[p] \in Phase
      BY DEF Following, Phase
    <3> QED
      BY <2>1, <3>1, TasksTyped
  <2>3. kept \in Content
    BY <2>1 DEF Busy, DataTyped
  <2>4. thread' = [thread EXCEPT ![t] = [thread[t] EXCEPT !.tasks = after, !.kept[x] = kept]]
    BY <1>11, <2>1 DEF Task, Advance, ThreadTyped
  <2>5. [thread[t] EXCEPT !.tasks = after, !.kept[x] = kept] \in Busy
    <3> HIDE DEF after, kept
    <3> QED
      BY <2>1, <2>2, <2>3 DEF Busy
  <2>6. ThreadTyped'
    <3> HIDE DEF after, kept
    <3> QED
      BY <1>11, <2>4, <2>5 DEF Task, ThreadTyped, Thread
  <2>7. DataTyped'
    <3>1. thread[t].kept[x] \in Content
      BY <2>1 DEF Busy
    <3>2. UNCHANGED <<domain, plugins>> /\ Effect(t, x, phase)
      BY <1>11 DEF Task
    <3>3. shown' \in [Plugin -> Content]
      <4>1. 0 \in Content
        BY CoreAssumption DEF Content
      <4> DEFINE from == session[thread[t].of][x]
      <4>2. \/ shown' = shown
            \/ shown' = [shown EXCEPT ![x] = 0]
            \/ shown' = [shown EXCEPT ![x] = IF from # 0 THEN from ELSE @]
        BY <2>2, <3>2 DEF Effect, OnStart, OnStop, OnClose, OnResume, Phase, apps
      <4>3. from \in Content
        BY <1>11, <2>1 DEF Task, Places, Place, DataTyped
      <4> HIDE DEF from
      <4> QED
        BY <4>1, <4>2, <4>3 DEF DataTyped
    <3>4. session' \in [Domain -> [Plugin -> Content]]
      <4> DEFINE of == thread[t].of
      <4>1. session' = session \/ session' = [session EXCEPT ![of][x] = thread[t].kept[x]]
        BY <2>2, <3>2 DEF Effect, Phase
      <4> HIDE DEF of
      <4> QED
        BY <3>1, <4>1 DEF DataTyped
    <3> QED
      BY <2>2, <3>2, <3>3, <3>4 DEF Effect, OnStart, OnStop, OnClose, OnResume, Phase, domain, apps, DataTyped
  <2> QED
    BY <2>6, <2>7
<1>12. ASSUME NEW x \in Plugin, TaskFails(t, x) PROVE ThreadTyped' /\ DataTyped'
  <2>1. ~Idle(t) /\ thread[t] \in Busy /\ x \in DOMAIN thread[t].tasks
    BY <1>12, BusyIs DEF TaskFails, Idle
  <2>2. PICK reported \in BOOLEAN :
            thread' = [thread EXCEPT ![t].tasks = Without(@, x), ![t].bad = @ \/ reported]
    BY <1>12 DEF TaskFails
  <2>3. (thread[t].bad \/ reported) \in BOOLEAN
    BY <2>1 DEF Busy
  <2>4. [thread[t] EXCEPT !.tasks = Without(thread[t].tasks, x), !.bad = thread[t].bad \/ reported] \in Busy
    <3> DEFINE bad == thread[t].bad \/ reported
    <3> HIDE DEF bad
    <3> QED
      BY <2>1, <2>3, TasksTyped DEF Busy, bad
  <2>5. ThreadTyped'
    BY <1>12, <2>2, <2>4 DEF TaskFails, ThreadTyped, Thread
  <2> QED
    BY <1>12, <2>5 DEF TaskFails, domain, apps, DataTyped
<1> QED
  BY <1>1, <1>2, <1>3, <1>4, <1>5, <1>6, <1>7, <1>8, <1>9, <1>10, <1>11, <1>12 DEF ThreadStep

------------------------------------------------------------------------------
(* How the steps of a thread change it                                     *)

Others(t) == \A u \in Thread \ {t} : thread'[u] = thread[u]

LEMMA ReturnIs ==
  ASSUME ThreadTyped, NEW t \in Thread, ~Idle(t), NEW code, Return(t, code)
  PROVE  /\ Others(t) /\ thread'[t] = IdleThread /\ Idle(t)'
         /\ result'[t].code = code
BY DEF Return, ThreadTyped, Others, Idle, IdleThread

LEMMA GotoIs ==
  ASSUME ThreadTyped, NEW t \in Thread, ~Idle(t), NEW pc \in Pcs, Goto(t, pc)
  PROVE  /\ Others(t) /\ ~Idle(t)' /\ thread'[t].pc = pc
         /\ thread'[t].op = thread[t].op /\ thread'[t].goal = thread[t].goal
         /\ thread'[t].of = thread[t].of /\ thread'[t].tasks = thread[t].tasks
         /\ thread'[t].kept = thread[t].kept /\ thread'[t].bad = thread[t].bad
<1>1. thread[t] \in Busy
  BY BusyIs
<1>2. thread'[t] = [thread[t] EXCEPT !.pc = pc] /\ Others(t)
  BY DEF Goto, ThreadTyped, Others
<1> QED
  BY <1>1, <1>2 DEF Busy, Pcs, Idle

LEMMA FailIs ==
  ASSUME ThreadTyped, NEW t \in Thread, ~Idle(t), Fail(t)
  PROVE  /\ Others(t) /\ ~Idle(t)' /\ thread'[t].pc = "finalize"
         /\ thread'[t].op = thread[t].op /\ thread'[t].goal = thread[t].goal
         /\ thread'[t].kept = thread[t].kept
<1>1. thread[t] \in Busy
  BY BusyIs
<1>2. thread'[t] = [thread[t] EXCEPT !.pc = "finalize", !.bad = TRUE] /\ Others(t)
  BY DEF Fail, ThreadTyped, Others
<1>3. /\ thread'[t].pc = "finalize" /\ thread'[t].op = thread[t].op
      /\ thread'[t].goal = thread[t].goal /\ thread'[t].kept = thread[t].kept
  BY <1>1, <1>2 DEF Busy
<1> QED
  BY <1>2, <1>3 DEF Idle

LEMMA CallIs ==
  ASSUME ThreadTyped, NEW t \in Thread, NEW op, NEW goal, NEW pc \in Pcs,
         thread' = Call(t, op, goal, pc)
  PROVE  /\ Others(t) /\ ~Idle(t)' /\ thread'[t].pc = pc
         /\ thread'[t].op = op /\ thread'[t].goal = goal /\ thread'[t].kept = shown
         /\ ~thread'[t].bad
BY DEF Call, ThreadTyped, Others, Idle, Pcs

(* The steps that do more to their thread than to move it.                 *)
Killing(t) == thread' = [thread EXCEPT ![t].pc = "kill", ![t].of = stat]
Calling(t, of, tasks) ==
    thread' = [thread EXCEPT ![t].pc = "tasks", ![t].of = of, ![t].tasks = tasks]
Failing(t, x, reported) ==
    thread' = [thread EXCEPT ![t].tasks = Without(@, x), ![t].bad = @ \/ reported]

LEMMA KillingIs ==
  ASSUME ThreadTyped, NEW t \in Thread, ~Idle(t), Killing(t)
  PROVE  /\ Others(t) /\ ~Idle(t)' /\ thread'[t].pc = "kill" /\ thread'[t].of = stat
         /\ thread'[t].op = thread[t].op /\ thread'[t].goal = thread[t].goal
         /\ thread'[t].kept = thread[t].kept
<1>1. thread[t] \in Busy
  BY BusyIs
<1>2. thread'[t] = [thread[t] EXCEPT !.pc = "kill", !.of = stat] /\ Others(t)
  BY DEF ThreadTyped, Others, Killing
<1>3. /\ thread'[t].pc = "kill" /\ thread'[t].of = stat /\ thread'[t].op = thread[t].op
      /\ thread'[t].goal = thread[t].goal /\ thread'[t].kept = thread[t].kept
  BY <1>1, <1>2 DEF Busy
<1> QED
  BY <1>2, <1>3 DEF Idle

LEMMA CallingIs ==
  ASSUME ThreadTyped, NEW t \in Thread, ~Idle(t), NEW of, NEW tasks, Calling(t, of, tasks)
  PROVE  /\ Others(t) /\ ~Idle(t)' /\ thread'[t].pc = "tasks" /\ thread'[t].of = of
         /\ thread'[t].tasks = tasks /\ thread'[t].bad = thread[t].bad
         /\ thread'[t].op = thread[t].op /\ thread'[t].goal = thread[t].goal
         /\ thread'[t].kept = thread[t].kept
<1>1. thread[t] \in Busy
  BY BusyIs
<1>2. thread'[t] = [thread[t] EXCEPT !.pc = "tasks", !.of = of, !.tasks = tasks] /\ Others(t)
  BY DEF ThreadTyped, Others, Calling
<1>3. /\ thread'[t].pc = "tasks" /\ thread'[t].of = of /\ thread'[t].tasks = tasks
      /\ thread'[t].bad = thread[t].bad /\ thread'[t].op = thread[t].op
      /\ thread'[t].goal = thread[t].goal /\ thread'[t].kept = thread[t].kept
  BY <1>1, <1>2 DEF Busy
<1> QED
  BY <1>2, <1>3 DEF Idle

After(t, x, phase) ==
    IF phase \in DOMAIN Following THEN [thread[t].tasks EXCEPT ![x] = Following[phase]]
                                  ELSE Without(thread[t].tasks, x)
KeptAs(t, x, phase) == IF phase = "save" THEN shown[x] ELSE thread[t].kept[x]

LEMMA AdvanceIs ==
  ASSUME ThreadTyped, NEW t \in Thread, ~Idle(t), NEW x \in Plugin, NEW phase, Advance(t, x, phase)
  PROVE  /\ Others(t) /\ ~Idle(t)' /\ thread'[t].pc = thread[t].pc
         /\ thread'[t].tasks = After(t, x, phase) /\ thread'[t].bad = thread[t].bad
         /\ thread'[t].op = thread[t].op /\ thread'[t].goal = thread[t].goal
         /\ thread'[t].of = thread[t].of
         /\ thread'[t].kept = [thread[t].kept EXCEPT ![x] = KeptAs(t, x, phase)]
<1>1. thread[t] \in Busy
  BY BusyIs
<1>2. /\ thread'[t] = [thread[t] EXCEPT !.tasks = After(t, x, phase), !.kept[x] = KeptAs(t, x, phase)]
      /\ Others(t)
  BY <1>1 DEF Advance, After, KeptAs, ThreadTyped, Others, Busy
<1> QED
  BY <1>1, <1>2 DEF Busy, Idle

LEMMA FailureIs ==
  ASSUME ThreadTyped, NEW t \in Thread, ~Idle(t), NEW x \in Plugin, NEW reported \in BOOLEAN,
         Failing(t, x, reported)
  PROVE  /\ Others(t) /\ ~Idle(t)' /\ thread'[t].pc = thread[t].pc
         /\ thread'[t].tasks = Without(thread[t].tasks, x)
         /\ reported => thread'[t].bad
         /\ thread'[t].bad \/ ~thread[t].bad
         /\ ~reported /\ ~thread[t].bad => ~thread'[t].bad
         /\ thread'[t].op = thread[t].op /\ thread'[t].goal = thread[t].goal
         /\ thread'[t].of = thread[t].of /\ thread'[t].kept = thread[t].kept
<1> DEFINE bad == thread[t].bad \/ reported
<1>1. thread[t] \in Busy
  BY BusyIs
<1>2. /\ thread'[t] = [thread[t] EXCEPT !.tasks = Without(thread[t].tasks, x), !.bad = bad]
      /\ Others(t)
  BY DEF ThreadTyped, Others, Failing
<1>3. (reported => bad) /\ (bad \/ ~thread[t].bad) /\ (~reported /\ ~thread[t].bad => ~bad)
  OBVIOUS
<1> HIDE DEF bad
<1>4. /\ thread'[t].pc = thread[t].pc /\ thread'[t].tasks = Without(thread[t].tasks, x)
      /\ thread'[t].bad = bad
      /\ thread'[t].op = thread[t].op /\ thread'[t].goal = thread[t].goal
      /\ thread'[t].of = thread[t].of /\ thread'[t].kept = thread[t].kept
  BY <1>1, <1>2 DEF Busy
<1> QED
  BY <1>2, <1>3, <1>4 DEF Idle

KeepsKept(t) ==
    \/ Idle(t)'
    \/ thread'[t].kept = shown
    \/ ~Idle(t) /\ thread'[t].kept = thread[t].kept

(* What a step of a thread makes of its place, of the others and of what   *)
(* has been kept to be saved.                                              *)
LEMMA StepPlace ==
  ASSUME TypeOK, Places, NEW t \in Thread, ThreadStep(t)
  PROVE  /\ Place(t)' /\ Others(t) /\ (plugins # None => plugins' # None)
         /\ (KeepsKept(t) /\ UNCHANGED <<shown, session, work>>) \/ \E x \in Plugin : Task(t, x)
<1>0. ThreadTyped /\ DataTyped /\ Place(t)
  BY TypeParts DEF Places
<1>1. ASSUME NEW op \in {"save", "close"}, Begin(t, op)
      PROVE  Place(t)' /\ Others(t) /\ KeepsKept(t) /\ UNCHANGED plugins
  BY <1>0, <1>1, CallIs DEF Begin, Pcs, Place, KeepsKept
<1>2. ASSUME NEW d \in Domain, Switch(t, d)
      PROVE  Place(t)' /\ Others(t) /\ KeepsKept(t) /\ UNCHANGED plugins
  BY <1>0, <1>2, CallIs DEF Switch, Pcs, Place, KeepsKept
<1>3. ASSUME Check(t) PROVE Place(t)' /\ Others(t) /\ KeepsKept(t) /\ UNCHANGED plugins
  <2>1. ~Idle(t)
    BY <1>3 DEF Check, Idle
  <2> QED
    BY <1>0, <1>3, <2>1, ReturnIs, GotoIs DEF Check, Pcs, Place, KeepsKept
<1>4. ASSUME StartSandbox(t) PROVE Place(t)' /\ Others(t) /\ KeepsKept(t) /\ UNCHANGED plugins
  <2>1. ~Idle(t)
    BY <1>4 DEF StartSandbox, Idle
  <2> QED
    BY <1>0, <1>4, <2>1, ReturnIs, GotoIs DEF StartSandbox, Pcs, Place, KeepsKept
<1>5. ASSUME ReadStat(t) PROVE Place(t)' /\ Others(t) /\ KeepsKept(t) /\ UNCHANGED plugins
  <2>1. ~Idle(t)
    BY <1>5 DEF ReadStat, Idle
  <2> QED
    BY <1>0, <1>5, <2>1, ReturnIs, KillingIs DEF ReadStat, AfterFinalize, Killing, Place, KeepsKept
<1>6. ASSUME Kill(t) PROVE Place(t)' /\ Others(t) /\ KeepsKept(t) /\ UNCHANGED plugins
  <2>1. ~Idle(t)
    BY <1>6 DEF Kill, Idle
  <2> QED
    BY <1>0, <1>6, <2>1, ReturnIs DEF Kill, AfterFinalize, Place, KeepsKept
<1>7. ASSUME Load(t)
      PROVE  Place(t)' /\ Others(t) /\ KeepsKept(t) /\ (plugins # None => plugins' # None)
  <2>1. ~Idle(t) /\ thread[t].goal \in Domain
    BY <1>0, <1>7 DEF Load, Idle, Place
  <2>2. CASE plugins' = [of |-> thread[t].goal, names |-> {}] /\ Goto(t, "loading")
    <3>1. plugins' # None
      <4>1. plugins' \in [of : Domain, names : SUBSET Plugin]
        BY <2>1, <2>2
      <4> QED
        BY <4>1, CoreAssumption
    <3> QED
      BY <1>0, <1>7, <2>1, <2>2, <3>1, GotoIs DEF Load, Pcs, Place, KeepsKept
  <2>3. CASE Fail(t) /\ UNCHANGED plugins
    BY <1>0, <1>7, <2>1, <2>3, FailIs DEF Place, KeepsKept
  <2> QED
    BY <1>7, <2>2, <2>3 DEF Load
<1>8. ASSUME LoadPlugin(t) PROVE Place(t)' /\ Others(t) /\ KeepsKept(t) /\ plugins' # None
  <2>1. ~Idle(t) /\ plugins \in [of : Domain, names : SUBSET Plugin]
    BY <1>0, <1>8 DEF LoadPlugin, Idle, Place, DataTyped
  <2>2. Enabled \subseteq Plugin
    BY CoreAssumption DEF TypeOK, Enabled
  <2>3. plugins' \in [of : Domain, names : SUBSET Plugin]
    BY <1>8, <2>1, <2>2 DEF LoadPlugin
  <2>4. plugins' # None
    BY <2>3, CoreAssumption
  <2>5. Place(t)' /\ Others(t) /\ KeepsKept(t)
    <3>1. CASE UNCHANGED thread
      BY <1>0, <2>4, <3>1 DEF Place, Others, Idle, KeepsKept
    <3>2. CASE Goto(t, "blade") \/ Goto(t, "finalize")
      BY <1>0, <2>1, <3>2, GotoIs DEF Place, Pcs, KeepsKept
    <3>3. CASE Fail(t)
      BY <1>0, <2>1, <3>3, FailIs DEF Place, KeepsKept
    <3> QED
      BY <1>8, <3>1, <3>2, <3>3 DEF LoadPlugin
  <2> QED
    BY <2>4, <2>5
<1>9. ASSUME Blade(t) PROVE Place(t)' /\ Others(t) /\ KeepsKept(t) /\ UNCHANGED plugins
  <2>1. ~Idle(t)
    BY <1>9 DEF Blade, Idle
  <2> DEFINE tasks == [x \in plugins.names |-> First[thread[t].op]]
  <2>2. CASE plugins # None /\ Calling(t, plugins.of, tasks)
    <3>1. plugins.of \in Domain
      BY <1>0, <2>2 DEF DataTyped
    <3> HIDE DEF tasks
    <3> QED
      BY <1>0, <1>9, <2>1, <2>2, <3>1, CallingIs DEF Blade, Place, KeepsKept
  <2>3. CASE Raised(t)
    BY <1>0, <1>9, <2>1, <2>3, GotoIs, ReturnIs DEF Blade, Raised, Pcs, Place, KeepsKept
  <2> QED
    BY <1>9, <2>2, <2>3 DEF Blade, Calling
<1>10. ASSUME TasksEnd(t) PROVE Place(t)' /\ Others(t) /\ KeepsKept(t) /\ UNCHANGED plugins
  <2>1. ~Idle(t)
    BY <1>10 DEF TasksEnd, Idle
  <2> QED
    BY <1>0, <1>10, <2>1, GotoIs, ReturnIs DEF TasksEnd, Closes, Undo, Pcs, Place, KeepsKept
<1>11. ASSUME NEW x \in Plugin, Task(t, x) PROVE Place(t)' /\ Others(t) /\ UNCHANGED plugins
  <2>1. ~Idle(t)
    BY <1>11 DEF Task, Idle
  <2> QED
    BY <1>0, <1>11, <2>1, AdvanceIs DEF Task, Place
<1>12. ASSUME NEW x \in Plugin, TaskFails(t, x) PROVE Place(t)' /\ Others(t) /\ KeepsKept(t) /\ UNCHANGED plugins
  <2>1. ~Idle(t)
    BY <1>12 DEF TaskFails, Idle
  <2>2. PICK reported \in BOOLEAN : Failing(t, x, reported)
    BY <1>12 DEF TaskFails, Failing
  <2>3. /\ Others(t) /\ ~Idle(t)' /\ thread'[t].pc = thread[t].pc
        /\ thread'[t].op = thread[t].op /\ thread'[t].goal = thread[t].goal
        /\ thread'[t].of = thread[t].of /\ thread'[t].kept = thread[t].kept
    BY <1>0, <2>1, <2>2, FailureIs
  <2>4. UNCHANGED plugins
    BY <1>12 DEF TaskFails
  <2> QED
    BY <1>0, <2>1, <2>3, <2>4 DEF Place, KeepsKept
<1>13. (\E x \in Plugin : Task(t, x)) \/ UNCHANGED <<shown, session, work>>
  BY DEF ThreadStep, Begin, Switch, Check, StartSandbox, ReadStat, Kill, Load, LoadPlugin, Blade,
         TasksEnd, TaskFails, apps
<1> QED
  BY <1>1, <1>2, <1>3, <1>4, <1>5, <1>6, <1>7, <1>8, <1>9, <1>10, <1>11, <1>12, <1>13 DEF ThreadStep

(* A step of a callback: what it does to what is shown and saved.          *)
LEMMA TaskBounded ==
  ASSUME TypeOK, Places, Bounded, NEW t \in Thread, NEW x \in Plugin, Task(t, x), setting' = setting
  PROVE  Bounded'
<1> DEFINE r == thread[t]
           phase == r.tasks[x]
<1>1. ThreadTyped /\ DataTyped /\ ~Idle(t) /\ r \in Busy /\ x \in DOMAIN r.tasks
  BY TypeParts, BusyIs DEF Task, Idle
<1>2. phase \in Phase /\ r.of \in Domain
  BY <1>1, TasksTyped DEF Task, Places, Place
<1>3. Advance(t, x, phase) /\ Effect(t, x, phase)
  BY DEF Task
<1>4. Others(t) /\ thread'[t].kept = [r.kept EXCEPT ![x] = KeptAs(t, x, phase)]
  BY <1>1, <1>3, AdvanceIs
<1>5. r.kept \in [Plugin -> Content] /\ \A y \in Plugin : r.kept[y] <= work
  BY <1>1 DEF Busy, Bounded, Kept
<1>6. work' = work /\ work \in Nat
  <2>1. work \in Nat
    BY <1>1, CoreAssumption DEF DataTyped, Content
  <2>2. work' = work
    BY <1>2, <1>3 DEF Effect, OnStart, OnStop, OnClose, OnResume, Phase, apps
  <2> QED BY <2>1, <2>2
<1>7. \A y \in Plugin : shown'[y] <= work
  <2>1. \/ shown' = shown
        \/ shown' = [shown EXCEPT ![x] = 0]
        \/ shown' = [shown EXCEPT ![x] = IF session[r.of][x] # 0 THEN session[r.of][x] ELSE @]
    BY <1>2, <1>3 DEF Effect, OnStart, OnStop, OnClose, OnResume, Phase, apps
  <2> HIDE DEF r, phase
  <2> QED
    BY <1>1, <1>2, <1>6, <2>1 DEF Bounded, DataTyped
<1>8. \A d \in Domain, y \in Plugin : session'[d][y] <= work
  <2>1. session' = session \/ session' = [session EXCEPT ![r.of][x] = r.kept[x]]
    BY <1>2, <1>3 DEF Effect, Phase
  <2> HIDE DEF r, phase
  <2> QED
    BY <1>1, <1>2, <1>5, <2>1 DEF Bounded, DataTyped
<1>9. \A u \in Thread : Kept(u)'
  <2>1. \A y \in Plugin : thread'[t].kept[y] <= work
    BY <1>1, <1>4, <1>5 DEF KeptAs, Bounded
  <2> QED
    BY <1>4, <1>6, <2>1 DEF Others, Kept, Idle, Bounded
<1> QED
  BY <1>6, <1>7, <1>8, <1>9 DEF Bounded, Thread

LEMMA StepTyped ==
  ASSUME TypeOK, Places, Bounded, NEW t \in Thread, ThreadStep(t), setting' = setting
  PROVE  (TypeOK /\ Places /\ Bounded)'
<1>1. TypeOK'
  <2>1. setting \in Setting
    BY DEF TypeOK
  <2> QED
    BY <2>1, ThreadStepTyped DEF TypeOK, ThreadTyped, DataTyped, Codes, Enabled, Thread, Faults
<1>2. Places'
  BY StepPlace DEF Places, Place, Others, Idle, Thread
<1>3. Bounded'
  <2>1. CASE \E x \in Plugin : Task(t, x)
    BY <2>1, TaskBounded
  <2>2. CASE KeepsKept(t) /\ UNCHANGED <<shown, session, work>>
    <3>1. Others(t)
      BY StepPlace
    <3>2. \A u \in Thread : Kept(u)'
      BY <2>2, <3>1 DEF Others, Kept, KeepsKept, Idle, Bounded
    <3> QED
      BY <2>2, <3>2 DEF Bounded, Thread
  <2> QED
    BY <2>1, <2>2, StepPlace
<1> QED
  BY <1>1, <1>2, <1>3

LEMMA NextTyped == Settled /\ [Next]_vars => Settled'
<1> SUFFICES ASSUME Settled, [Next]_vars PROVE Settled'
  OBVIOUS
<1>0. TypeOK /\ Places /\ Bounded /\ ThreadTyped /\ DataTyped
  BY TypeParts DEF Settled
<1>1. CASE UNCHANGED vars
  BY <1>1 DEF vars, domain, apps, Settled, TypeOK, Places, Place, Bounded, Kept, Idle, Thread
<1>2. ASSUME NEW t \in Thread, ThreadStep(t), setting' = setting PROVE Settled'
  BY <1>0, <1>2, StepTyped DEF Settled
<1>3. ASSUME NEW x \in Plugin, Work(x), setting' = setting PROVE Settled'
  <2>1. work \in Nat /\ work' = work + 1 /\ work' \in Content /\ shown' = [shown EXCEPT ![x] = work']
    BY <1>0, <1>3, CoreAssumption DEF Work, DataTyped, Content
  <2>2. UNCHANGED <<domain, plugins, running, session, thread, result, up>>
    BY <1>3 DEF Work
  <2>3. shown' \in [Plugin -> Content] /\ \A y \in Plugin : shown'[y] <= work'
    BY <1>0, <2>1, CoreAssumption DEF DataTyped, Bounded, Content
  <2>4. TypeOK'
    BY <1>0, <1>3, <2>1, <2>2, <2>3 DEF TypeOK, domain, Thread
  <2>5. Places'
    BY <1>0, <1>3, <2>2 DEF Places, Place, Idle, Thread
  <2>6. \A n \in Nat : n <= work => n <= work'
    BY <2>1
  <2>7. \A d \in Domain, y \in Plugin : session'[d][y] <= work'
    BY <1>0, <2>2, <2>6, CoreAssumption DEF Bounded, DataTyped, Content
  <2>8. \A u \in Thread : Kept(u)'
    <3> SUFFICES ASSUME NEW u \in Thread, ~Idle(u), NEW y \in Plugin PROVE thread[u].kept[y] <= work'
      BY <2>2 DEF Kept, Idle
    <3>1. thread[u].kept[y] \in Nat
      BY <1>0, BusyIs, CoreAssumption DEF Busy, Content
    <3> QED
      BY <1>0, <2>6, <3>1 DEF Bounded, Kept
  <2> QED
    BY <1>3, <2>3, <2>4, <2>5, <2>7, <2>8 DEF Settled, Bounded, Thread
<1>4. ASSUME Crash \/ Reboot, setting' = setting PROVE Settled'
  <2>1. 0 \in Content /\ work \in Nat
    BY <1>0, CoreAssumption DEF Content, DataTyped
  <2>2. /\ thread' = [t \in Thread |-> IdleThread] /\ result' = [t \in Thread |-> NoResult]
        /\ up' = "down" /\ plugins' = None /\ UNCHANGED <<stat, session, work>>
    BY <1>4 DEF Crash, Reboot, Stop
  <2>3. /\ sandboxes' \subseteq sandboxes /\ moved' \subseteq moved /\ running' \subseteq running
        /\ shown' = shown \/ shown' = [x \in Plugin |-> 0]
    BY <1>4 DEF Crash, Reboot
  <2>4. \A u \in Thread : Idle(u)'
    BY <2>2 DEF Idle, IdleThread
  <2>5. TypeOK'
    BY <1>0, <1>4, <2>1, <2>2, <2>3 DEF TypeOK, Thread
  <2>6. (Places /\ Bounded)'
    BY <1>0, <1>4, <2>1, <2>2, <2>3, <2>4 DEF Places, Place, Bounded, Kept, Thread
  <2> QED
    BY <2>5, <2>6 DEF Settled
<1>5. ASSUME Restart, setting' = setting PROVE Settled'
  <2>1. CASE UNCHANGED thread
    BY <1>0, <1>5, <2>1 DEF Restart, domain, apps, Settled, TypeOK, Places, Place, Bounded, Kept, Idle, Thread
  <2>2. CASE stat # None /\ thread' = Call("main", "open", stat, "check")
    <3>1. "main" \in Thread /\ stat \in Domain
      BY <1>0, <1>5, <2>2 DEF Restart, DataTyped
    <3>2. UNCHANGED <<domain, plugins, apps, session, result>> /\ up' \in {up, "starting"}
      BY <1>5, <2>2 DEF Restart
    <3>3. ThreadTyped'
      BY <1>0, <1>5, <2>2, <3>1, <3>2, CallTyped DEF Pcs
    <3>4. TypeOK'
      BY <1>0, <1>5, <3>2, <3>3 DEF TypeOK, ThreadTyped, Codes, domain, apps, Thread
    <3>5. /\ Others("main") /\ thread'["main"].pc = "check" /\ thread'["main"].op = "open"
          /\ thread'["main"].goal = stat /\ thread'["main"].kept = shown
      BY <1>0, <2>2, <3>1, CallIs DEF Pcs
    <3>6. Places'
      BY <1>0, <1>5, <3>1, <3>2, <3>5 DEF Places, Place, Others, Idle, Thread
    <3>7. Bounded'
      BY <1>0, <1>5, <3>2, <3>5 DEF Bounded, Kept, Others, Idle, apps, Thread
    <3> QED
      BY <3>4, <3>6, <3>7 DEF Settled
  <2> QED
    BY <1>5, <2>1, <2>2 DEF Restart
<1>6. CASE Next
  BY <1>2, <1>3, <1>4, <1>5, <1>6 DEF Next, Steps, ThreadStep
<1> QED
  BY <1>1, <1>6

LEMMA InitTyped == Init => Settled
<1> SUFFICES ASSUME Init PROVE Settled
  OBVIOUS
<1>1. 0 \in Content /\ 0 <= 0
  BY CoreAssumption DEF Content
<1>2. \A t \in Thread : Idle(t)
  BY DEF Init, Idle, IdleThread
<1>3. TypeOK
  BY <1>1 DEF Init, TypeOK
<1> QED
  BY <1>1, <1>2, <1>3 DEF Init, Settled, Places, Place, Bounded, Kept

(* The tables, the threads and what is shown and saved have their types.   *)
THEOREM CoreTyped == Spec => []TypeOK
<1>1. Settled => TypeOK
  BY DEF Settled
<1> QED
  BY InitTyped, NextTyped, <1>1, PTL DEF Spec

------------------------------------------------------------------------------
(* One operation after another                                             *)

(* What load leaves: every enabled application, or, when it ended at one   *)
(* with a plugin of its own, some of the others.                           *)
Loading(d) ==
    plugins # None /\ plugins.of = d /\ plugins.names \subseteq Enabled \ Supported
Loaded(d) == Loading(d) /\ (plugins.names = Enabled \/ Enabled \cap Supported # {})

(* What a thread in the middle of an operation can rely on.                *)
Sane(t) ==
    LET pc == thread[t].pc
        opening == thread[t].op = "open"
        goal == thread[t].goal
    IN  /\ pc = "start" => sandboxes = {}
        /\ pc \in {"check", "start"} => plugins = None \/ stat = None
        /\ opening /\ pc \in {"load", "loading", "blade", "tasks"} =>
               stat = goal /\ goal \in sandboxes /\ goal \in moved
        /\ pc = "loading" => Loading(goal)
        /\ opening /\ pc \in {"blade", "tasks"} => Loaded(goal)
        /\ pc = "kill" => thread[t].of = stat
        /\ thread[t].op = "save" => stat # None

Alone(t) == \A u \in Thread \ {t} : Idle(u)
Turn ==
    /\ \A t \in Thread : ~Idle(t) => Alone(t) /\ Sane(t)
    /\ sandboxes \subseteq {stat}
    /\ up = "down" => AllIdle /\ plugins = None

(* A thread that takes a step is the only one.                             *)
LEMMA StepAlone ==
  ASSUME TypeOK, Places, Turn, setting.patient, NEW t \in Thread, ThreadStep(t), setting' = setting
  PROVE  Alone(t) /\ Alone(t)' /\ up # "down" /\ up' # "down"
<1>1. Idle(t) => AllIdle /\ up = "up" /\ UNCHANGED up
  BY DEF ThreadStep, Begin, Switch, Begins, Idle, Check, StartSandbox, ReadStat, Kill, Load, LoadPlugin,
         Blade, TasksEnd, Task, TaskFails
<1>2. Alone(t) /\ up # "down"
  BY <1>1 DEF Turn, Alone, AllIdle
<1>3. Alone(t)'
  BY <1>2, StepPlace DEF Alone, Others, Idle, Thread
<1>4. up' = up \/ up' = "up"
  BY DEF ThreadStep, Begin, Switch, Check, StartSandbox, ReadStat, Kill, Load, LoadPlugin,
         Blade, TasksEnd, Task, TaskFails, AfterFinalize, Raised, Closes, Undo, Return
<1> QED
  BY <1>2, <1>3, <1>4

LEMMA StepSane ==
  ASSUME TypeOK, Places, Turn, setting.patient, NEW t \in Thread, ThreadStep(t), setting' = setting
  PROVE  (~Idle(t)' => Sane(t)') /\ sandboxes' \subseteq {stat'}
<1>0. /\ ThreadTyped /\ DataTyped /\ Place(t) /\ Alone(t)
      /\ ~Idle(t) => Sane(t)
      /\ sandboxes \subseteq {stat} /\ Enabled' = Enabled /\ Supported' = Supported
  BY TypeParts, StepAlone DEF Places, Turn, Enabled, Supported
<1>1. ASSUME NEW op \in {"save", "close"}, Begin(t, op)
      PROVE  Sane(t)' /\ UNCHANGED <<sandboxes, stat>>
  BY <1>0, <1>1, CallIs DEF Begin, Pcs, Sane, domain
<1>2. ASSUME NEW d \in Domain, Switch(t, d)
      PROVE  Sane(t)' /\ UNCHANGED <<sandboxes, stat>>
  BY <1>0, <1>2, CallIs DEF Switch, Pcs, Sane, domain
<1>3. ASSUME Check(t) PROVE (~Idle(t)' => Sane(t)') /\ UNCHANGED <<sandboxes, stat>>
  <2>1. ~Idle(t) /\ thread[t].op = "open"
    BY <1>0, <1>3 DEF Check, Idle, Place
  <2>2. CASE Goto(t, "start") /\ ~IsOpen
    <3>1. sandboxes = {}
      BY <1>0, <2>2, CoreAssumption DEF IsOpen, DataTyped
    <3> QED
      BY <1>0, <1>3, <2>1, <2>2, <3>1, GotoIs DEF Check, Pcs, Sane, domain
  <2>3. CASE Return(t, "failed")
    BY <1>0, <1>3, <2>1, <2>3, ReturnIs DEF Check, domain
  <2> QED
    BY <1>3, <2>2, <2>3 DEF Check
<1>4. ASSUME StartSandbox(t) PROVE (~Idle(t)' => Sane(t)') /\ sandboxes' \subseteq {stat'}
  <2>1. ~Idle(t) /\ thread[t].op = "open" /\ sandboxes = {}
    BY <1>0, <1>4 DEF StartSandbox, Idle, Place, Sane
  <2>2. CASE Goto(t, "load")
    BY <1>0, <1>4, <2>1, <2>2, GotoIs, ReturnIs DEF StartSandbox, Pcs, Sane
  <2>3. CASE Return(t, "failed")
    BY <1>0, <1>4, <2>1, <2>3, GotoIs, ReturnIs DEF StartSandbox, Pcs
  <2> QED
    BY <1>4, <2>2, <2>3 DEF StartSandbox
<1>5. ASSUME ReadStat(t) PROVE (~Idle(t)' => Sane(t)') /\ UNCHANGED <<sandboxes, stat>>
  <2>1. ~Idle(t)
    BY <1>5 DEF ReadStat, Idle
  <2>2. CASE stat # None
    BY <1>0, <1>5, <2>1, <2>2, KillingIs DEF ReadStat, Killing, Sane, domain
  <2>3. CASE stat = None
    BY <1>0, <1>5, <2>1, <2>3, ReturnIs DEF ReadStat, AfterFinalize, domain
  <2> QED
    BY <2>2, <2>3
<1>6. ASSUME Kill(t) PROVE Idle(t)' /\ sandboxes' = {}
  <2>1. ~Idle(t) /\ thread[t].of = stat
    BY <1>0, <1>6 DEF Kill, Idle, Sane
  <2> QED
    BY <1>0, <1>6, <2>1, ReturnIs DEF Kill, AfterFinalize, Killed
<1>7. ASSUME Load(t) PROVE Sane(t)' /\ UNCHANGED <<sandboxes, stat>>
  <2>1. ~Idle(t) /\ thread[t].op = "open"
    BY <1>0, <1>7 DEF Load, Idle, Place
  <2>2. CASE plugins' = [of |-> thread[t].goal, names |-> {}] /\ Goto(t, "loading")
    <3>1. plugins' # None
      <4>1. plugins' \in [of : Domain, names : SUBSET Plugin]
        BY <1>0, <1>7, <2>1, <2>2 DEF Load, Place
      <4> QED
        BY <4>1, CoreAssumption
    <3>2. Loading(thread[t].goal)'
      BY <1>0, <2>2, <3>1, <2>1, GotoIs DEF Loading, Pcs
    <3> QED
      BY <1>0, <1>7, <2>1, <2>2, <3>2, GotoIs DEF Load, Pcs, Sane, domain
  <2>3. CASE Fail(t)
    BY <1>0, <1>7, <2>1, <2>3, FailIs DEF Load, Sane, domain
  <2> QED
    BY <1>7, <2>2, <2>3 DEF Load
<1>8. ASSUME LoadPlugin(t) PROVE Sane(t)' /\ UNCHANGED <<sandboxes, stat>>
  <2>1. /\ ~Idle(t) /\ thread[t].op = "open" /\ thread[t].pc = "loading"
        /\ plugins \in [of : Domain, names : SUBSET Plugin] /\ Loading(thread[t].goal)
        /\ UNCHANGED <<sandboxes, stat, moved>>
    BY <1>0, <1>8 DEF LoadPlugin, Idle, Place, DataTyped, Sane, domain
  <2>2. CASE /\ UNCHANGED thread
             /\ \E x \in Enabled \ (plugins.names \union Supported) :
                    plugins' = [plugins EXCEPT !.names = @ \union {x}]
    <3>1. PICK x \in Enabled \ Supported : plugins' = [plugins EXCEPT !.names = @ \union {x}]
      BY <2>2
    <3>2. plugins' = [of |-> plugins.of, names |-> plugins.names \union {x}]
      BY <2>1, <3>1
    <3>3. plugins' # None
      <4>1. x \in Plugin
        BY CoreAssumption DEF TypeOK, Enabled
      <4>2. plugins' \in [of : Domain, names : SUBSET Plugin]
        BY <2>1, <3>2, <4>1
      <4> QED
        BY <4>2, CoreAssumption
    <3>4. plugins'.of = plugins.of /\ plugins'.names = plugins.names \union {x}
      BY <3>2
    <3>5. Loading(thread[t].goal)'
      BY <1>0, <2>1, <2>2, <3>3, <3>4 DEF Loading
    <3> QED
      BY <1>0, <2>1, <2>2, <3>5 DEF Sane, Loaded, Loading
  <2>3. CASE /\ plugins.names = Enabled \/ Enabled \cap Supported # {}
             /\ Goto(t, "blade") /\ UNCHANGED plugins
    <3>1. thread'[t].goal = thread[t].goal /\ thread'[t].op = "open" /\ thread'[t].pc = "blade"
      BY <1>0, <2>1, <2>3, GotoIs DEF Pcs
    <3>2. Loaded(thread[t].goal)'
      BY <1>0, <2>1, <2>3, <3>1 DEF Loading, Loaded
    <3> QED
      BY <1>0, <2>1, <3>1, <3>2 DEF Sane
  <2>4. CASE Goto(t, "finalize") /\ UNCHANGED plugins
    BY <1>0, <2>1, <2>4, GotoIs DEF Pcs, Sane
  <2>5. CASE Fail(t)
    BY <1>0, <2>1, <2>5, FailIs DEF Sane
  <2> QED
    BY <1>8, <2>2, <2>3, <2>4, <2>5 DEF LoadPlugin
<1>9. ASSUME Blade(t) PROVE (~Idle(t)' => Sane(t)') /\ UNCHANGED <<sandboxes, stat>>
  <2>1. ~Idle(t) /\ UNCHANGED <<sandboxes, stat, moved, plugins>>
    BY <1>9 DEF Blade, Idle, domain
  <2> DEFINE tasks == [x \in plugins.names |-> First[thread[t].op]]
  <2>2. CASE Calling(t, plugins.of, tasks)
    <3> HIDE DEF tasks
    <3> QED
      BY <1>0, <1>9, <2>1, <2>2, CallingIs DEF Blade, Sane, Loaded, Loading
  <2>3. CASE Raised(t)
    BY <1>0, <1>9, <2>1, <2>3, GotoIs, ReturnIs DEF Blade, Raised, Pcs, Sane, Loaded, Loading
  <2> QED
    BY <1>9, <2>2, <2>3 DEF Blade, Calling
<1>10. ASSUME TasksEnd(t) PROVE (~Idle(t)' => Sane(t)') /\ UNCHANGED <<sandboxes, stat>>
  <2>1. ~Idle(t)
    BY <1>10 DEF TasksEnd, Idle
  <2> QED
    BY <1>0, <1>10, <2>1, GotoIs, ReturnIs DEF TasksEnd, Closes, Undo, Pcs, Sane, Loaded, Loading, domain
<1>11. ASSUME NEW x \in Plugin, Task(t, x) PROVE Sane(t)' /\ UNCHANGED <<sandboxes, stat>>
  <2>1. ~Idle(t) /\ UNCHANGED <<sandboxes, stat, moved, plugins>>
    BY <1>11 DEF Task, Idle, domain
  <2> QED
    BY <1>0, <1>11, <2>1, AdvanceIs DEF Task, Sane, Loaded, Loading
<1>12. ASSUME NEW x \in Plugin, TaskFails(t, x) PROVE Sane(t)' /\ UNCHANGED <<sandboxes, stat>>
  <2>1. ~Idle(t) /\ thread[t].pc = "tasks" /\ UNCHANGED <<sandboxes, stat, moved, plugins>>
    BY <1>12 DEF TaskFails, Idle, domain
  <2>2. PICK reported \in BOOLEAN : Failing(t, x, reported)
    BY <1>12 DEF TaskFails, Failing
  <2>3. /\ thread'[t].pc = thread[t].pc /\ thread'[t].op = thread[t].op
        /\ thread'[t].goal = thread[t].goal
    BY <1>0, <2>1, <2>2, FailureIs
  <2> QED
    BY <1>0, <2>1, <2>3 DEF Sane, Loaded, Loading
<1> QED
  BY <1>0, <1>1, <1>2, <1>3, <1>4, <1>5, <1>6, <1>7, <1>8, <1>9, <1>10, <1>11, <1>12 DEF ThreadStep

LEMMA NextTurn == Settled /\ (setting.patient => Turn) /\ [Next]_vars => (setting.patient => Turn)'
<1> SUFFICES ASSUME Settled, setting.patient => Turn, [Next]_vars, setting'.patient PROVE Turn'
  OBVIOUS
<1>0. setting' = setting /\ setting.patient /\ Turn /\ TypeOK /\ Places /\ ThreadTyped /\ DataTyped
  BY TypeParts DEF Settled, Next, vars
<1>1. CASE UNCHANGED vars
  BY <1>0, <1>1 DEF vars, domain, Turn, Alone, Sane, Loaded, Loading, Supported, Idle, AllIdle, Thread, Enabled
<1>2. ASSUME NEW t \in Thread, ThreadStep(t) PROVE Turn'
  <2>1. Alone(t)' /\ up' # "down" /\ (~Idle(t)' => Sane(t)') /\ sandboxes' \subseteq {stat'}
    BY <1>0, <1>2, StepAlone, StepSane
  <2> QED
    BY <1>0, <2>1 DEF Turn, Alone, Thread
<1>3. ASSUME NEW x \in Plugin, Work(x) PROVE Turn'
  BY <1>0, <1>3 DEF Work, domain, Turn, Alone, Sane, Loaded, Loading, Supported, Idle, AllIdle, Thread, Enabled
<1>4. ASSUME Crash \/ Reboot PROVE Turn'
  <2>1. (\A u \in Thread : Idle(u))' /\ plugins' = None /\ sandboxes' \subseteq sandboxes /\ UNCHANGED stat
    BY <1>0, <1>4 DEF Crash, Reboot, Stop, Idle, IdleThread, Thread
  <2> QED
    BY <1>0, <2>1 DEF Turn, AllIdle, Thread
<1>5. ASSUME Restart PROVE Turn'
  <2>1. AllIdle /\ plugins = None /\ UNCHANGED <<domain, plugins>> /\ up' # "down"
    BY <1>0, <1>5 DEF Restart, Turn
  <2>2. CASE UNCHANGED thread
    BY <1>0, <2>1, <2>2 DEF Turn, AllIdle, Idle, domain, Thread
  <2>3. CASE stat # None /\ thread' = Call("main", "open", stat, "check")
    <3>1. "main" \in Thread
      BY <1>5 DEF Restart
    <3>2. Others("main") /\ thread'["main"].pc = "check" /\ thread'["main"].op = "open"
      BY <1>0, <2>3, <3>1, CallIs DEF Pcs
    <3>3. Alone("main")' /\ Sane("main")'
      BY <1>0, <2>1, <3>1, <3>2 DEF Alone, Sane, Others, AllIdle, Idle, domain, Thread
    <3> QED
      BY <1>0, <2>1, <3>3 DEF Turn, Alone, domain, Thread
  <2> QED
    BY <1>5, <2>2, <2>3 DEF Restart
<1>6. CASE Next
  BY <1>2, <1>3, <1>4, <1>5, <1>6 DEF Next, Steps, ThreadStep
<1> QED
  BY <1>1, <1>6

LEMMA InitTurn == Init => (setting.patient => Turn)
  BY DEF Init, Turn, Idle, IdleThread, AllIdle

(* While operations do not overlap, no sandbox runs but the one .stat      *)
(* names, whatever fails and whenever the tray or the machine is started   *)
(* again (initialize_domain, finalize_domain).                             *)
THEOREM OneSandboxInTurn == Spec => [](setting.patient => OneSandbox)
<1>1. (setting.patient => Turn) => (setting.patient => OneSandbox)
  BY DEF Turn, OneSandbox
<1> QED
  BY InitTyped, NextTyped, InitTurn, NextTurn, <1>1, PTL DEF Spec

------------------------------------------------------------------------------
(* Two threads that do not wait for each other                             *)

(* Not all of the timer, the hot keys and the switch, and nothing reports  *)
(* an error, or keeps load from its end, while a domain is opened.         *)
Few == setting.threads # Threads /\ Faults \cap {"fails", "unknown"} = {}

(* What a thread in the middle of an operation leaves to the others: one   *)
(* domain is opened at a time, and never undone; only a close kills, and   *)
(* it kills what .stat names, unless another close has just done so.       *)
Single(t) ==
    LET r == thread[t]
    IN  /\ r.op = "open" =>
               /\ (t = "worker" /\ up = "up") \/ (t = "main" /\ up = "starting")
               /\ r.pc \notin {"finalize", "kill"} /\ ~r.bad
               /\ r.pc \in {"blade", "tasks"} => plugins # None
        /\ r.pc \in {"check", "start"} /\ t = "worker" => stat = None
        /\ r.pc = "start" => sandboxes = {}
        /\ r.op = "save" => r.pc \notin {"finalize", "kill"}
        /\ r.op = "close" => t # "worker" /\ up = "up"
        /\ r.pc = "kill" =>
               /\ r.of # None
               /\ stat = r.of \/ (stat = None /\ "worker" \notin Thread)

Pair ==
    /\ sandboxes \subseteq {stat}
    /\ up = "down" => AllIdle
    /\ up = "starting" => \A u \in Thread \ {"main"} : Idle(u)
    /\ \A t \in Thread : ~Idle(t) => Single(t)

LEMMA StepMoves ==
  ASSUME NEW t \in Thread, ThreadStep(t)
  PROVE  /\ StartSandbox(t) \/ Kill(t) \/ UNCHANGED <<stat, sandboxes>>
         /\ up' = up \/ (up = "starting" /\ up' = "up")
         /\ Idle(t) => up = "up"
<1>1. StartSandbox(t) \/ Kill(t) \/ UNCHANGED <<stat, sandboxes>>
  BY DEF ThreadStep, Begin, Switch, Check, ReadStat, Load, LoadPlugin, Blade, TasksEnd, Task,
         TaskFails, domain
<1>2. up' = up \/ (up = "starting" /\ up' = "up")
  BY DEF ThreadStep, Begin, Switch, Check, StartSandbox, ReadStat, Kill, Load, LoadPlugin, Blade,
         TasksEnd, Task, TaskFails, AfterFinalize, Raised, Closes, Undo, Return
<1>3. Idle(t) => up = "up"
  BY DEF ThreadStep, Begin, Switch, Begins, Check, StartSandbox, ReadStat, Kill, Load, LoadPlugin,
         Blade, TasksEnd, Task, TaskFails, Idle
<1> QED
  BY <1>1, <1>2, <1>3

(* The start of a sandbox finds none running, and no thread about to kill. *)
LEMMA StartsAlone ==
  ASSUME TypeOK, Places, Few, Pair, NEW t \in Thread, StartSandbox(t)
  PROVE  /\ ~Idle(t) /\ thread[t].op = "open" /\ thread[t].pc = "start" /\ Single(t)
         /\ sandboxes = {} /\ sandboxes' = {thread[t].goal} /\ stat' = thread[t].goal
         /\ Goto(t, "load") /\ UNCHANGED <<up, plugins>>
         /\ \A u \in Thread \ {t} :
                ~Idle(u) => thread[u].pc \notin {"check", "start", "kill"} /\ thread[u].op # "open"
<1>1. ~Idle(t) /\ thread[t].op = "open" /\ thread[t].pc = "start" /\ Single(t) /\ sandboxes = {}
  BY DEF StartSandbox, Idle, Places, Place, Pair, Single
<1>2. /\ sandboxes' = {thread[t].goal} /\ stat' = thread[t].goal
      /\ Goto(t, "load") /\ UNCHANGED <<up, plugins>>
  BY <1>1 DEF StartSandbox, Few
<1>3. ASSUME NEW u \in Thread \ {t}, ~Idle(u)
      PROVE  thread[u].pc \notin {"check", "start", "kill"} /\ thread[u].op # "open"
  <2>1. t = "worker" /\ up = "up" /\ stat = None
    BY <1>1, <1>3 DEF Pair, Single
  <2>2. Single(u) /\ Place(u)
    BY <1>3 DEF Pair, Places
  <2>3. thread[u].op # "open"
    BY <2>1, <2>2, <1>3 DEF Single
  <2>4. thread[u].pc # "kill"
    BY <2>1, <2>2 DEF Single
  <2> QED
    BY <1>3, <2>2, <2>3, <2>4 DEF Place
<1> QED
  BY <1>1, <1>2, <1>3

(* A kill leaves no sandbox, and if another thread is about to kill then   *)
(* no thread can open.                                                     *)
LEMMA KillsAll ==
  ASSUME TypeOK, Places, Few, Pair, NEW t \in Thread, Kill(t)
  PROVE  /\ ~Idle(t) /\ Idle(t)' /\ sandboxes' = {} /\ stat' = None /\ UNCHANGED plugins
         /\ \A u \in Thread \ {t} : ~Idle(u) /\ thread[u].pc = "kill" => "worker" \notin Thread
<1>0. ThreadTyped /\ ~Idle(t) /\ Single(t) /\ thread[t].pc = "kill"
  BY TypeParts DEF Kill, Idle, Pair
<1>1. sandboxes' = {}
  BY <1>0, CoreAssumption DEF Kill, Killed, Pair, Single, TypeOK
<1>2. Idle(t)'
  BY <1>0, ReturnIs DEF Kill, AfterFinalize
<1>3. ASSUME NEW u \in Thread, ~Idle(u), thread[u].pc = "kill" PROVE u \in {"main", "hotkey"}
  <2>1. thread[u].op \in {"open", "save", "close"} /\ Single(u) /\ u \in Threads
    BY <1>0, <1>3, BusyIs, CoreAssumption DEF Busy, Pair, TypeOK, Thread
  <2> QED
    BY <1>3, <2>1 DEF Single, Threads
<1>4. ASSUME NEW u \in Thread \ {t}, ~Idle(u), thread[u].pc = "kill", "worker" \in Thread PROVE FALSE
  <2>1. u \in {"main", "hotkey"} /\ t \in {"main", "hotkey"}
    BY <1>0, <1>3, <1>4
  <2>2. Threads \subseteq Thread
    BY <1>4, <2>1 DEF Threads
  <2>3. Thread \subseteq Threads
    BY CoreAssumption DEF TypeOK, Thread
  <2> QED
    BY <2>2, <2>3 DEF Few, Thread
<1> QED
  BY <1>0, <1>1, <1>2, <1>4 DEF Kill

(* What a step of one thread leaves of the promises of another.            *)
LEMMA StepSpares ==
  ASSUME TypeOK, Places, Few, Pair, NEW t \in Thread, ThreadStep(t), setting' = setting,
         NEW u \in Thread \ {t}, ~Idle(u)'
  PROVE  Single(u)'
<1>1. thread'[u] = thread[u] /\ ~Idle(u) /\ (plugins # None => plugins' # None)
  BY StepPlace DEF Others, Idle
<1>2. Single(u) /\ Place(u) /\ Thread' = Thread
  BY <1>1 DEF Pair, Places, Thread
<1>3. up' = up
  <2>1. up = "starting" => u = "main" /\ Idle(t)
    BY <1>1 DEF Pair
  <2> QED
    BY <2>1, StepMoves
<1>4. CASE StartSandbox(t)
  BY <1>1, <1>2, <1>3, <1>4, StartsAlone DEF Single
<1>5. CASE Kill(t)
  BY <1>1, <1>2, <1>3, <1>5, KillsAll DEF Single
<1>6. CASE UNCHANGED <<stat, sandboxes>>
  BY <1>1, <1>2, <1>3, <1>6 DEF Single
<1> QED
  BY <1>4, <1>5, <1>6, StepMoves

LEMMA StepSingle ==
  ASSUME TypeOK, Places, Few, Pair, NEW t \in Thread, ThreadStep(t), setting' = setting
  PROVE  (~Idle(t)' => Single(t)') /\ sandboxes' \subseteq {stat'}
<1>0. /\ ThreadTyped /\ DataTyped /\ Place(t) /\ sandboxes \subseteq {stat}
      /\ ~Idle(t) => Single(t)
      /\ Thread' = Thread /\ "fails" \notin Faults /\ "unknown" \notin Faults
  BY TypeParts DEF Places, Pair, Thread, Few
<1>1. ASSUME NEW op \in {"save", "close"}, Begin(t, op)
      PROVE  Single(t)' /\ UNCHANGED <<sandboxes, stat>>
  BY <1>0, <1>1, CallIs DEF Begin, Begins, Pcs, Single, domain
<1>2. ASSUME NEW d \in Domain, Switch(t, d)
      PROVE  Single(t)' /\ UNCHANGED <<sandboxes, stat>>
  BY <1>0, <1>2, CallIs DEF Switch, Begins, Pcs, Single, domain
<1>3. ASSUME Check(t) PROVE (~Idle(t)' => Single(t)') /\ UNCHANGED <<sandboxes, stat>>
  <2>1. ~Idle(t) /\ thread[t].op = "open" /\ thread[t].pc = "check"
    BY <1>0, <1>3 DEF Check, Idle, Place
  <2>2. CASE Goto(t, "start") /\ ~IsOpen /\ UNCHANGED up
    <3>1. sandboxes = {}
      BY <1>0, <2>2, CoreAssumption DEF IsOpen, DataTyped
    <3> QED
      BY <1>0, <1>3, <2>1, <2>2, <3>1, GotoIs DEF Check, Pcs, Single, domain
  <2>3. CASE Return(t, "failed")
    BY <1>0, <1>3, <2>1, <2>3, ReturnIs DEF Check, domain
  <2> QED
    BY <1>3, <2>2, <2>3 DEF Check
<1>4. ASSUME StartSandbox(t) PROVE Single(t)' /\ sandboxes' \subseteq {stat'}
  BY <1>0, <1>4, StartsAlone, GotoIs DEF Pcs, Single
<1>5. ASSUME ReadStat(t) PROVE (~Idle(t)' => Single(t)') /\ UNCHANGED <<sandboxes, stat>>
  <2>1. ~Idle(t) /\ thread[t].op = "close"
    <3>1. ~Idle(t) /\ thread[t].pc = "finalize"
      BY <1>5 DEF ReadStat, Idle
    <3>2. thread[t].op \in {"open", "save", "close"}
      BY <1>0, <3>1, BusyIs DEF Busy
    <3> QED
      BY <1>0, <3>1, <3>2 DEF Single
  <2>2. CASE stat # None
    BY <1>0, <1>5, <2>1, <2>2, KillingIs DEF ReadStat, Killing, Single, domain
  <2>3. CASE stat = None
    BY <1>0, <1>5, <2>1, <2>3, ReturnIs DEF ReadStat, AfterFinalize, domain
  <2> QED
    BY <2>2, <2>3
<1>6. ASSUME Kill(t) PROVE Idle(t)' /\ sandboxes' = {}
  BY <1>6, KillsAll
<1>7. ASSUME Load(t) PROVE Single(t)' /\ UNCHANGED <<sandboxes, stat>>
  <2>1. ~Idle(t) /\ thread[t].op = "open"
    BY <1>0, <1>7 DEF Load, Idle, Place
  <2>2. Goto(t, "loading") /\ UNCHANGED <<sandboxes, stat, up>>
    BY <1>0, <1>7 DEF Load, domain
  <2> QED
    BY <1>0, <2>1, <2>2, GotoIs DEF Pcs, Single
<1>8. ASSUME LoadPlugin(t) PROVE Single(t)' /\ UNCHANGED <<sandboxes, stat>>
  <2>1. /\ ~Idle(t) /\ thread[t].op = "open" /\ thread[t].pc = "loading"
        /\ plugins # None /\ UNCHANGED <<sandboxes, stat, up>>
    BY <1>0, <1>8 DEF LoadPlugin, Idle, Place, domain
  <2>2. CASE UNCHANGED thread
    BY <1>0, <2>1, <2>2 DEF Single
  <2>3. CASE Goto(t, "blade") /\ UNCHANGED plugins
    BY <1>0, <2>1, <2>3, GotoIs DEF Pcs, Single
  <2> QED
    BY <1>0, <1>8, <2>1, <2>2, <2>3 DEF LoadPlugin
<1>9. ASSUME Blade(t) PROVE (~Idle(t)' => Single(t)') /\ UNCHANGED <<sandboxes, stat>>
  <2>1. ~Idle(t) /\ thread[t].pc = "blade" /\ UNCHANGED <<sandboxes, stat, plugins>>
    BY <1>9 DEF Blade, Idle, domain
  <2> DEFINE tasks == [x \in plugins.names |-> First[thread[t].op]]
  <2>2. CASE Calling(t, plugins.of, tasks) /\ plugins # None /\ UNCHANGED up
    <3> HIDE DEF tasks
    <3> QED
      BY <1>0, <2>1, <2>2, CallingIs DEF Single
  <2>3. CASE Raised(t) /\ (plugins = None \/ \E u \in Thread \ {t} : thread[u].pc = "loading")
    <3>1. ASSUME thread[t].op = "open", NEW u \in Thread \ {t}, thread[u].pc = "loading" PROVE FALSE
      <4>1. ~Idle(u)
        BY <3>1 DEF Idle
      <4>2. Single(u) /\ thread[u].op = "open"
        BY <3>1, <4>1 DEF Pair, Places, Place
      <4> QED
        BY <1>0, <2>1, <3>1, <4>2 DEF Single
    <3>2. thread[t].op # "open"
      BY <1>0, <2>1, <2>3, <3>1 DEF Single
    <3> QED
      BY <1>0, <2>1, <2>3, <3>2, ReturnIs DEF Raised
  <2> QED
    BY <1>9, <2>1, <2>2, <2>3 DEF Blade, Calling
<1>10. ASSUME TasksEnd(t) PROVE (~Idle(t)' => Single(t)') /\ UNCHANGED <<sandboxes, stat>>
  <2>1. ~Idle(t) /\ thread[t].pc = "tasks" /\ UNCHANGED <<sandboxes, stat, plugins>>
    BY <1>10 DEF TasksEnd, Idle, domain
  <2>2. thread[t].op = "open" => ~thread[t].bad
    BY <1>0, <2>1 DEF Single
  <2>3. CASE thread[t].op = "close"
    <3>1. Goto(t, "finalize") /\ UNCHANGED up
      BY <1>10, <2>3 DEF TasksEnd, Closes, Undo
    <3> QED
      BY <1>0, <2>1, <2>3, <3>1, GotoIs DEF Pcs, Single
  <2>4. CASE thread[t].op # "close"
    <3>1. \E code : Return(t, code)
      BY <1>10, <2>2, <2>4 DEF TasksEnd
    <3> QED
      BY <1>0, <2>1, <3>1, ReturnIs
  <2> QED
    BY <2>3, <2>4
<1>11. ASSUME NEW x \in Plugin, Task(t, x) PROVE Single(t)' /\ UNCHANGED <<sandboxes, stat>>
  <2>1. ~Idle(t) /\ UNCHANGED <<sandboxes, stat, plugins, up>>
    BY <1>11 DEF Task, Idle, domain
  <2> QED
    BY <1>0, <1>11, <2>1, AdvanceIs DEF Task, Single
<1>12. ASSUME NEW x \in Plugin, TaskFails(t, x) PROVE Single(t)' /\ UNCHANGED <<sandboxes, stat>>
  <2>1. ~Idle(t) /\ thread[t].pc = "tasks" /\ UNCHANGED <<sandboxes, stat, plugins, up>>
    BY <1>12 DEF TaskFails, Idle, domain
  <2>2. Failing(t, x, FALSE)
    BY <1>0, <1>12 DEF TaskFails, Failing
  <2>3. /\ thread'[t].pc = "tasks" /\ thread'[t].op = thread[t].op
        /\ ~thread[t].bad => ~thread'[t].bad
    BY <1>0, <2>1, <2>2, FailureIs
  <2> QED
    BY <1>0, <2>1, <2>3 DEF Single
<1> QED
  BY <1>0, <1>1, <1>2, <1>3, <1>4, <1>5, <1>6, <1>7, <1>8, <1>9, <1>10, <1>11, <1>12 DEF ThreadStep

LEMMA NextPair == Settled /\ (Few => Pair) /\ [Next]_vars => (Few => Pair)'
<1> SUFFICES ASSUME Settled, Few => Pair, [Next]_vars, Few' PROVE Pair'
  OBVIOUS
<1>0. /\ setting' = setting /\ Few /\ Pair /\ TypeOK /\ Places /\ ThreadTyped /\ DataTyped
      /\ Thread' = Thread
  BY TypeParts DEF Settled, Next, vars, Few, Faults, Thread
<1>1. CASE UNCHANGED vars
  BY <1>0, <1>1 DEF vars, domain, Pair, Single, Idle, AllIdle
<1>2. ASSUME NEW t \in Thread, ThreadStep(t) PROVE Pair'
  <2>1. (~Idle(t)' => Single(t)') /\ sandboxes' \subseteq {stat'}
    BY <1>0, <1>2, StepSingle
  <2>2. \A u \in Thread \ {t} : ~Idle(u)' => Single(u)'
    BY <1>0, <1>2, StepSpares
  <2>3. up' # "down" /\ (up' = "starting" => up = "starting")
    BY <1>0, <1>2, StepMoves DEF Pair, AllIdle
  <2>4. up = "starting" => \A u \in Thread \ {"main"} : Idle(u)'
    <3>1. up = "starting" => t = "main"
      BY <1>0, <1>2, StepMoves DEF Pair
    <3> QED
      BY <1>0, <1>2, <3>1, StepPlace DEF Pair, Others, Idle
  <2> QED
    BY <1>0, <2>1, <2>2, <2>3, <2>4 DEF Pair
<1>3. ASSUME NEW x \in Plugin, Work(x) PROVE Pair'
  BY <1>0, <1>3 DEF Work, domain, Pair, Single, Idle, AllIdle
<1>4. ASSUME Crash \/ Reboot PROVE Pair'
  <2>1. (\A u \in Thread : Idle(u))' /\ sandboxes' \subseteq sandboxes /\ UNCHANGED stat
    BY <1>0, <1>4 DEF Crash, Reboot, Stop, Idle, IdleThread
  <2> QED
    BY <1>0, <2>1 DEF Pair, AllIdle
<1>5. ASSUME Restart PROVE Pair'
  <2>1. AllIdle /\ UNCHANGED <<stat, sandboxes>> /\ up' # "down"
    BY <1>0, <1>5 DEF Restart, Pair, domain
  <2>2. CASE UNCHANGED thread
    BY <1>0, <2>1, <2>2 DEF Pair, AllIdle, Idle
  <2>3. CASE up' = "starting" /\ thread' = Call("main", "open", stat, "check")
    <3>1. "main" \in Thread
      BY <1>5 DEF Restart
    <3>2. /\ Others("main") /\ thread'["main"].pc = "check" /\ thread'["main"].op = "open"
          /\ ~thread'["main"].bad
      BY <1>0, <2>3, <3>1, CallIs DEF Pcs
    <3>3. Single("main")'
      BY <2>3, <3>2 DEF Single
    <3>4. \A u \in Thread \ {"main"} : Idle(u)'
      BY <2>1, <3>2 DEF Others, AllIdle, Idle
    <3> QED
      BY <1>0, <2>1, <3>3, <3>4 DEF Pair
  <2> QED
    BY <1>5, <2>2, <2>3 DEF Restart
<1>6. CASE Next
  BY <1>2, <1>3, <1>4, <1>5, <1>6 DEF Next, Steps, ThreadStep
<1> QED
  BY <1>1, <1>6

LEMMA InitPair == Init => (Few => Pair)
  BY DEF Init, Pair, Idle, IdleThread, AllIdle

(* The same without waiting: the hot keys, or the timer and the menu, may  *)
(* save and close at any point of a switch, callbacks may raise, and the   *)
(* tray or the machine may be started again; there is at most the sandbox  *)
(* that .stat names, even in the middle of operations.  With all three     *)
(* threads it is not so: of two that close at once the second may clear    *)
(* the name of a domain opened after the first had ended.                  *)
THEOREM OneSandboxOfPair == Spec => [](Few => OneSandbox)
<1>1. (Few => Pair) => (Few => OneSandbox)
  BY DEF Pair, OneSandbox
<1> QED
  BY InitTyped, NextTyped, InitPair, NextPair, <1>1, PTL DEF Spec

------------------------------------------------------------------------------
(* The promise of OpenDomain                                               *)

(* In each setting operations either do not overlap, or are of two threads *)
(* with nothing that undoes an open.                                       *)
Orderly ==
    \A s \in Setting :
        s.patient \/ (s.threads # Threads /\ s.faults \cap {"fails", "unknown"} = {})

LEMMA StartOpens ==
  ASSUME Settled, setting.patient => Turn, Few => Pair, setting.patient \/ Few,
         NEW t \in Thread, StartSandbox(t)
  PROVE  Promise!Open(thread[t].goal) \/ UNCHANGED <<stat, sandboxes>>
<1>1. sandboxes = {}
  BY StartsAlone DEF StartSandbox, Turn, Sane, Idle, Settled
<1> QED
  BY <1>1 DEF StartSandbox, Promise!Open

LEMMA KillCloses ==
  ASSUME Settled, setting.patient => Turn, Few => Pair, setting.patient \/ Few,
         NEW t \in Thread, Kill(t)
  PROVE  Promise!Close \/ UNCHANGED <<stat, sandboxes>>
<1>1. stat' = None /\ sandboxes' = {}
  <2>1. CASE setting.patient
    BY <2>1 DEF Kill, Killed, Turn, Sane, Idle
  <2>2. CASE Few
    BY <2>2, KillsAll DEF Settled
  <2> QED
    BY <2>1, <2>2
<1>2. stat = None => sandboxes = {}
  BY CoreAssumption DEF Turn, Pair, Settled, TypeOK
<1> QED
  BY <1>1, <1>2 DEF Promise!Close

(* The manager keeps the promise that DomainManager makes, with its steps  *)
(* interleaved by the threads that open, save and close (open_domain,      *)
(* close_domain, switch_domain).                                           *)
THEOREM CoreImplements == ASSUME Orderly PROVE Spec => RefinesOpenDomain
<1> DEFINE Inv == Settled /\ (setting.patient => Turn) /\ (Few => Pair)
<1>1. Init => Promise!Init
  BY DEF Init, Promise!Init
<1>2. Inv /\ [Next]_vars => [Promise!Next]_(Promise!vars)
  <2> SUFFICES ASSUME Inv, [Next]_vars PROVE Promise!Next \/ UNCHANGED <<stat, sandboxes>>
    BY DEF Promise!vars
  <2>0. setting.patient \/ Few
    BY DEF Orderly, Few, Faults, Settled, TypeOK
  <2>1. ASSUME NEW t \in Thread, ThreadStep(t) PROVE Promise!Next \/ UNCHANGED <<stat, sandboxes>>
    <3>1. CASE StartSandbox(t)
      <4>1. thread[t].goal \in Domain
        BY <3>1 DEF StartSandbox, Settled, Places, Place, Idle
      <4> QED
        BY <2>0, <3>1, <4>1, StartOpens DEF Promise!Next
    <3>2. CASE Kill(t)
      BY <2>0, <3>2, KillCloses DEF Promise!Next
    <3> QED
      BY <2>1, <3>1, <3>2, StepMoves
  <2>2. ASSUME Reboot PROVE Promise!Next
    BY <2>2 DEF Reboot, Stop, Promise!Next, Promise!Restart
  <2>3. ASSUME Crash \/ Restart \/ (\E x \in Plugin : Work(x)) PROVE UNCHANGED <<stat, sandboxes>>
    BY <2>3 DEF Crash, Stop, Restart, Work, domain
  <2>4. CASE UNCHANGED vars
    BY <2>4 DEF vars, domain
  <2> QED
    BY <2>1, <2>2, <2>3, <2>4 DEF Next, Steps, ThreadStep
<1>3. Init => Inv
  BY InitTyped, InitTurn, InitPair
<1>4. Inv /\ [Next]_vars => Inv'
  BY NextTyped, NextTurn, NextPair
<1> QED
  BY <1>1, <1>2, <1>3, <1>4, PTL DEF Spec, RefinesOpenDomain, Promise!Spec

------------------------------------------------------------------------------
(* What the operations return                                              *)

(* An operation returns by a step of its thread.                           *)
LEMMA ReturnsByStep ==
  ASSUME Settled, setting.patient, Turn, [Next]_vars, NEW t \in Thread,
         ~Idle(t), Idle(t)', up' # "down"
  PROVE  ThreadStep(t) /\ setting' = setting
<1>0. TypeOK /\ Places /\ Alone(t) /\ up # "down"
  BY DEF Settled, Turn, AllIdle
<1>1. Next
  BY DEF vars, Idle
<1>2. ~Crash /\ ~Reboot /\ ~Restart
  BY <1>0 DEF Crash, Reboot, Stop, Restart
<1>3. \A x \in Plugin : ~Work(x)
  BY DEF Work, Idle
<1>4. PICK u \in Thread : ThreadStep(u)
  BY <1>1, <1>2, <1>3 DEF Next, Steps, ThreadStep
<1>5. setting' = setting
  BY <1>1 DEF Next
<1>6. u = t
  BY <1>0, <1>4, <1>5, StepAlone DEF Alone
<1> QED
  BY <1>4, <1>5, <1>6

LEMMA CloseStep ==
  ASSUME Settled, setting.patient, Turn, NEW t \in Thread, ThreadStep(t), setting' = setting,
         ~Idle(t), Idle(t)', thread[t].op = "close", plugins # None
  PROVE  stat' = None /\ sandboxes' = {}
<1>0. ThreadTyped /\ DataTyped /\ Place(t) /\ Alone(t) /\ Sane(t) /\ sandboxes \subseteq {stat}
  BY TypeParts DEF Settled, Places, Turn
<1>1. thread[t].pc \notin {"check", "start", "load", "loading"}
  BY <1>0 DEF Place
<1>2. CASE ReadStat(t)
  <2>1. stat = None
    BY <1>0, <1>2, KillingIs DEF ReadStat, Killing
  <2> QED
    BY <1>0, <1>2, <2>1, CoreAssumption DEF ReadStat, domain, DataTyped
<1>3. CASE Kill(t)
  BY <1>0, <1>3 DEF Kill, Killed, Sane
<1>4. ~Blade(t)
  <2>1. SUFFICES ASSUME Blade(t) PROVE FALSE
    OBVIOUS
  <2>2. \A u \in Thread \ {t} : thread[u].pc # "loading"
    BY <1>0 DEF Alone, Idle
  <2> DEFINE tasks == [x \in plugins.names |-> First[thread[t].op]]
  <2>3. Calling(t, plugins.of, tasks)
    BY <2>1, <2>2 DEF Blade, Calling
  <2> HIDE DEF tasks
  <2> QED
    BY <1>0, <2>3, CallingIs
<1>5. ~TasksEnd(t)
  BY <1>0, GotoIs DEF TasksEnd, Closes, Undo, Pcs
<1>6. \A x \in Plugin : ~Task(t, x)
  BY <1>0, AdvanceIs DEF Task
<1>7. \A x \in Plugin : ~TaskFails(t, x)
  <2>1. SUFFICES ASSUME NEW x \in Plugin, TaskFails(t, x) PROVE FALSE
    OBVIOUS
  <2>2. PICK reported \in BOOLEAN : Failing(t, x, reported)
    BY <2>1 DEF TaskFails, Failing
  <2> QED
    BY <1>0, <2>2, FailureIs
<1> QED
  BY <1>1, <1>2, <1>3, <1>4, <1>5, <1>6, <1>7 DEF ThreadStep, Begin, Switch, Begins, Check, StartSandbox,
     Load, LoadPlugin

(* close_domain leaves no domain open, whatever plugins fail to close or   *)
(* to stop, unless there are none to close.                                *)
THEOREM CloseFinishes == Spec => CloseCloses
<1> DEFINE A == \A t \in Thread : setting.patient /\ Returns(t, "close") /\ plugins # None
                                    => stat' = None /\ sandboxes' = {}
<1>1. Settled /\ (setting.patient => Turn) /\ [Next]_vars => [A]_vars
  <2> SUFFICES ASSUME Settled, setting.patient => Turn, [Next]_vars, NEW t \in Thread,
                      setting.patient, Returns(t, "close"), plugins # None
               PROVE  stat' = None /\ sandboxes' = {}
    OBVIOUS
  <2>1. ~Idle(t) /\ Idle(t)' /\ up' # "down" /\ thread[t].op = "close"
    BY DEF Returns, Idle
  <2>2. ThreadStep(t) /\ setting' = setting
    BY <2>1, ReturnsByStep
  <2> QED
    BY <2>1, <2>2, CloseStep
<1> QED
  BY InitTyped, NextTyped, InitTurn, NextTurn, <1>1, PTL DEF Spec, CloseCloses

LEMMA OpenStep ==
  ASSUME Settled, setting.patient, Turn, NEW t \in Thread, ThreadStep(t), setting' = setting,
         ~Idle(t), Idle(t)', thread[t].op = "open"
  PROVE  \/ /\ result'[t].code # "clean"
            /\ \/ thread[t].pc = "check" /\ IsOpen
               \/ stat' # thread[t].goal
               \/ stat' \notin sandboxes'
         \/ TasksEnd(t) /\ ~thread[t].bad /\ result'[t].code = "clean"
<1>0. ThreadTyped /\ DataTyped /\ Place(t) /\ Alone(t) /\ Sane(t) /\ thread[t].goal \in Domain
  BY TypeParts DEF Settled, Places, Place, Turn
<1>1. CASE Check(t)
  BY <1>0, <1>1, GotoIs, ReturnIs DEF Check, Pcs
<1>2. CASE StartSandbox(t)
  BY <1>0, <1>2, GotoIs, ReturnIs DEF StartSandbox, Pcs, Sane
<1>3. CASE ReadStat(t)
  <2>1. stat = None
    BY <1>0, <1>3, KillingIs DEF ReadStat, Killing
  <2> QED
    BY <1>0, <1>3, <2>1, CoreAssumption, ReturnIs DEF ReadStat, AfterFinalize, domain
<1>4. CASE Kill(t)
  BY <1>0, <1>4, CoreAssumption, ReturnIs DEF Kill, AfterFinalize
<1>5. ~Load(t)
  BY <1>0, GotoIs, FailIs DEF Load, Pcs
<1>6. ~LoadPlugin(t)
  BY <1>0, GotoIs, FailIs DEF LoadPlugin, Pcs, Idle
<1>7. ~Blade(t)
  <2>1. SUFFICES ASSUME Blade(t) PROVE FALSE
    OBVIOUS
  <2> DEFINE tasks == [x \in plugins.names |-> First[thread[t].op]]
  <2>2. Calling(t, plugins.of, tasks) \/ Raised(t)
    BY <2>1 DEF Blade, Calling
  <2> HIDE DEF tasks
  <2> QED
    BY <1>0, <2>2, CallingIs, GotoIs DEF Raised, Pcs
<1>8. CASE TasksEnd(t)
  BY <1>0, <1>8, GotoIs, ReturnIs DEF TasksEnd, Undo, Pcs
<1>9. \A x \in Plugin : ~Task(t, x)
  BY <1>0, AdvanceIs DEF Task
<1>10. \A x \in Plugin : ~TaskFails(t, x)
  <2>1. SUFFICES ASSUME NEW x \in Plugin, TaskFails(t, x) PROVE FALSE
    OBVIOUS
  <2>2. PICK reported \in BOOLEAN : Failing(t, x, reported)
    BY <2>1 DEF TaskFails, Failing
  <2> QED
    BY <1>0, <2>2, FailureIs
<1> QED
  BY <1>1, <1>2, <1>3, <1>4, <1>5, <1>6, <1>7, <1>8, <1>9, <1>10 DEF ThreadStep, Begin, Switch, Begins

(* A domain that open_domain failed to open is not left open, even if an   *)
(* exception makes it return ALL_CLEAN with a traceback.                   *)
THEOREM FailedOpenUndone == Spec => FailedOpenIsUndone
<1> DEFINE A == \A t \in Thread :
           setting.patient /\ Returns(t, "open") /\ result'[t].code # "clean" =>
               \/ thread[t].pc = "check" /\ IsOpen
               \/ stat' # thread[t].goal \/ stat' \notin sandboxes'
<1>1. Settled /\ (setting.patient => Turn) /\ [Next]_vars => [A]_vars
  <2> SUFFICES ASSUME Settled, setting.patient => Turn, [Next]_vars, NEW t \in Thread,
                      setting.patient, Returns(t, "open"), result'[t].code # "clean"
               PROVE  \/ thread[t].pc = "check" /\ IsOpen
                      \/ stat' # thread[t].goal \/ stat' \notin sandboxes'
    OBVIOUS
  <2>1. ~Idle(t) /\ Idle(t)' /\ up' # "down" /\ thread[t].op = "open"
    BY DEF Returns, Idle
  <2>2. ThreadStep(t) /\ setting' = setting
    BY <2>1, ReturnsByStep
  <2> QED
    BY <2>1, <2>2, OpenStep
<1> QED
  BY InitTyped, NextTyped, InitTurn, NextTurn, <1>1, PTL DEF Spec, FailedOpenIsUndone

------------------------------------------------------------------------------
(* Sessions, as long as no callback raises while operations take turns     *)

Reported == \A s \in Setting : s.patient => "raises" \notin s.faults

(* The applications of the domain in plugins show at least what was saved  *)
(* of them - but while a domain is being opened or closed.                 *)
Shows ==
    plugins # None /\ stat # None => \A x \in plugins.names : shown[x] >= session[plugins.of][x]
Moving(t) == thread[t].op = "open" \/ (thread[t].op = "close" /\ thread[t].pc # "blade")

OpenPhases(t) ==
    /\ plugins # None
    /\ \A x \in DOMAIN thread[t].tasks : thread[t].tasks[x] \in {"start", "resume"}
    /\ ~thread[t].bad =>
           /\ thread[t].of = thread[t].goal
           /\ \A x \in plugins.names :
                  IF x \in DOMAIN thread[t].tasks
                  THEN thread[t].tasks[x] = "resume" => x \in running
                  ELSE x \in running /\ shown[x] >= session[thread[t].of][x]
SavePhases(t) ==
    /\ plugins # None /\ thread[t].of = plugins.of
    /\ \A x \in DOMAIN thread[t].tasks :
           /\ x \in plugins.names /\ thread[t].tasks[x] \in {"save", "put"}
           /\ thread[t].tasks[x] = "put" =>
                  session[thread[t].of][x] <= thread[t].kept[x] /\ thread[t].kept[x] <= shown[x]
ClosePhases(t) == \A x \in DOMAIN thread[t].tasks : thread[t].tasks[x] \in {"close", "stop"}

Phases(t) ==
    thread[t].pc = "tasks" =>
        /\ thread[t].op = "open" => OpenPhases(t)
        /\ thread[t].op = "save" => SavePhases(t)
        /\ thread[t].op = "close" => ClosePhases(t)

Ready ==
    /\ \A t \in Thread : ~Idle(t) => Phases(t)
    /\ (\A t \in Thread : ~Idle(t) => ~Moving(t)) => Shows

(* What a callback does, field by field.                                   *)
LEMMA EffectIs ==
  ASSUME DataTyped, NEW t, NEW x \in Plugin, NEW phase, Effect(t, x, phase), thread[t].of \in Domain
  PROVE  /\ phase = "start" => running' = running \union {x} /\ UNCHANGED <<shown, session>>
         /\ phase = "resume" =>
                /\ shown'[x] >= session[thread[t].of][x]
                /\ \A y \in Plugin : y # x => shown'[y] = shown[y]
                /\ UNCHANGED <<running, session>>
         /\ phase \in {"close", "stop"} => UNCHANGED session
         /\ phase = "save" => UNCHANGED <<shown, session>>
         /\ phase = "put" =>
                /\ session'[thread[t].of][x] = thread[t].kept[x]
                /\ \A d \in Domain, y \in Plugin :
                       d # thread[t].of \/ y # x => session'[d][y] = session[d][y]
                /\ UNCHANGED shown
<1>1. CASE phase = "start"
  BY <1>1 DEF Effect, OnStart
<1>2. CASE phase = "resume"
  <2> DEFINE of == thread[t].of
  <2>1. /\ shown' = [shown EXCEPT ![x] = IF session[of][x] # 0 THEN session[of][x] ELSE @]
        /\ UNCHANGED <<running, session>>
    BY <1>2 DEF Effect, OnResume
  <2>2. session[of][x] \in Nat /\ shown[x] \in Nat
    BY CoreAssumption DEF DataTyped, Content
  <2> HIDE DEF of
  <2>3. shown'[x] >= session[of][x] /\ \A y \in Plugin : y # x => shown'[y] = shown[y]
    BY <2>1, <2>2 DEF DataTyped
  <2> QED
    BY <1>2, <2>1, <2>3 DEF of
<1>3. CASE phase \in {"close", "stop"}
  BY <1>3 DEF Effect
<1>4. CASE phase = "save"
  BY <1>4 DEF Effect, apps
<1>5. CASE phase = "put"
  <2> DEFINE of == thread[t].of
             kept == thread[t].kept[x]
  <2>1. session' = [session EXCEPT ![of][x] = kept] /\ UNCHANGED shown
    BY <1>5 DEF Effect, apps
  <2>2. of \in Domain
    OBVIOUS
  <2> HIDE DEF of, kept
  <2>3. /\ session'[of][x] = kept
        /\ \A d \in Domain, y \in Plugin : d # of \/ y # x => session'[d][y] = session[d][y]
    BY <2>1, <2>2 DEF DataTyped
  <2> QED
    BY <1>5, <2>1, <2>3 DEF of, kept
<1> QED
  BY <1>1, <1>2, <1>3, <1>4, <1>5

(* The facts about one callback that the three operations share.           *)
LEMMA TaskIs ==
  ASSUME Settled, NEW t \in Thread, NEW x \in Plugin, Task(t, x),
         NEW phase, phase = thread[t].tasks[x]
  PROVE  /\ DataTyped /\ thread[t] \in Busy /\ ~Idle(t) /\ ~Idle(t)' /\ x \in DOMAIN thread[t].tasks
         /\ phase \in Phase /\ thread[t].of \in Domain /\ thread[t].pc = "tasks"
         /\ Effect(t, x, phase) /\ UNCHANGED <<domain, plugins>>
         /\ thread'[t].pc = "tasks" /\ thread'[t].op = thread[t].op
         /\ thread'[t].goal = thread[t].goal /\ thread'[t].of = thread[t].of
         /\ thread'[t].bad = thread[t].bad
         /\ thread'[t].tasks = After(t, x, phase)
         /\ thread'[t].kept[x] = IF phase = "save" THEN shown[x] ELSE thread[t].kept[x]
         /\ \A y \in Plugin : y # x => thread'[t].kept[y] = thread[t].kept[y]
<1>1. ThreadTyped /\ DataTyped /\ ~Idle(t) /\ x \in DOMAIN thread[t].tasks
  BY TypeParts DEF Settled, Task, Idle
<1>2. thread[t] \in Busy
  BY <1>1, BusyIs
<1>3. phase \in Phase
  BY <1>1, <1>2, TasksTyped
<1>4. thread[t].of \in Domain
  BY <1>1 DEF Settled, Places, Place, Task
<1>5. Advance(t, x, phase) /\ Effect(t, x, phase)
  BY DEF Task
<1>6. thread[t].kept \in [Plugin -> Content]
  BY <1>2 DEF Busy
<1>7. /\ thread'[t].kept = [thread[t].kept EXCEPT ![x] = KeptAs(t, x, phase)]
      /\ ~Idle(t)' /\ thread'[t].pc = thread[t].pc
      /\ thread'[t].tasks = After(t, x, phase) /\ thread'[t].bad = thread[t].bad
      /\ thread'[t].op = thread[t].op /\ thread'[t].goal = thread[t].goal
      /\ thread'[t].of = thread[t].of
  BY <1>1, <1>5, AdvanceIs
<1>8. /\ thread'[t].kept[x] = KeptAs(t, x, phase)
      /\ \A y \in Plugin : y # x => thread'[t].kept[y] = thread[t].kept[y]
  BY <1>6, <1>7
<1> QED
  BY <1>1, <1>2, <1>3, <1>4, <1>5, <1>7, <1>8 DEF Task, KeptAs

(* The tasks that are left after a callback, and those that follow.        *)
Leaves(tasks, x, phase, after) ==
    /\ phase \in {"resume", "put", "stop"} => DOMAIN after = DOMAIN tasks \ {x}
    /\ phase \in {"start", "save", "close"} => DOMAIN after = DOMAIN tasks
    /\ phase = "start" => after[x] = "resume"
    /\ phase = "save" => after[x] = "put"
    /\ phase = "close" => after[x] = "stop"
    /\ \A y \in DOMAIN tasks \ {x} : after[y] = tasks[y]

LEMMA TaskLeaves ==
  ASSUME Settled, NEW t \in Thread, NEW x \in Plugin, Task(t, x)
  PROVE  Leaves(thread[t].tasks, x, thread[t].tasks[x], thread'[t].tasks)
<1>1. PICK tasks, phase, after :
          tasks = thread[t].tasks /\ phase = thread[t].tasks[x] /\ after = thread'[t].tasks
  OBVIOUS
<1>2. x \in DOMAIN tasks /\ phase \in Phase /\ after = After(t, x, phase) /\ thread[t] \in Busy
  BY <1>1, TaskIs
<1>3. PICK S \in SUBSET Plugin : tasks \in [S -> Phase]
  BY <1>1, <1>2 DEF Busy
<1>4. /\ DOMAIN Following = {"start", "save", "close"} /\ Following["start"] = "resume"
      /\ Following["save"] = "put" /\ Following["close"] = "stop"
  BY DEF Following
<1>5. CASE phase \in DOMAIN Following
  <2>1. after = [tasks EXCEPT ![x] = Following[phase]]
    BY <1>1, <1>2, <1>5 DEF After
  <2> QED
    BY <1>1, <1>2, <1>3, <1>4, <1>5, <2>1 DEF Leaves
<1>6. CASE phase \notin DOMAIN Following
  <2>1. after = [y \in DOMAIN tasks \ {x} |-> tasks[y]]
    BY <1>1, <1>2, <1>6 DEF After, Without
  <2> QED
    BY <1>1, <1>2, <1>4, <1>6, <2>1 DEF Leaves, Phase
<1> QED
  BY <1>5, <1>6

LEMMA OpenTask ==
  ASSUME Settled, NEW t \in Thread, NEW x \in Plugin, Task(t, x), setting' = setting,
         thread[t].op = "open", OpenPhases(t)
  PROVE  OpenPhases(t)' /\ UNCHANGED session
<1>1. PICK phase, tasks, of, after :
          /\ phase = thread[t].tasks[x] /\ tasks = thread[t].tasks
          /\ of = thread[t].of /\ after = thread'[t].tasks
  OBVIOUS
<1>2. /\ x \in DOMAIN tasks /\ phase \in {"start", "resume"} /\ of \in Domain
      /\ thread'[t].goal = thread[t].goal /\ thread'[t].of = of
      /\ thread'[t].bad = thread[t].bad /\ after = After(t, x, phase)
      /\ Effect(t, x, phase) /\ thread[t] \in Busy /\ phase \in Phase
  BY <1>1, TaskIs DEF OpenPhases
<1>3. UNCHANGED plugins /\ plugins # None /\ plugins.names \subseteq Plugin /\ DataTyped
  BY TypeParts, TaskIs DEF Settled, DataTyped, OpenPhases
<1>4. Leaves(tasks, x, phase, after)
  BY <1>1, TaskLeaves
<1>5. CASE phase = "start"
  <2>1. running' = running \union {x} /\ UNCHANGED <<shown, session>>
    BY <1>2, <1>5 DEF Effect, OnStart
  <2>2. DOMAIN after = DOMAIN tasks /\ after[x] = "resume" /\ \A y \in DOMAIN tasks : y # x => after[y] = tasks[y]
    BY <1>4, <1>1, <1>2, <1>5 DEF Leaves
  <2>3. \A y \in DOMAIN after : after[y] \in {"start", "resume"}
    BY <1>1, <2>2 DEF OpenPhases
  <2>4. ASSUME ~thread[t].bad, NEW y \in plugins.names
        PROVE  IF y \in DOMAIN after THEN after[y] = "resume" => y \in running'
               ELSE y \in running' /\ shown'[y] >= session'[of][y]
    BY <1>1, <2>1, <2>2, <2>4 DEF OpenPhases
  <2> QED
    BY <1>1, <1>2, <1>3, <2>1, <2>3, <2>4 DEF OpenPhases
<1>6. CASE phase = "resume"
  <2>1. /\ running' = running /\ session' = session
        /\ shown'[x] >= session[of][x] /\ \A y \in Plugin : y # x => shown'[y] = shown[y]
    BY <1>1, <1>2, <1>3, <1>6, EffectIs
  <2>2. DOMAIN after = DOMAIN tasks \ {x} /\ \A y \in DOMAIN tasks : y # x => after[y] = tasks[y]
    BY <1>4, <1>1, <1>2, <1>6 DEF Leaves
  <2>3. \A y \in DOMAIN after : after[y] \in {"start", "resume"}
    BY <1>1, <2>2 DEF OpenPhases
  <2>4. ASSUME ~thread[t].bad, NEW y \in plugins.names
        PROVE  IF y \in DOMAIN after THEN after[y] = "resume" => y \in running'
               ELSE y \in running' /\ shown'[y] >= session'[of][y]
    BY <1>1, <1>2, <1>3, <1>6, <2>1, <2>2, <2>4 DEF OpenPhases
  <2> QED
    BY <1>1, <1>2, <1>3, <2>1, <2>3, <2>4 DEF OpenPhases
<1> QED
  BY <1>2, <1>5, <1>6

LEMMA SaveTask ==
  ASSUME Settled, NEW t \in Thread, NEW x \in Plugin, Task(t, x),
         thread[t].op = "save", SavePhases(t), Shows, stat # None
  PROVE  SavePhases(t)' /\ Shows' /\ SessionKept
<1>1. PICK phase, tasks, of, kept, after, next :
          /\ phase = thread[t].tasks[x] /\ tasks = thread[t].tasks /\ of = thread[t].of
          /\ kept = thread[t].kept /\ after = thread'[t].tasks /\ next = thread'[t].kept
  OBVIOUS
<1>2. /\ x \in DOMAIN tasks /\ x \in plugins.names /\ phase \in {"save", "put"}
      /\ plugins # None /\ of = plugins.of /\ of \in Domain
      /\ thread'[t].of = of /\ after = After(t, x, phase)
      /\ next[x] = IF phase = "save" THEN shown[x] ELSE kept[x]
      /\ \A y \in Plugin : y # x => next[y] = kept[y]
      /\ Effect(t, x, phase) /\ thread[t] \in Busy /\ phase \in Phase /\ UNCHANGED <<plugins, stat>>
  BY <1>1, TaskIs DEF SavePhases, domain
<1>3. DataTyped /\ kept \in [Plugin -> Content] /\ Content \subseteq Nat
  BY <1>1, <1>2, TypeParts, CoreAssumption DEF Settled, Busy, Content
<1>4. plugins.names \subseteq Plugin
  BY <1>2, <1>3 DEF DataTyped
<1>5. \A d \in Domain, y \in Plugin : session[d][y] \in Nat /\ shown[y] \in Nat /\ kept[y] \in Nat
  BY <1>3 DEF DataTyped
<1>6. \A y \in plugins.names : shown[y] >= session[of][y]
  BY <1>2 DEF Shows
<1>7. \A y \in DOMAIN tasks :
          /\ y \in plugins.names /\ tasks[y] \in {"save", "put"}
          /\ tasks[y] = "put" => session[of][y] <= kept[y] /\ kept[y] <= shown[y]
  BY <1>1 DEF SavePhases
<1>8. Leaves(tasks, x, phase, after)
  BY <1>1, TaskLeaves
<1>9. CASE phase = "save"
  <2>1. UNCHANGED <<shown, session>>
    BY <1>1, <1>2, <1>3, <1>9, EffectIs
  <2>2. DOMAIN after = DOMAIN tasks /\ after[x] = "put" /\ \A y \in DOMAIN tasks : y # x => after[y] = tasks[y]
    BY <1>8, <1>1, <1>2, <1>9 DEF Leaves
  <2>3. session[of][x] <= next[x] /\ next[x] <= shown[x]
    BY <1>2, <1>4, <1>5, <1>6, <1>9
  <2>4. \A y \in DOMAIN after :
            /\ y \in plugins.names /\ after[y] \in {"save", "put"}
            /\ after[y] = "put" => session[of][y] <= next[y] /\ next[y] <= shown[y]
    BY <1>2, <1>4, <1>7, <2>2, <2>3
  <2>5. SavePhases(t)'
    BY <1>1, <1>2, <2>1, <2>4 DEF SavePhases
  <2>6. SessionKept
    BY <1>5, <2>1 DEF SessionKept
  <2> QED
    BY <1>2, <2>1, <2>5, <2>6 DEF Shows
<1>10. CASE phase = "put"
  <2>1. /\ session'[of][x] = kept[x]
        /\ \A d \in Domain, y \in Plugin : d # of \/ y # x => session'[d][y] = session[d][y]
        /\ UNCHANGED shown
    <3>1. /\ session'[thread[t].of][x] = thread[t].kept[x]
          /\ \A d \in Domain, y \in Plugin : d # thread[t].of \/ y # x => session'[d][y] = session[d][y]
          /\ UNCHANGED shown
      BY <1>1, <1>2, <1>3, <1>10, EffectIs
    <3> QED
      BY <1>1, <3>1
  <2>2. DOMAIN after = DOMAIN tasks \ {x} /\ \A y \in DOMAIN tasks : y # x => after[y] = tasks[y]
    BY <1>8, <1>1, <1>2, <1>10 DEF Leaves
  <2>3. session[of][x] <= kept[x] /\ kept[x] <= shown[x]
    BY <1>1, <1>2, <1>7, <1>10
  <2>4. \A y \in DOMAIN after :
            /\ y \in plugins.names /\ after[y] \in {"save", "put"}
            /\ after[y] = "put" => session'[of][y] <= next[y] /\ next[y] <= shown[y]
    BY <1>2, <1>4, <1>7, <2>1, <2>2
  <2>5. SavePhases(t)'
    BY <1>1, <1>2, <2>1, <2>4 DEF SavePhases
  <2>6. \A y \in plugins.names : shown[y] >= session'[of][y]
    BY <1>2, <1>4, <1>5, <1>6, <2>1, <2>3
  <2>7. SessionKept
    BY <1>2, <1>5, <2>1, <2>3 DEF SessionKept
  <2> QED
    BY <1>2, <2>1, <2>5, <2>6, <2>7 DEF Shows
<1> QED
  BY <1>2, <1>9, <1>10

LEMMA CloseTask ==
  ASSUME Settled, NEW t \in Thread, NEW x \in Plugin, Task(t, x),
         thread[t].op = "close", ClosePhases(t)
  PROVE  ClosePhases(t)' /\ UNCHANGED session
<1>1. PICK phase, tasks, after :
          phase = thread[t].tasks[x] /\ tasks = thread[t].tasks /\ after = thread'[t].tasks
  OBVIOUS
<1>2. /\ x \in DOMAIN tasks /\ phase \in {"close", "stop"} /\ after = After(t, x, phase)
      /\ Effect(t, x, phase) /\ thread[t] \in Busy /\ phase \in Phase
      /\ thread[t].of \in Domain /\ DataTyped
  BY <1>1, TaskIs DEF ClosePhases
<1>3. UNCHANGED session
  BY <1>2, EffectIs
<1>4. Leaves(tasks, x, phase, after)
  BY <1>1, TaskLeaves
<1>5. \A y \in DOMAIN after : after[y] \in {"close", "stop"}
  <2>1. \A y \in DOMAIN tasks : y # x => after[y] = tasks[y]
    BY <1>4, <1>1, <1>2 DEF Leaves
  <2>2. CASE phase = "close"
    <3>1. DOMAIN after = DOMAIN tasks /\ after[x] = "stop"
      BY <1>4, <1>1, <1>2, <2>2 DEF Leaves
    <3> QED
      BY <1>1, <2>1, <3>1 DEF ClosePhases
  <2>3. CASE phase = "stop"
    <3>1. DOMAIN after = DOMAIN tasks \ {x}
      BY <1>4, <1>1, <1>2, <2>3 DEF Leaves
    <3> QED
      BY <1>1, <2>1, <3>1 DEF ClosePhases
  <2> QED
    BY <1>2, <2>2, <2>3
<1> QED
  BY <1>1, <1>3, <1>5 DEF ClosePhases

(* The same of a callback that reports an error.                           *)
LEMMA FailureKeeps ==
  ASSUME Settled, NEW t \in Thread, NEW x \in Plugin, Failing(t, x, TRUE), ~Idle(t),
         x \in DOMAIN thread[t].tasks, setting' = setting,
         UNCHANGED <<plugins, running, shown, session>>
  PROVE  /\ OpenPhases(t) => OpenPhases(t)'
         /\ SavePhases(t) => SavePhases(t)'
         /\ ClosePhases(t) => ClosePhases(t)'
<1>1. PICK tasks, after : tasks = thread[t].tasks /\ after = thread'[t].tasks
  OBVIOUS
<1>2. /\ after = Without(tasks, x) /\ thread'[t].bad = TRUE
      /\ thread'[t].of = thread[t].of /\ thread'[t].kept = thread[t].kept
      /\ thread'[t].goal = thread[t].goal
  <2>1. ThreadTyped
    BY TypeParts DEF Settled
  <2>2. thread[t] \in Busy
    BY <2>1, BusyIs
  <2>3. /\ thread'[t].tasks = Without(thread[t].tasks, x)
        /\ thread'[t].of = thread[t].of /\ thread'[t].kept = thread[t].kept
        /\ thread'[t].goal = thread[t].goal
    BY <2>1, FailureIs
  <2>4. thread'[t] = [thread[t] EXCEPT !.tasks = Without(thread[t].tasks, x), !.bad = TRUE]
    BY <2>1 DEF Failing, ThreadTyped
  <2>5. thread'[t].bad = TRUE
    BY <2>2, <2>4 DEF Busy
  <2> QED
    BY <1>1, <2>3, <2>5
<1>3. DOMAIN after = DOMAIN tasks \ {x} /\ \A y \in DOMAIN after : after[y] = tasks[y]
  BY <1>2 DEF Without
<1>4. OpenPhases(t) => OpenPhases(t)'
  BY <1>1, <1>2, <1>3 DEF OpenPhases
<1>5. SavePhases(t) => SavePhases(t)'
  BY <1>1, <1>2, <1>3 DEF SavePhases
<1>6. ClosePhases(t) => ClosePhases(t)'
  BY <1>1, <1>3 DEF ClosePhases
<1> QED
  BY <1>4, <1>5, <1>6

(* A step keeps Ready if it does so for its own thread.                    *)
Resting(t) == ~Idle(t) => ~Moving(t)

LEMMA StepReady ==
  ASSUME Settled, setting.patient, Turn, Ready, "raises" \notin Faults,
         NEW t \in Thread, ThreadStep(t), setting' = setting
  PROVE  (~Idle(t)' => Phases(t)') /\ (Resting(t)' => Shows') /\ SessionKept
<1>0. /\ ThreadTyped /\ DataTyped /\ Place(t) /\ Alone(t) /\ (~Idle(t) => Sane(t))
      /\ ~Idle(t) => Phases(t)
      /\ Resting(t) => Shows
  BY StepAlone, TypeParts DEF Settled, Places, Turn, Ready, Alone, Resting
<1>1. UNCHANGED session => SessionKept
  BY <1>0, CoreAssumption DEF SessionKept, DataTyped, Content
<1>2. ASSUME NEW op \in {"save", "close"}, Begin(t, op)
      PROVE  ~Idle(t)' /\ thread'[t].pc # "tasks" /\ Shows' /\ UNCHANGED session
  BY <1>0, <1>2, CallIs DEF Begin, Begins, Pcs, Resting, Shows, domain, apps
<1>3. ASSUME NEW d \in Domain, Switch(t, d)
      PROVE  ~Idle(t)' /\ thread'[t].pc # "tasks" /\ Shows' /\ UNCHANGED session
  BY <1>0, <1>3, CallIs DEF Switch, Begins, Pcs, Resting, Shows, domain, apps
<1>4. ASSUME Check(t)
      PROVE  (~Idle(t)' => thread'[t].pc # "tasks") /\ (Resting(t)' => Shows') /\ UNCHANGED session
  <2>1. ~Idle(t) /\ thread[t].op = "open" /\ (plugins = None \/ stat = None)
    BY <1>0, <1>4 DEF Check, Idle, Place, Sane
  <2> QED
    BY <1>0, <1>4, <2>1, GotoIs, ReturnIs DEF Check, Pcs, Resting, Moving, Shows, domain
<1>5. ASSUME StartSandbox(t)
      PROVE  (~Idle(t)' => thread'[t].pc # "tasks") /\ (Resting(t)' => Shows') /\ UNCHANGED session
  <2>1. ~Idle(t) /\ thread[t].op = "open" /\ (plugins = None \/ stat = None)
    BY <1>0, <1>5 DEF StartSandbox, Idle, Place, Sane
  <2> QED
    BY <1>0, <1>5, <2>1, GotoIs, ReturnIs DEF StartSandbox, Pcs, Resting, Moving, Shows
<1>6. ASSUME ReadStat(t)
      PROVE  (~Idle(t)' => thread'[t].pc # "tasks") /\ (Resting(t)' => Shows') /\ UNCHANGED session
  <2>1. ~Idle(t) /\ thread[t].pc = "finalize" /\ UNCHANGED <<stat, plugins, shown, session>>
    BY <1>6 DEF ReadStat, Idle, domain, apps
  <2>2. CASE stat = None
    BY <1>0, <1>6, <2>1, <2>2, ReturnIs DEF ReadStat, AfterFinalize, Shows
  <2>3. CASE stat # None
    <3>1. Killing(t)
      BY <1>6, <2>3 DEF ReadStat, Killing
    <3>2. Moving(t)' <=> Moving(t)
      BY <1>0, <2>1, <3>1, KillingIs DEF Moving
    <3> QED
      BY <1>0, <2>1, <3>1, <3>2, KillingIs DEF Resting, Shows
  <2> QED
    BY <2>2, <2>3
<1>7. ASSUME Kill(t) PROVE Idle(t)' /\ Shows' /\ UNCHANGED session
  <2>1. ~Idle(t)
    BY <1>7 DEF Kill, Idle
  <2> QED
    BY <1>0, <1>7, <2>1, ReturnIs DEF Kill, AfterFinalize, Shows
<1>8. ASSUME Load(t) \/ LoadPlugin(t)
      PROVE  ~Idle(t)' /\ thread'[t].pc # "tasks" /\ Moving(t)' /\ UNCHANGED session
  <2>1. ~Idle(t) /\ thread[t].op = "open"
    BY <1>0, <1>8 DEF Load, LoadPlugin, Idle, Place
  <2> QED
    BY <1>0, <1>8, <2>1, GotoIs, FailIs DEF Load, LoadPlugin, Pcs, Idle, Moving
<1>9. ASSUME Blade(t)
      PROVE  (~Idle(t)' => Phases(t)') /\ (Resting(t)' => Shows') /\ UNCHANGED session
  <2>1. /\ ~Idle(t) /\ thread[t].op \in {"open", "save", "close"}
        /\ UNCHANGED <<stat, plugins, running, shown, session, setting>>
        /\ thread[t].pc = "blade"
    <3>1. ~Idle(t)
      BY <1>9 DEF Blade, Idle
    <3>2. thread[t] \in Busy
      BY <1>0, <3>1, BusyIs
    <3> QED
      BY <1>9, <3>1, <3>2 DEF Blade, Busy, domain, apps
  <2> DEFINE tasks == [x \in plugins.names |-> First[thread[t].op]]
  <2>2. CASE plugins # None /\ Calling(t, plugins.of, tasks)
    <3>1. DOMAIN tasks = plugins.names /\ \A x \in DOMAIN tasks : tasks[x] = First[thread[t].op]
      OBVIOUS
    <3>2. First["open"] = "start" /\ First["save"] = "save" /\ First["close"] = "close"
      BY DEF First
    <3> HIDE DEF tasks
    <3>3. /\ ~Idle(t)' /\ thread'[t].pc = "tasks" /\ thread'[t].of = plugins.of
          /\ thread'[t].tasks = tasks /\ thread'[t].op = thread[t].op
          /\ thread'[t].goal = thread[t].goal
      BY <1>0, <2>1, <2>2, CallingIs
    <3>4. thread[t].op = "open" => OpenPhases(t)' /\ Moving(t)'
      <4>1. thread[t].op = "open" => plugins.of = thread[t].goal
        BY <1>0, <2>1 DEF Sane, Loaded, Loading
      <4> QED
        BY <2>1, <2>2, <3>1, <3>2, <3>3, <4>1 DEF OpenPhases, Moving
    <3>5. thread[t].op = "save" => SavePhases(t)' /\ Shows'
      BY <1>0, <2>1, <2>2, <3>1, <3>2, <3>3 DEF SavePhases, Moving, Resting, Shows
    <3>6. thread[t].op = "close" => ClosePhases(t)' /\ Moving(t)'
      BY <3>1, <3>2, <3>3 DEF ClosePhases, Moving
    <3> QED
      BY <2>1, <3>3, <3>4, <3>5, <3>6 DEF Phases, Resting
  <2>3. CASE plugins = None /\ Raised(t)
    BY <1>0, <2>1, <2>3, GotoIs, ReturnIs DEF Raised, Pcs, Phases, Shows
  <2>4. \A u \in Thread \ {t} : thread[u].pc # "loading"
    BY <1>0 DEF Alone, Idle
  <2> QED
    BY <1>9, <2>2, <2>3, <2>4 DEF Blade, Calling
<1>10. ASSUME TasksEnd(t)
      PROVE  (~Idle(t)' => thread'[t].pc # "tasks") /\ (Resting(t)' => Shows') /\ UNCHANGED session
  <2>1. /\ ~Idle(t) /\ thread[t].op \in {"open", "save", "close"} /\ thread[t].pc = "tasks"
        /\ UNCHANGED <<stat, plugins, shown, session>> /\ DOMAIN thread[t].tasks = {}
    <3>1. ~Idle(t)
      BY <1>10 DEF TasksEnd, Idle
    <3>2. thread[t] \in Busy
      BY <1>0, <3>1, BusyIs
    <3> QED
      BY <1>10, <3>1, <3>2 DEF TasksEnd, Busy, domain, apps
  <2>2. CASE thread[t].op = "close" \/ (thread[t].op = "open" /\ thread[t].bad)
    <3>1. Goto(t, "finalize")
      BY <1>10, <2>2 DEF TasksEnd, Closes, Undo
    <3> QED
      BY <1>0, <2>1, <2>2, <3>1, GotoIs DEF Pcs, Resting, Moving
  <2>3. CASE thread[t].op = "save"
    <3>1. Idle(t)'
      BY <1>0, <1>10, <2>1, <2>3, ReturnIs DEF TasksEnd
    <3> QED
      BY <1>0, <2>1, <2>3, <3>1 DEF Resting, Moving, Shows
  <2>4. CASE thread[t].op = "open" /\ ~thread[t].bad
    <3>1. Idle(t)'
      BY <1>0, <1>10, <2>1, <2>4, ReturnIs DEF TasksEnd
    <3>2. plugins.of = thread[t].goal /\ OpenPhases(t)
      BY <1>0, <2>1, <2>4 DEF Sane, Loaded, Loading, Phases
    <3>3. plugins.of = thread[t].of /\ \A x \in plugins.names : shown[x] >= session[thread[t].of][x]
      BY <2>1, <2>4, <3>2 DEF OpenPhases
    <3> QED
      BY <2>1, <3>1, <3>3 DEF Shows
  <2> QED
    BY <2>1, <2>2, <2>3, <2>4
<1>11. ASSUME NEW x \in Plugin, Task(t, x)
       PROVE  (~Idle(t)' => Phases(t)') /\ (Resting(t)' => Shows') /\ SessionKept
  <2>1. /\ ~Idle(t) /\ ~Idle(t)' /\ thread[t].pc = "tasks" /\ thread'[t].pc = "tasks"
        /\ thread'[t].op = thread[t].op
    BY <1>11, TaskIs
  <2>2. thread[t].op \in {"open", "save", "close"}
    BY <1>0, <2>1, BusyIs DEF Busy
  <2>3. CASE thread[t].op = "open"
    BY <1>0, <1>1, <1>11, <2>1, <2>3, OpenTask DEF Phases, Moving, Resting
  <2>4. CASE thread[t].op = "save"
    <3>1. SavePhases(t) /\ Shows /\ stat # None
      BY <1>0, <2>1, <2>4 DEF Phases, Moving, Resting, Sane
    <3> QED
      BY <1>11, <2>1, <2>4, <3>1, SaveTask DEF Phases
  <2>5. CASE thread[t].op = "close"
    BY <1>0, <1>1, <1>11, <2>1, <2>5, CloseTask DEF Phases, Moving, Resting
  <2> QED
    BY <2>2, <2>3, <2>4, <2>5
<1>12. ASSUME NEW x \in Plugin, TaskFails(t, x)
       PROVE  (~Idle(t)' => Phases(t)') /\ (Resting(t)' => Shows') /\ UNCHANGED session
  <2>1. /\ ~Idle(t) /\ thread[t].pc = "tasks" /\ x \in DOMAIN thread[t].tasks
        /\ UNCHANGED <<stat, plugins, running, shown, session>>
    BY <1>12 DEF TaskFails, Idle, domain, apps
  <2>2. Failing(t, x, TRUE)
    BY <1>12 DEF TaskFails, Failing
  <2>3. ~Idle(t)' /\ thread'[t].pc = "tasks" /\ thread'[t].op = thread[t].op
    BY <1>0, <2>1, <2>2, FailureIs
  <2>4. Phases(t)'
    BY <1>0, <2>1, <2>2, <2>3, FailureKeeps DEF Phases
  <2>5. Moving(t)' <=> Moving(t)
    BY <2>1, <2>3 DEF Moving
  <2> QED
    BY <1>0, <2>1, <2>3, <2>4, <2>5 DEF Resting, Shows
<1> QED
  BY <1>1, <1>2, <1>3, <1>4, <1>5, <1>6, <1>7, <1>8, <1>9, <1>10, <1>11, <1>12
     DEF ThreadStep, Phases, Resting

LEMMA NextReady ==
  ASSUME Settled, setting.patient, Turn, Ready, "raises" \notin Faults, [Next]_vars
  PROVE  Ready' /\ SessionKept
<1>0. TypeOK /\ Places /\ ThreadTyped /\ DataTyped /\ Bounded /\ \A u \in Thread : ~Idle(u) => Phases(u)
  BY TypeParts DEF Settled, Ready
<1>1. UNCHANGED session => SessionKept
  BY <1>0, CoreAssumption DEF SessionKept, DataTyped, Content
<1>2. CASE UNCHANGED vars
  <2>1. UNCHANGED <<setting, stat, plugins, running, shown, session, thread>>
    BY <1>2 DEF vars, domain, apps
  <2>2. \A u \in Thread : Idle(u)' = Idle(u) /\ (Moving(u)' <=> Moving(u)) /\ (Phases(u)' <=> Phases(u))
    BY <2>1 DEF Idle, Moving, Phases, OpenPhases, SavePhases, ClosePhases
  <2>3. Shows' <=> Shows
    BY <2>1 DEF Shows
  <2> QED
    BY <1>1, <2>1, <2>2, <2>3 DEF Ready, Thread
<1>3. ASSUME NEW t \in Thread, ThreadStep(t), setting' = setting PROVE Ready' /\ SessionKept
  <2>1. (~Idle(t)' => Phases(t)') /\ (Resting(t)' => Shows') /\ SessionKept
    BY <1>3, StepReady
  <2>2. \A u \in Thread \ {t} : Idle(u)'
    BY <1>0, <1>3, StepAlone DEF Alone, Thread
  <2>3. t \in Thread' /\ Thread' = Thread
    BY <1>3 DEF Thread
  <2> QED
    BY <2>1, <2>2, <2>3 DEF Ready, Resting
<1>4. ASSUME NEW x \in Plugin, Work(x), setting' = setting PROVE Ready' /\ SessionKept
  <2>1. /\ UNCHANGED <<setting, stat, plugins, running, session, thread>>
        /\ shown' = [shown EXCEPT ![x] = work + 1] /\ shown[x] <= work
    BY <1>0, <1>4 DEF Work, domain, Bounded
  <2>2. work \in Nat /\ \A y \in Plugin : shown[y] \in Nat
    BY <1>0, CoreAssumption DEF DataTyped, Content
  <2>3. \A y \in Plugin : shown'[y] \in Nat /\ shown'[y] >= shown[y]
    BY <1>0, <2>1, <2>2 DEF DataTyped
  <2>4. \A d \in Domain, y \in Plugin : session[d][y] \in Nat
    BY <1>0, CoreAssumption DEF DataTyped, Content
  <2>5. ASSUME NEW u \in Thread, ~Idle(u) PROVE Phases(u)'
    <3>1. Phases(u) /\ Place(u) /\ thread[u] \in Busy
      BY <1>0, <2>5, BusyIs DEF Places
    <3>2. plugins # None => plugins.names \subseteq Plugin
      BY <1>0 DEF DataTyped
    <3>3. thread[u].pc = "tasks" => thread[u].of \in Domain
      BY <2>5, <3>1 DEF Place
    <3>4. thread[u].pc = "tasks" /\ OpenPhases(u) => OpenPhases(u)'
      <4>1. PICK tasks, of : tasks = thread[u].tasks /\ of = thread[u].of
        OBVIOUS
      <4>2. ASSUME of \in Domain, plugins # None, NEW y \in plugins.names, shown[y] >= session[of][y]
            PROVE  shown'[y] >= session'[of][y]
        BY <2>1, <2>2, <2>3, <2>4, <3>2, <4>2
      <4> QED
        BY <2>1, <3>2, <3>3, <4>1, <4>2 DEF OpenPhases
    <3>5. SavePhases(u) => SavePhases(u)'
      <4>1. PICK tasks, of, kept : tasks = thread[u].tasks /\ of = thread[u].of /\ kept = thread[u].kept
        OBVIOUS
      <4>2. \A y \in Plugin : kept[y] \in Nat
        BY <3>1, <4>1, CoreAssumption DEF Busy, Content
      <4>3. \A y \in DOMAIN tasks : y \in Plugin
        BY <3>1, <4>1 DEF Busy
      <4>4. \A y \in Plugin : kept[y] <= shown[y] => kept[y] <= shown'[y]
        BY <2>2, <2>3, <4>2
      <4> QED
        BY <2>1, <4>1, <4>3, <4>4 DEF SavePhases
    <3>6. ClosePhases(u) => ClosePhases(u)'
      BY <2>1 DEF ClosePhases
    <3> QED
      BY <2>1, <3>1, <3>4, <3>5, <3>6 DEF Phases
  <2>6. Shows => Shows'
    <3> SUFFICES ASSUME Shows, plugins # None, stat # None, NEW y \in plugins.names
                 PROVE  shown'[y] >= session'[plugins.of][y]
      BY <2>1 DEF Shows
    <3>1. plugins.of \in Domain /\ y \in Plugin
      BY <1>0 DEF DataTyped
    <3>2. shown[y] >= session[plugins.of][y]
      BY DEF Shows
    <3> QED
      BY <2>1, <2>2, <2>3, <2>4, <3>1, <3>2
  <2>7. \A u \in Thread : (Idle(u)' <=> Idle(u)) /\ (Moving(u)' <=> Moving(u))
    BY <2>1 DEF Idle, Moving
  <2>8. Thread' = Thread
    BY <2>1 DEF Thread
  <2> QED
    BY <1>1, <2>1, <2>5, <2>6, <2>7, <2>8 DEF Ready
<1>5. ASSUME Crash \/ Reboot, setting' = setting PROVE Ready' /\ SessionKept
  <2>1. (\A u \in Thread : Idle(u)') /\ plugins' = None /\ UNCHANGED session
    BY <1>0, <1>5 DEF Crash, Reboot, Stop, Idle, IdleThread, Thread
  <2> QED
    BY <1>1, <1>5, <2>1 DEF Ready, Shows, Thread
<1>6. ASSUME Restart, setting' = setting PROVE Ready' /\ SessionKept
  <2>1. AllIdle /\ plugins' = None /\ UNCHANGED session
    BY <1>6 DEF Restart, Turn
  <2>2. \A u \in Thread : ~Idle(u)' => thread'[u].pc # "tasks"
    <3>1. CASE UNCHANGED thread
      BY <2>1, <3>1 DEF AllIdle, Idle
    <3>2. CASE "main" \in Thread /\ thread' = Call("main", "open", stat, "check")
      <4>1. Others("main") /\ thread'["main"].pc = "check"
        BY <1>0, <3>2, CallIs DEF Pcs
      <4> QED
        BY <2>1, <4>1 DEF Others, AllIdle, Idle
    <3> QED
      BY <1>6, <3>1, <3>2 DEF Restart
  <2> QED
    BY <1>1, <1>6, <2>1, <2>2 DEF Ready, Phases, Shows, Thread
<1>7. CASE Next
  BY <1>3, <1>4, <1>5, <1>6, <1>7 DEF Next, Steps, ThreadStep
<1> QED
  BY <1>2, <1>7

(* What holds between operations that take turns, in one invariant.        *)
InTurn == setting.patient => Turn /\ Ready

LEMMA InitInTurn == Init => InTurn
<1>1. Init => Ready
  BY DEF Init, Ready, Shows, Idle, IdleThread
<1> QED
  BY <1>1, InitTurn DEF InTurn

LEMMA NextInTurn == ASSUME Reported PROVE Settled /\ InTurn /\ [Next]_vars => InTurn'
<1> SUFFICES ASSUME Settled, InTurn, [Next]_vars, setting'.patient PROVE Turn' /\ Ready'
  BY DEF InTurn
<1>1. setting' = setting /\ Turn /\ Ready
  BY DEF Next, vars, InTurn
<1>2. "raises" \notin Faults
  BY <1>1 DEF Reported, Faults, Settled, TypeOK
<1> QED
  BY <1>1, <1>2, NextTurn, NextReady

(* As long as callbacks report their errors and operations do not overlap, *)
(* a session is only ever replaced by one that was worked out from it      *)
(* (save_domain, executeBlade, putFile).                                   *)
THEOREM SessionsKept == ASSUME Reported PROVE Spec => SessionNeverRegresses
<1>1. Settled /\ InTurn /\ [Next]_vars => [setting.patient => SessionKept]_vars
  <2> SUFFICES ASSUME Settled, InTurn, [Next]_vars, setting.patient PROVE SessionKept
    OBVIOUS
  <2>1. Turn /\ Ready /\ "raises" \notin Faults
    BY DEF InTurn, Reported, Faults, Settled, TypeOK
  <2> QED
    BY <2>1, NextReady
<1>2. Settled /\ InTurn /\ [Next]_vars => InTurn'
  BY NextInTurn
<1> QED
  BY InitTyped, NextTyped, InitInTurn, <1>1, <1>2, PTL DEF Spec, SessionNeverRegresses

(* Then, too, a domain that open_domain says is open, with no traceback,   *)
(* has its sandbox and its overlay, and every application that was loaded  *)
(* runs and shows what was saved of it, or something later.  Loaded are    *)
(* all that are enabled, or, when one of them has a plugin of its own,     *)
(* those before it (OpenStartsAll is what the code does not promise).      *)
THEOREM OpensRestored == ASSUME Reported PROVE Spec => OpenedIsRestored
<1> DEFINE Opened(t) ==
           LET d == thread[t].goal
           IN  /\ stat = d /\ d \in sandboxes /\ d \in moved
               /\ plugins.of = d /\ plugins.names \subseteq Enabled \ Supported
               /\ plugins.names = Enabled \/ Enabled \cap Supported # {}
               /\ plugins.names \subseteq running
               /\ \A x \in plugins.names : shown[x] >= session[d][x]
    A == \A t \in Thread : setting.patient /\ Returns(t, "open") /\ result'[t].code = "clean" => Opened(t)
<1>1. Settled /\ InTurn /\ [Next]_vars => [A]_vars
  <2> SUFFICES ASSUME Settled, InTurn, [Next]_vars, NEW t \in Thread,
                      setting.patient, Returns(t, "open"), result'[t].code = "clean"
               PROVE  Opened(t)
    OBVIOUS
  <2>1. ~Idle(t) /\ Idle(t)' /\ up' # "down" /\ thread[t].op = "open" /\ Turn /\ Ready
    BY DEF Returns, Idle, InTurn
  <2>2. ThreadStep(t) /\ setting' = setting
    BY <2>1, ReturnsByStep
  <2>3. TasksEnd(t) /\ ~thread[t].bad
    BY <2>1, <2>2, OpenStep
  <2>4. thread[t].pc = "tasks" /\ DOMAIN thread[t].tasks = {}
    BY <2>3 DEF TasksEnd
  <2>5. Sane(t) /\ OpenPhases(t)
    BY <2>1, <2>4 DEF Turn, Ready, Phases
  <2> QED
    BY <2>1, <2>3, <2>4, <2>5 DEF Sane, Loaded, Loading, OpenPhases
<1>2. Settled /\ InTurn /\ [Next]_vars => InTurn'
  BY NextInTurn
<1> QED
  BY InitTyped, NextTyped, InitInTurn, <1>1, <1>2, PTL DEF Spec, OpenedIsRestored
==============================================================================
