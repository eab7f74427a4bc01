----------------------- MODULE ApplicationManagerProofs -----------------------
(***************************************************************************)
(* Proofs about ApplicationManager, for every set of applications and of   *)
(* processes, whichever are native, targeted or own, and whether or not    *)
(* ~/.local/share is read; and that the sessions of AppSession leave the   *)
(* registry's behaviour as it is.                                          *)
(*                                                                         *)
(* A command passes from the disk to what a process has listed, from there *)
(* to its registry and to the file it is about to write, and back to the   *)
(* disk; the inductive invariant bounds it in all four places.             *)
(***************************************************************************)
EXTENDS AppSession, FiniteSetTheorems, TLAPS

Bounded == 0..1

(* What a process is about to write, when it is writing.                   *)
ToWrite == [app : App, exec : Bounded, whole : BOOLEAN, next : {"refresh", "restore"}]
Scan == [pc : {"refresh", "restore"}, todo : SUBSET App,
         listed : [App -> [exec : Bounded, home : BOOLEAN]], file : {Absent}]
Writing == [pc : {"write"}, todo : SUBSET App,
            listed : [App -> [exec : Bounded, home : BOOLEAN]], file : ToWrite]
OnDisk == {Absent} \union [exec : Bounded, whole : BOOLEAN]
Entry == [exec : Bounded, kind : {"native", "plugin", "generated"}]

Once ==
    /\ home \in [App -> OnDisk]
    /\ registry \in [Process -> [App -> {None} \union Entry]]
    /\ proc \in [Process -> {Resting} \union Scan \union Writing]
    /\ overlapped \in BOOLEAN

LEMMA Init_Once == RegistryInit => Once
<1> SUFFICES ASSUME RegistryInit PROVE Once
  OBVIOUS
<1>1. {Absent, [exec |-> 0, whole |-> TRUE]} \subseteq OnDisk
  BY DEF OnDisk, Bounded
<1>2. home \in [App -> OnDisk]
  BY <1>1 DEF RegistryInit
<1>3. registry \in [Process -> [App -> {None} \union Entry]]
  BY DEF RegistryInit
<1>4. proc \in [Process -> {Resting} \union Scan \union Writing]
  BY DEF RegistryInit
<1> QED BY <1>2, <1>3, <1>4 DEF RegistryInit, Once

LEMMA ListedOnce == ASSUME Once PROVE Listed \in [App -> [exec : Bounded, home : BOOLEAN]]
<1> USE DEF Bounded
<1>1. \A a \in App : FromHome(a) => home[a].exec \in 0..1
  BY DEF Once, OnDisk, FromHome, Absent
<1>2. \A a \in App : FromHome(a) \in BOOLEAN
  BY DEF Once, OnDisk, FromHome, Absent
<1> QED BY <1>1, <1>2 DEF Listed

LEMMA Begins_Once ==
    ASSUME Once, NEW p \in Process, NEW pc \in {"refresh", "restore"}, NEW todo \in SUBSET App,
           Begins(p, pc, todo, Listed), UNCHANGED <<home, registry>>
    PROVE  Once'
<1>1. [pc |-> pc, todo |-> todo, listed |-> Listed, file |-> Absent] \in Scan
  BY ListedOnce DEF Scan
<1>2. proc' \in [Process -> {Resting} \union Scan \union Writing]
  BY <1>1 DEF Begins, Once
<1>3. overlapped' \in BOOLEAN
  BY DEF Begins
<1> QED BY <1>2, <1>3 DEF Once

LEMMA Register_Once ==
    ASSUME Once, NEW p \in Process, NEW a \in App, Register(p, a)
    PROVE  Once'
<1> DEFINE exec == proc[p].listed[a].exec
           new == registry[p][a] = None
           updates == Wraps(a, exec) /\ (new => Kind(a) # "generated")
<1>1. proc[p] \in Scan /\ proc[p].pc = "refresh"
  BY DEF Register, Once, Resting, Writing
<1>2. exec \in Bounded
  BY <1>1 DEF Scan
<1>3. updates => exec + 1 \in Bounded
  BY DEF Wraps, Bounded
<1>4. registry' \in [Process -> [App -> {None} \union Entry]]
  <2>1. Kind(a) \in {"native", "plugin", "generated"}
    BY DEF Kind
  <2>2. [exec |-> IF updates THEN exec + 1 ELSE exec, kind |-> Kind(a)] \in Entry
    BY <1>2, <1>3, <2>1 DEF Entry
  <2> QED BY <2>2 DEF Register, Once
<1>5. home' \in [App -> OnDisk]
  BY DEF Register, Once, OnDisk
<1>6. Source(p, a).whole \in BOOLEAN
  <2>1. home[a].whole \in BOOLEAN
    <3>1. home[a] \in OnDisk
      BY DEF Once
    <3>2. CASE home[a] = Absent
      BY <3>2 DEF Absent
    <3>3. CASE home[a] \in [exec : Bounded, whole : BOOLEAN]
      BY <3>3
    <3> QED BY <3>1, <3>2, <3>3 DEF OnDisk
  <2>2. proc[p].listed[a].home \in BOOLEAN
    BY <1>1 DEF Scan
  <2> QED BY <2>1, <2>2 DEF Source
<1>7. proc' \in [Process -> {Resting} \union Scan \union Writing]
  <2>1. CASE updates
    <3>1. [app |-> a, exec |-> exec + 1, whole |-> Source(p, a).whole, next |-> "refresh"] \in ToWrite
      BY <2>1, <1>3, <1>6 DEF ToWrite
    <3>2. proc' = [proc EXCEPT ![p] = [pc |-> "write", todo |-> proc[p].todo \ {a},
                     listed |-> proc[p].listed,
                     file |-> [app |-> a, exec |-> exec + 1, whole |-> Source(p, a).whole, next |-> "refresh"]]]
      BY <2>1, <1>1 DEF Register, Scan, Once
    <3>3. [pc |-> "write", todo |-> proc[p].todo \ {a}, listed |-> proc[p].listed,
           file |-> [app |-> a, exec |-> exec + 1, whole |-> Source(p, a).whole, next |-> "refresh"]] \in Writing
      BY <3>1, <1>1 DEF Scan, Writing
    <3> QED BY <3>2, <3>3 DEF Once
  <2>2. CASE ~updates
    <3>1. [proc[p] EXCEPT !.todo = @ \ {a}] \in Scan
      BY <1>1 DEF Scan
    <3>2. proc' = [proc EXCEPT ![p] = [proc[p] EXCEPT !.todo = @ \ {a}]]
      BY <2>2 DEF Register, Once
    <3> QED BY <3>1, <3>2 DEF Once
  <2> QED BY <2>1, <2>2
<1> QED BY <1>4, <1>5, <1>7 DEF Once, Register

LEMMA Write_Once ==
    ASSUME Once, NEW p \in Process, Write(p)
    PROVE  Once'
<1>1. proc[p] \in Writing
  BY DEF Write, Once, Resting, Scan
<1>2. proc[p].file \in ToWrite
  BY <1>1 DEF Writing
<1>3. home' \in [App -> OnDisk]
  BY <1>2 DEF Write, Once, OnDisk, ToWrite
<1>4. [proc[p] EXCEPT !.pc = proc[p].file.next, !.file = Absent] \in Scan
  <2> DEFINE next == proc[p].file.next
  <2>1. next \in {"refresh", "restore"}
    BY <1>2 DEF ToWrite
  <2> HIDE DEF next
  <2>2. [proc[p] EXCEPT !.pc = next, !.file = Absent] \in Scan
    BY <1>1, <2>1 DEF Writing, Scan
  <2> QED BY <2>2 DEF next
<1>5. proc' \in [Process -> {Resting} \union Scan \union Writing]
  BY <1>4 DEF Write, Once
<1> QED BY <1>3, <1>5 DEF Once, Write

LEMMA Restore_Once ==
    ASSUME Once, NEW p \in Process, NEW a \in App, Restore(p, a)
    PROVE  Once'
<1>1. proc[p] \in Scan /\ proc[p].pc = "restore"
  BY DEF Restore, Once, Resting, Writing
<1>2. home' \in [App -> OnDisk]
  BY DEF Restore, Once, OnDisk
<1>3. proc' \in [Process -> {Resting} \union Scan \union Writing]
  <2>1. CASE Restores(home[a])
    <3> DEFINE new == [app |-> a, exec |-> home[a].exec - 1, whole |-> home[a].whole, next |-> "restore"]
    <3>1. new \in ToWrite
      BY <2>1 DEF Restores, ToWrite, Once, OnDisk, Absent, Bounded
    <3>2. proc' = [proc EXCEPT ![p] = [pc |-> "write", todo |-> proc[p].todo \ {a},
                                       listed |-> proc[p].listed, file |-> new]]
      BY <2>1, <1>1 DEF Restore, Scan, Once
    <3>3. [pc |-> "write", todo |-> proc[p].todo \ {a}, listed |-> proc[p].listed, file |-> new] \in Writing
      BY <3>1, <1>1 DEF Scan, Writing
    <3> QED BY <3>2, <3>3 DEF Once
  <2>2. CASE ~Restores(home[a])
    <3>1. [proc[p] EXCEPT !.todo = @ \ {a}] \in Scan
      BY <1>1 DEF Scan
    <3>2. proc' = [proc EXCEPT ![p] = [proc[p] EXCEPT !.todo = @ \ {a}]]
      BY <2>2 DEF Restore, Once
    <3> QED BY <3>1, <3>2 DEF Once
  <2> QED BY <2>1, <2>2
<1> QED BY <1>2, <1>3 DEF Once, Restore

LEMMA Rest_Once ==
    ASSUME Once, NEW p \in Process, Done(p) \/ End(p)
    PROVE  Once'
<1>1. CASE Done(p) BY <1>1 DEF Done, Once
<1>2. CASE End(p)  BY <1>2 DEF End, Once
<1> QED BY <1>1, <1>2

LEMMA Next_Once == Once /\ [RegistryNext]_registryVars => Once'
<1> SUFFICES ASSUME Once, [RegistryNext]_registryVars PROVE Once'
  OBVIOUS
<1>1. CASE UNCHANGED registryVars
  BY <1>1 DEF registryVars, Once
<1>2. CASE RegistryNext
  <2>1. PICK p \in Process :
           \/ RefreshApps(p) \/ BeginRestore(p) \/ Write(p) \/ Done(p) \/ End(p)
           \/ \E a \in App : Register(p, a) \/ Restore(p, a)
    BY <1>2 DEF RegistryNext
  <2>2. CASE RefreshApps(p)  BY <2>2, Begins_Once DEF RefreshApps
  <2>3. CASE BeginRestore(p) BY <2>3, Begins_Once DEF BeginRestore
  <2>4. CASE Write(p)        BY <2>4, Write_Once
  <2>5. CASE Done(p) \/ End(p) BY <2>5, Rest_Once
  <2>6. CASE \E a \in App : Register(p, a) \/ Restore(p, a)
    BY <2>6, Register_Once, Restore_Once
  <2> QED BY <2>1, <2>2, <2>3, <2>4, <2>5, <2>6
<1> QED BY <1>1, <1>2

LEMMA Once_Implies == Once => RegistryTypeOK /\ NeverNested
<1> SUFFICES ASSUME Once PROVE RegistryTypeOK /\ NeverNested
  OBVIOUS
<1>1. OnDisk \subseteq File
  BY DEF OnDisk, File, Bounded
<1>2. Entry \subseteq [exec : Nat, kind : {"native", "plugin", "generated"}]
  BY DEF Entry, Bounded
<1>3. Scan \subseteq Busy
  BY DEF Scan, Busy, Bounded
<1>4. Writing \subseteq Busy
  BY DEF Writing, Busy, Bounded, ToWrite
<1>5. RegistryTypeOK
  BY <1>1, <1>2, <1>3, <1>4 DEF RegistryTypeOK, Once
<1>6. NeverNested
  BY DEF Once, NeverNested, OnDisk, Entry, Bounded, Absent
<1> QED BY <1>5, <1>6

(* The desktop files and registries have their types, and no command is    *)
(* wrapped twice, however many processes refresh, restore and end at once  *)
(* (refresh, restore_desktop_files, __update_desktop_file).                *)
THEOREM RegistrySafe == RegistrySpec => [](RegistryTypeOK /\ NeverNested)
<1>1. Once /\ [RegistryNext]_registryVars => Once'
  BY Next_Once
<1> QED BY Init_Once, <1>1, Once_Implies, PTL DEF RegistrySpec

------------------------------------------------------------------------------
(* Entries.  While no two processes have worked at once, a process that is *)
(* not at rest is alone, so what it listed from ~/.local/share is still    *)
(* there until it comes to it, and what it is about to write is whole.     *)

Alone == \A p, q \in Process : p = q \/ AtRest(p) \/ AtRest(q)
StillThere == \A p \in Process : ~AtRest(p) =>
                  \A a \in proc[p].todo : proc[p].listed[a].home => home[a].whole
WritesWhole == \A p \in Process : proc[p].pc = "write" => proc[p].file.whole
OnDiskWhole == \A a \in App : home[a] # Absent => home[a].whole
Whole == ~overlapped => Alone /\ StillThere /\ WritesWhole /\ OnDiskWhole

LEMMA Init_Whole == RegistryInit => Whole
  BY DEF RegistryInit, Whole, Alone, StillThere, WritesWhole, OnDiskWhole, AtRest, Resting

LEMMA Begins_Whole ==
    ASSUME Once, Whole, NEW p \in Process, NEW pc \in {"refresh", "restore"},
           NEW todo \in SUBSET App, Begins(p, pc, todo, Listed), UNCHANGED <<home, registry>>
    PROVE  Whole'
<1> SUFFICES ASSUME ~overlapped' PROVE (Alone /\ StillThere /\ WritesWhole /\ OnDiskWhole)'
  BY DEF Whole
<1>1. ~overlapped /\ \A q \in Process \ {p} : AtRest(q)
  BY DEF Begins
<1>2. proc'[p] = [pc |-> pc, todo |-> todo, listed |-> Listed, file |-> Absent]
  BY DEF Begins, Once
<1>3. \A q \in Process \ {p} : proc'[q] = proc[q]
  BY DEF Begins, Once
<1>4. Alone'
  BY <1>1, <1>3 DEF Alone, AtRest
<1>5. \A a \in App : Listed[a].home => home[a].whole
  BY DEF Listed, FromHome
<1>6. StillThere'
  BY <1>1, <1>2, <1>3, <1>5 DEF StillThere, AtRest
<1>7. WritesWhole'
  BY <1>1, <1>2, <1>3 DEF WritesWhole, AtRest
<1>8. OnDiskWhole'
  BY <1>1 DEF Whole, OnDiskWhole
<1> QED BY <1>4, <1>6, <1>7, <1>8

(* A step of a process that is not at rest, which changes one desktop file *)
(* at most: one that it has dealt with.                                    *)
LEMMA Step_Whole ==
    ASSUME Once, Whole, ~overlapped, NEW p \in Process, ~AtRest(p),
           NEW a \in App, \A b \in App \ {a} : home'[b] = home[b],
           home'[a] # Absent => home'[a].whole,
           \A q \in Process \ {p} : proc'[q] = proc[q],
           proc'[p].listed = proc[p].listed,
           proc'[p].todo \subseteq proc[p].todo \cap App,
           a \notin proc'[p].todo \/ home'[a] = home[a] \/ home'[a].whole,
           proc'[p].pc = "write" => proc'[p].file.whole
    PROVE  (Alone /\ StillThere /\ WritesWhole /\ OnDiskWhole)'
<1>1. \A q \in Process \ {p} : AtRest(q) /\ AtRest(q)'
  BY DEF Whole, Alone, AtRest
<1>2. Alone'
  BY <1>1 DEF Alone
<1>3. StillThere'
  <2> SUFFICES ASSUME NEW b \in proc'[p].todo, proc'[p].listed[b].home PROVE home'[b].whole
    BY <1>1 DEF StillThere
  <2>1. home[b].whole
    BY DEF Whole, StillThere
  <2> QED BY <2>1
<1>4. WritesWhole'
  BY <1>1 DEF WritesWhole, AtRest
<1>5. OnDiskWhole'
  BY DEF OnDiskWhole, Whole
<1> QED BY <1>2, <1>3, <1>4, <1>5

LEMMA Register_Whole ==
    ASSUME Once, Whole, NEW p \in Process, NEW a \in App, Register(p, a)
    PROVE  Whole'
<1> SUFFICES ASSUME ~overlapped PROVE (Alone /\ StillThere /\ WritesWhole /\ OnDiskWhole)'
  BY DEF Whole, Register
<1>1. proc[p] \in Scan /\ proc[p].pc = "refresh" /\ a \in proc[p].todo
  BY DEF Register, Once, Resting, Writing
<1>2. ~AtRest(p)
  BY <1>1 DEF AtRest
<1>3. \A b \in App \ {a} : home'[b] = home[b]
  BY DEF Register, Once
<1>4. home'[a] # Absent => home'[a].whole
  BY DEF Register, Once, Whole, OnDiskWhole
<1>5. \A q \in Process \ {p} : proc'[q] = proc[q]
  BY DEF Register, Once
<1>6. proc'[p].listed = proc[p].listed /\ proc'[p].todo = proc[p].todo \ {a}
  BY <1>1 DEF Register, Once, Scan
<1>7. Source(p, a).whole
  BY <1>1, <1>2 DEF Source, Whole, StillThere
<1>8. proc'[p].pc = "write" => proc'[p].file.whole
  BY <1>1, <1>7 DEF Register, Once, Scan
<1> QED BY <1>1, <1>2, <1>3, <1>4, <1>5, <1>6, <1>8, Step_Whole DEF Scan

LEMMA Restore_Whole ==
    ASSUME Once, Whole, NEW p \in Process, NEW a \in App, Restore(p, a)
    PROVE  Whole'
<1> SUFFICES ASSUME ~overlapped PROVE (Alone /\ StillThere /\ WritesWhole /\ OnDiskWhole)'
  BY DEF Whole, Restore
<1>1. proc[p] \in Scan /\ proc[p].pc = "restore" /\ a \in proc[p].todo
  BY DEF Restore, Once, Resting, Writing
<1>2. ~AtRest(p)
  BY <1>1 DEF AtRest
<1>3. \A b \in App \ {a} : home'[b] = home[b]
  BY DEF Restore, Once
<1>4. home'[a] # Absent => home'[a].whole
  BY DEF Restore, Once, Whole, OnDiskWhole
<1>5. \A q \in Process \ {p} : proc'[q] = proc[q]
  BY DEF Restore, Once
<1>6. proc'[p].listed = proc[p].listed /\ proc'[p].todo = proc[p].todo \ {a}
  BY <1>1 DEF Restore, Once, Scan
<1>7. Restores(home[a]) => home[a].whole
  BY DEF Restores, Whole, OnDiskWhole, Absent
<1>8. proc'[p].pc = "write" => proc'[p].file.whole
  BY <1>1, <1>7 DEF Restore, Once, Scan
<1> QED BY <1>1, <1>2, <1>3, <1>4, <1>5, <1>6, <1>8, Step_Whole DEF Scan

LEMMA Write_Whole ==
    ASSUME Once, Whole, NEW p \in Process, Write(p)
    PROVE  Whole'
<1> SUFFICES ASSUME ~overlapped PROVE (Alone /\ StillThere /\ WritesWhole /\ OnDiskWhole)'
  BY DEF Whole, Write
<1>1. proc[p] \in Writing /\ proc[p].file \in ToWrite
  BY DEF Write, Once, Resting, Scan, Writing
<1>2. ~AtRest(p) /\ proc[p].file.whole
  BY DEF Write, AtRest, Whole, WritesWhole
<1> DEFINE a == proc[p].file.app
           next == proc[p].file.next
<1>3. a \in App /\ next \in {"refresh", "restore"}
  BY <1>1 DEF ToWrite
<1>4. \A b \in App \ {a} : home'[b] = home[b]
  BY DEF Write, Once
<1>5. home'[a].whole
  BY <1>2, <1>3 DEF Write, Once
<1>6. proc'[p] = [proc[p] EXCEPT !.pc = next, !.file = Absent]
  BY DEF Write, Once
<1>7. \A q \in Process \ {p} : proc'[q] = proc[q]
  BY DEF Write, Once
<1> HIDE DEF a, next
<1>8. proc'[p].listed = proc[p].listed /\ proc'[p].todo = proc[p].todo /\ proc'[p].pc = next
  BY <1>1, <1>6 DEF Writing
<1>9. proc[p].todo \subseteq App
  BY <1>1 DEF Writing
<1> QED BY <1>2, <1>3, <1>4, <1>5, <1>7, <1>8, <1>9, Step_Whole

LEMMA Rest_Whole ==
    ASSUME Once, Whole, NEW p \in Process, Done(p) \/ End(p)
    PROVE  Whole'
<1>1. proc' = [proc EXCEPT ![p] = Resting] /\ UNCHANGED <<home, overlapped>>
  BY DEF Done, End
<1>2. \A q \in Process : proc'[q] = proc[q] \/ proc'[q] = Resting
  BY <1>1 DEF Once
<1>3. \A q \in Process : ~AtRest(q)' => proc'[q] = proc[q]
  BY <1>2 DEF AtRest, Resting
<1>4. \A q \in Process : proc'[q].pc = "write" => proc'[q] = proc[q]
  BY <1>2 DEF Resting
<1>5. Alone => Alone'
  BY <1>3 DEF Alone, AtRest
<1>6. StillThere => StillThere'
  BY <1>1, <1>3 DEF StillThere, AtRest
<1>7. WritesWhole => WritesWhole'
  BY <1>4 DEF WritesWhole
<1>8. OnDiskWhole => OnDiskWhole'
  BY <1>1 DEF OnDiskWhole
<1> QED BY <1>1, <1>5, <1>6, <1>7, <1>8 DEF Whole

LEMMA Next_Whole == Once /\ Whole /\ [RegistryNext]_registryVars => Whole'
<1> SUFFICES ASSUME Once, Whole, [RegistryNext]_registryVars PROVE Whole'
  OBVIOUS
<1>1. CASE UNCHANGED registryVars
  BY <1>1 DEF registryVars, Whole, Alone, StillThere, WritesWhole, OnDiskWhole, AtRest
<1>2. CASE RegistryNext
  <2>1. PICK p \in Process :
           \/ RefreshApps(p) \/ BeginRestore(p) \/ Write(p) \/ Done(p) \/ End(p)
           \/ \E a \in App : Register(p, a) \/ Restore(p, a)
    BY <1>2 DEF RegistryNext
  <2>2. CASE RefreshApps(p)  BY <2>2, Begins_Whole DEF RefreshApps
  <2>3. CASE BeginRestore(p) BY <2>3, Begins_Whole DEF BeginRestore
  <2>4. CASE Write(p)        BY <2>4, Write_Whole
  <2>5. CASE Done(p) \/ End(p) BY <2>5, Rest_Whole
  <2>6. CASE \E a \in App : Register(p, a) \/ Restore(p, a)
    BY <2>6, Register_Whole, Restore_Whole
  <2> QED BY <2>1, <2>2, <2>3, <2>4, <2>5, <2>6
<1> QED BY <1>1, <1>2

(* A desktop file is rewritten with all its entries, unless two processes  *)
(* work at once: also when one ends between emptying a file and writing it *)
(* (__update_desktop_file).                                                *)
THEOREM RegistryKeepsEntries == RegistrySpec => []EntriesKept
<1>1. Once /\ [RegistryNext]_registryVars => Once'
  BY Next_Once
<1>2. Once /\ Whole /\ [RegistryNext]_registryVars => Whole'
  BY Next_Whole
<1>3. Whole => EntriesKept
  BY DEF Whole, OnDiskWhole, EntriesKept
<1> QED BY Init_Once, Init_Whole, <1>1, <1>2, <1>3, PTL DEF RegistrySpec

------------------------------------------------------------------------------
(* Restoring.  While no two processes have worked at once, a process that  *)
(* restores has undone the change of every file it has dealt with, counting *)
(* the one it has just emptied and is about to write.                      *)

Restoring(p) == proc[p].pc = "restore" \/ (proc[p].pc = "write" /\ proc[p].file.next = "restore")
Undone(p) == /\ \A a \in App \ proc[p].todo : home[a].exec <= 0
             /\ proc[p].pc = "write" => proc[p].file.exec <= 0
Undoes == ~overlapped /\ ReadsHome => \A p \in Process : Restoring(p) => Undone(p)

LEMMA Begins_Undoes ==
    ASSUME Once, Whole, Undoes, NEW p \in Process, RefreshApps(p) \/ BeginRestore(p)
    PROVE  Undoes'
<1> SUFFICES ASSUME ~overlapped', ReadsHome, NEW q \in Process, Restoring(q)'
             PROVE  Undone(q)'
  BY DEF Undoes
<1>1. ~overlapped /\ \A r \in Process \ {p} : AtRest(r) /\ proc'[r] = proc[r]
  BY DEF RefreshApps, BeginRestore, Begins, Once
<1>2. q = p
  BY <1>1 DEF Restoring, AtRest
<1>3. CASE BeginRestore(p)
  BY <1>2, <1>3 DEF BeginRestore, Begins, Undone, Once
<1>4. CASE RefreshApps(p)
  BY <1>2, <1>4 DEF RefreshApps, Begins, Restoring, Once
<1> QED BY <1>3, <1>4

(* A process that takes a step is alone; the others restore nothing.       *)
LEMMA Others_Rest ==
    ASSUME Whole, ~overlapped, NEW p \in Process, ~AtRest(p),
           NEW q \in Process \ {p}, proc'[q] = proc[q]
    PROVE  ~Restoring(q)'
BY DEF Whole, Alone, AtRest, Restoring

LEMMA Register_Undoes ==
    ASSUME Once, Whole, Undoes, NEW p \in Process, NEW a \in App, Register(p, a)
    PROVE  Undoes'
<1> SUFFICES ASSUME ~overlapped, NEW q \in Process
             PROVE  ~Restoring(q)'
  BY DEF Undoes, Register
<1>1. proc[p] \in Scan /\ proc[p].pc = "refresh"
  BY DEF Register, Once, Resting, Writing
<1>2. ~AtRest(p) /\ \A r \in Process \ {p} : proc'[r] = proc[r]
  BY <1>1 DEF AtRest, Register, Once
<1>3. ~Restoring(p)'
  BY <1>1 DEF Register, Once, Scan, Restoring
<1> QED BY <1>2, <1>3, Others_Rest

LEMMA Write_Undoes ==
    ASSUME Once, Whole, Undoes, NEW p \in Process, Write(p)
    PROVE  Undoes'
<1> SUFFICES ASSUME ~overlapped, ReadsHome, NEW q \in Process, Restoring(q)'
             PROVE  Undone(q)'
  BY DEF Undoes, Write
<1> DEFINE a == proc[p].file.app
           next == proc[p].file.next
           exec == proc[p].file.exec
<1>1. proc[p] \in Writing /\ proc[p].file \in ToWrite /\ proc[p].pc = "write"
  BY DEF Write, Once, Resting, Scan, Writing
<1>2. ~AtRest(p) /\ \A r \in Process \ {p} : proc'[r] = proc[r]
  BY <1>1 DEF AtRest, Write, Once
<1>3. q = p
  BY <1>2, Others_Rest
<1>4. a \in App /\ next \in {"refresh", "restore"} /\ exec \in Bounded
  BY <1>1 DEF ToWrite
<1>5. proc'[p] = [proc[p] EXCEPT !.pc = next, !.file = Absent]
  BY DEF Write, Once
<1>6. home'[a].exec = exec /\ \A b \in App \ {a} : home'[b] = home[b]
  BY <1>4 DEF Write, Once
<1>7. next = "restore" => Restoring(p)
  BY <1>1 DEF Restoring
<1> HIDE DEF a, next, exec
<1>8. proc'[p].todo = proc[p].todo /\ proc'[p].pc = next
  BY <1>1, <1>5 DEF Writing
<1>9. next = "restore"
  BY <1>3, <1>4, <1>8 DEF Restoring
<1>10. Undone(p)
  BY <1>7, <1>9 DEF Undoes
<1>11. exec <= 0 /\ \A b \in App \ proc[p].todo : home[b].exec <= 0
  BY <1>1, <1>10 DEF Undone, exec
<1> QED BY <1>3, <1>6, <1>8, <1>9, <1>11 DEF Undone

LEMMA Restore_Undoes ==
    ASSUME Once, Whole, Undoes, NEW p \in Process, NEW a \in App, Restore(p, a)
    PROVE  Undoes'
<1> SUFFICES ASSUME ~overlapped, ReadsHome, NEW q \in Process, Restoring(q)'
             PROVE  Undone(q)'
  BY DEF Undoes, Restore
<1>1. proc[p] \in Scan /\ proc[p].pc = "restore"
  BY DEF Restore, Once, Resting, Writing
<1>2. ~AtRest(p) /\ \A r \in Process \ {p} : proc'[r] = proc[r]
  BY <1>1 DEF AtRest, Restore, Once
<1>3. q = p
  BY <1>2, Others_Rest
<1>4. \A b \in App \ proc[p].todo : home[b].exec <= 0
  BY <1>1 DEF Undoes, Undone, Restoring
<1>5. proc'[p].todo = proc[p].todo \ {a}
  BY <1>1 DEF Restore, Once, Scan
<1>6. \A b \in App \ {a} : home'[b] = home[b]
  BY DEF Restore, Once
<1>7. home[a] \in OnDisk /\ home[a].exec \in -1..1
  BY DEF Once, OnDisk, Bounded, Absent
<1>8. CASE Restores(home[a])
  <2>1. home[a].exec = 1
    BY <1>7, <1>8 DEF Restores
  <2>2. home'[a].exec = -1
    BY <1>8 DEF Restore, Once, Absent
  <2>3. proc'[p].file.exec = home[a].exec - 1
    BY <1>1, <1>8 DEF Restore, Once, Scan
  <2> QED BY <1>3, <1>4, <1>5, <1>6, <2>1, <2>2, <2>3 DEF Undone
<1>9. CASE ~Restores(home[a])
  <2>1. home' = home /\ home[a].exec <= 0
    BY <1>7, <1>9 DEF Restore, Restores
  <2>2. proc'[p].pc = "restore"
    BY <1>1, <1>9 DEF Restore, Once, Scan
  <2> QED BY <1>3, <1>4, <1>5, <2>1, <2>2 DEF Undone
<1> QED BY <1>8, <1>9

LEMMA Next_Undoes == Once /\ Whole /\ Undoes /\ [RegistryNext]_registryVars => Undoes'
<1> SUFFICES ASSUME Once, Whole, Undoes, [RegistryNext]_registryVars PROVE Undoes'
  OBVIOUS
<1>1. CASE UNCHANGED registryVars
  BY <1>1 DEF registryVars, Undoes, Restoring, Undone
<1>2. ASSUME NEW p \in Process, Done(p) \/ End(p) PROVE Undoes'
  <2>1. \A q \in Process : proc'[q] = proc[q] \/ proc'[q] = Resting
    BY <1>2 DEF Done, End, Once
  <2>2. \A q \in Process : Restoring(q)' => proc'[q] = proc[q] /\ Restoring(q)
    BY <2>1 DEF Restoring, Resting
  <2>3. UNCHANGED <<home, overlapped>>
    BY <1>2 DEF Done, End
  <2> QED BY <2>2, <2>3 DEF Undoes, Undone
<1>3. CASE RegistryNext
  BY <1>2, <1>3, Begins_Undoes, Write_Undoes, Register_Undoes, Restore_Undoes DEF RegistryNext
<1> QED BY <1>1, <1>3

LEMMA Registry_Invariants == RegistrySpec => [](Once /\ Whole /\ Undoes)
<1>1. RegistryInit => Undoes
  BY DEF RegistryInit, Undoes, Restoring, Resting
<1>2. Once /\ Whole /\ Undoes /\ [RegistryNext]_registryVars => (Once /\ Whole /\ Undoes)'
  BY Next_Once, Next_Whole, Next_Undoes
<1> QED BY Init_Once, Init_Whole, <1>1, <1>2, PTL DEF RegistrySpec

(* A restoration that no other process interfered with leaves no command   *)
(* wrapped, whichever files it found, lacked or found half written         *)
(* (restore_desktop_files).                                                *)
THEOREM RegistryRestores == RegistrySpec => RestoreUndoes
<1> DEFINE Ends == \A p \in Process :
              proc[p].pc = "restore" /\ AtRest(p)' /\ proc[p].todo = {} /\ ReadsHome /\ ~overlapped =>
                  \A a \in App : home[a].exec <= 0
<1>1. Once /\ Whole /\ Undoes /\ [RegistryNext]_registryVars => [Ends]_registryVars
  BY DEF Undoes, Restoring, Undone
<1> QED BY <1>1, Registry_Invariants, PTL DEF RegistrySpec, RestoreUndoes

------------------------------------------------------------------------------
(* Sessions only read the registry: what holds of it holds beside them.    *)

LEMMA Session_Steps == [Next]_vars => [RegistryNext]_registryVars
  BY DEF Next, vars, registryVars

(* However the windows of an application are saved, resumed and closed     *)
(* besides, no command is wrapped twice and no entry is lost to a process  *)
(* that works alone.                                                       *)
THEOREM SessionsKeepRegistry == Spec => [](NeverNested /\ EntriesKept)
<1>1. Spec => RegistrySpec
  BY Session_Steps, PTL DEF Spec, SessionInit, RegistrySpec
<1> QED BY <1>1, RegistrySafe, RegistryKeepsEntries, PTL
------------------------------------------------------------------------------
(* A session keeps its types: what is on record is finite, since it was    *)
(* read from the windows, and what is resumed is on record.                *)

PairsOK == \A n \in DOMAIN pairs : n \in Name /\ pairs[n] \in remaining
SessionInv ==
    /\ SessionTypeOK /\ PairsOK
    /\ IsFiniteSet(file) /\ IsFiniteSet(DOMAIN record)
    /\ op \in {"none", "match"} => remaining = {} /\ old = {} /\ kept = {} /\ pairs = NoPlaces

(* A set that a finite one covers is finite, and no larger. *)
LEMMA Covered ==
    ASSUME NEW S, NEW T, NEW f, IsFiniteSet(S),
           \A x \in S : f[x] \in T, \A y \in T : \E x \in S : y = f[x]
    PROVE  /\ IsFiniteSet(T) /\ Cardinality(T) <= Cardinality(S)
           /\ Cardinality(T) = Cardinality(S) => \A x, y \in S : f[x] = f[y] => x = y
<1> DEFINE g == [x \in S |-> f[x]]
<1>1. g \in Surjection(S, T)
  BY DEF Surjection
<1>2. /\ IsFiniteSet(T) /\ Cardinality(T) <= Cardinality(S)
      /\ Cardinality(T) = Cardinality(S) => g \in Injection(S, T)
  BY <1>1, FS_Surjection
<1> QED BY <1>2 DEF Injection, IsInjective

LEMMA NoPlacesType ==
    /\ NoPlaces \in UNION {[S -> Place] : S \in SUBSET State}
    /\ DOMAIN NoPlaces = {} /\ IsFiniteSet(DOMAIN NoPlaces)
<1>1. DOMAIN NoPlaces = {} /\ {} \in SUBSET State
  BY DEF NoPlaces
<1>2. NoPlaces \in [{} -> Place]
  BY DEF NoPlaces
<1> QED BY <1>1, <1>2, FS_EmptySet

LEMMA Init_Session == SessionInit => SessionInv
<1> SUFFICES ASSUME SessionInit PROVE SessionInv
  OBVIOUS
<1>1. IsFiniteSet(file)
  <2>1. IsFiniteSet({}) /\ IsFiniteSet({None})
    BY FS_EmptySet, FS_Singleton
  <2> QED BY <2>1 DEF SessionInit, Torn
<1> QED BY <1>1, NoPlacesType, SessionAssumption
        DEF SessionInit, SessionInv, SessionTypeOK, PairsOK, Torn

(* An operation that returns drops what it worked with. *)
LEMMA Return_Session ==
    ASSUME SessionInv, NEW code \in {"clean", "raised"}, Return(code), UNCHANGED <<coming, file>>,
           windows' \in [Name -> {None} \union Record]
    PROVE  SessionInv'
<1>1. record' = NoPlaces /\ remaining' = {} /\ old' = {} /\ kept' = {} /\ pairs' = NoPlaces
  BY DEF Return
<1>2. record' \in UNION {[S -> Place] : S \in SUBSET State} /\ IsFiniteSet(DOMAIN record')
  BY <1>1, NoPlacesType
<1>3. SessionTypeOK'
  BY <1>1, <1>2 DEF Return, SessionInv, SessionTypeOK
<1>4. PairsOK'
  BY <1>1, NoPlacesType DEF PairsOK
<1> QED BY <1>2, <1>3, <1>4 DEF SessionInv, Return

LEMMA Shown_Finite ==
    ASSUME SessionInv
    PROVE  Shown \subseteq Name /\ IsFiniteSet(Shown) /\ \A n \in Shown : windows[n] \in Record
<1>1. Shown \in SUBSET Name
  BY DEF Shown
<1>2. IsFiniteSet(Shown)
  BY <1>1, FS_Subset, SessionAssumption
<1> QED BY <1>1, <1>2 DEF Shown, SessionInv, SessionTypeOK

LEMMA Save_Session == ASSUME SessionInv, OnSave PROVE SessionInv'
<1>1. Records(windows) = {windows[n] : n \in Shown}
  BY DEF Records, Shown
<1>2. IsFiniteSet(Records(windows)) /\ Records(windows) \in SUBSET Record
  <2>1. Records(windows) \in SUBSET Record
    BY <1>1, Shown_Finite
  <2>2. IsFiniteSet(Records(windows))
    <3>1. PICK f : f = [n \in Shown |-> windows[n]]
      OBVIOUS
    <3>2. (\A n \in Shown : f[n] \in Records(windows)) /\ \A r \in Records(windows) : \E n \in Shown : r = f[n]
      BY <1>1, <3>1
    <3>3. IsFiniteSet(Shown)
      BY Shown_Finite
    <3> QED BY <3>2, <3>3, Covered
  <2> QED BY <2>1, <2>2
<1>3. file' = Records(windows) /\ UNCHANGED <<windows, coming, op, local, object>>
      /\ turns' = turns + 1 /\ turns < MaxTurns /\ result' = "saved"
  BY DEF OnSave, Called
<1>4. SessionTypeOK'
  BY <1>2, <1>3, SessionAssumption DEF local, SessionInv, SessionTypeOK
<1> QED BY <1>2, <1>3, <1>4 DEF local, SessionInv, PairsOK

LEMMA Resume_Session == ASSUME SessionInv, OnResume PROVE SessionInv'
<1>1. /\ UNCHANGED <<windows, coming, file, object, remaining, old, kept, pairs>>
      /\ turns' = turns + 1 /\ turns < MaxTurns
  BY DEF OnResume, Called, local
<1>2. turns' \in 0..MaxTurns
  BY <1>1, SessionAssumption DEF SessionInv, SessionTypeOK
<1>3. CASE UNCHANGED <<op, local>> /\ result' \in {"clean", "error"}
  BY <1>1, <1>2, <1>3 DEF local, SessionInv, SessionTypeOK, PairsOK
<1>4. ASSUME file \notin {{}, Torn}, op = "none",
             record' \in [{r.state : r \in file} -> Place], op' = "match", result' = "none"
      PROVE  SessionInv'
  <2> DEFINE S == {r.state : r \in file}
  <2>1. file \in SUBSET Record
    BY <1>4 DEF SessionInv, SessionTypeOK
  <2>2. S \in SUBSET State
    BY <2>1 DEF Record
  <2>3. IsFiniteSet(S)
    <3>1. PICK f : f = [r \in file |-> r.state]
      OBVIOUS
    <3>2. /\ IsFiniteSet(file) /\ \A r \in file : f[r] \in S
          /\ \A t \in S : \E r \in file : t = f[r]
      BY <3>1 DEF SessionInv
    <3> HIDE DEF S
    <3> QED BY <3>2, Covered
  <2>4. DOMAIN record' = S /\ record' \in UNION {[T -> Place] : T \in SUBSET State}
    BY <1>4, <2>2
  <2> HIDE DEF S
  <2> QED BY <1>1, <1>2, <1>4, <2>3, <2>4 DEF SessionInv, SessionTypeOK, PairsOK
<1> QED BY <1>3, <1>4 DEF OnResume, Called
LEMMA Match_Session == ASSUME SessionInv, Match PROVE SessionInv'
<1>1. /\ UNCHANGED <<coming, file, record, pairs, object, turns, result>> /\ op' = "create"
      /\ kept' \subseteq Shown /\ old' \subseteq Shown /\ remaining' \subseteq DOMAIN record
  BY DEF Match, Goto, Last
<1>2. \A n \in kept' : windows[n].state \in DOMAIN record
  BY DEF Match
<1>3. ASSUME NEW n \in kept' PROVE AsRecorded(windows[n].state) \in Record
  BY <1>1, <1>2, Shown_Finite DEF AsRecorded, Record, SessionInv, SessionTypeOK
<1>4. windows' \in [Name -> {None} \union Record]
  BY <1>3 DEF Match, SessionInv, SessionTypeOK
<1>5. PairsOK'
  BY <1>1, NoPlacesType DEF PairsOK, SessionInv, Match
<1> QED BY <1>1, <1>4, <1>5, Shown_Finite DEF SessionInv, SessionTypeOK

(* What is remaining and what is old can be counted. *)
LEMMA Counts ==
    ASSUME SessionInv
    PROVE  /\ IsFiniteSet(remaining) /\ IsFiniteSet(old)
           /\ Cardinality(remaining) \in Nat /\ Cardinality(old) \in Nat
<1>1. IsFiniteSet(remaining) /\ IsFiniteSet(old)
  <2>1. remaining \in SUBSET (DOMAIN record) /\ old \in SUBSET Name
    BY DEF SessionInv, SessionTypeOK
  <2> QED BY <2>1, FS_Subset, SessionAssumption DEF SessionInv
<1> QED BY <1>1, FS_CardinalityType

LEMMA Create_Session == ASSUME SessionInv, Create PROVE SessionInv'
<1>1. coming' \in Nat
  BY Counts DEF Create, Missing, SessionInv, SessionTypeOK
<1>2. UNCHANGED <<windows, file, local, object, turns, result>> /\ op' = "wait"
  BY DEF Create, Goto
<1> QED BY <1>1, <1>2 DEF local, SessionInv, SessionTypeOK, PairsOK

LEMMA CloseOld_Session == ASSUME SessionInv, CloseOld PROVE SessionInv'
<1>1. windows' \in [Name -> {None} \union Record]
  BY DEF CloseOld, SessionInv, SessionTypeOK
<1> QED BY <1>1, Return_Session DEF CloseOld

LEMMA Wait_Session == ASSUME SessionInv, Wait PROVE SessionInv'
BY DEF Wait, Goto, SessionInv, SessionTypeOK, PairsOK

(* The states resumed are those that remain. *)
LEMMA ZipsType ==
    ASSUME SessionInv, NEW f \in Zips
    PROVE  DOMAIN f \subseteq Shown /\ \A n \in DOMAIN f : f[n] \in remaining
BY DEF Zips, FirstOf

LEMMA ResumeStats_Session == ASSUME SessionInv, NEW f, ResumeStats(f) PROVE SessionInv'
<1>1. DOMAIN f \subseteq Shown /\ \A n \in DOMAIN f : f[n] \in remaining
  BY ZipsType DEF ResumeStats
<1>2. remaining \subseteq State
  BY DEF SessionInv, SessionTypeOK
<1>3. ASSUME NEW n \in DOMAIN f PROVE [windows[n] EXCEPT !.state = f[n]] \in Record
  BY <1>1, <1>2, Shown_Finite DEF Record
<1>4. windows' \in [Name -> {None} \union Record]
  BY <1>3 DEF ResumeStats, SessionInv, SessionTypeOK
<1>5. /\ UNCHANGED <<coming, file, record, remaining, old, kept, disturbed, object, turns, result>>
      /\ op' = "place" /\ pairs' = f
  BY DEF ResumeStats, Goto
<1>6. PairsOK'
  BY <1>1, <1>5, Shown_Finite DEF PairsOK
<1> QED BY <1>4, <1>5, <1>6 DEF SessionInv, SessionTypeOK

LEMMA PlaceWindows_Session == ASSUME SessionInv, NEW f, PlaceWindows(f) PROVE SessionInv'
<1>1. \A n \in DOMAIN f : f[n] \in remaining
  BY ZipsType DEF PlaceWindows, SessionInv, PairsOK
<1>2. \A s \in remaining : record[s] \in Place
  BY DEF SessionInv, SessionTypeOK
<1>3. CASE DOMAIN f \subseteq Shown /\ Return("clean") /\
           windows' = [n \in Name |-> IF n \in DOMAIN f THEN [windows[n] EXCEPT !.place = record[f[n]]]
                                                   ELSE windows[n]]
  <2>1. ASSUME NEW n \in DOMAIN f PROVE [windows[n] EXCEPT !.place = record[f[n]]] \in Record
    BY <1>1, <1>2, <1>3, Shown_Finite DEF Record
  <2>2. windows' \in [Name -> {None} \union Record]
    BY <1>3, <2>1 DEF SessionInv, SessionTypeOK
  <2> QED BY <1>3, <2>2, Return_Session DEF PlaceWindows
<1>4. CASE UNCHANGED windows /\ Return("raised")
  <2>1. windows' \in [Name -> {None} \union Record]
    BY <1>4 DEF SessionInv, SessionTypeOK
  <2> QED BY <1>4, <2>1, Return_Session DEF PlaceWindows
<1> QED BY <1>3, <1>4 DEF PlaceWindows

LEMMA Close_Session ==
    ASSUME SessionInv, OnClose \/ DefaultSave \/ DefaultResume \/ DefaultClose
    PROVE  SessionInv'
<1>1. /\ UNCHANGED <<coming, file, op, local, object>>
      /\ turns' = turns + 1 /\ turns < MaxTurns /\ result' \in {"closed", "clean", "error", "raised"}
  BY DEF OnClose, DefaultSave, DefaultResume, DefaultClose, Called
<1>2. turns' \in 0..MaxTurns
  BY <1>1, SessionAssumption DEF SessionInv, SessionTypeOK
<1>3. windows' \in [Name -> {None} \union Record]
  BY DEF OnClose, DefaultSave, DefaultResume, DefaultClose, SessionInv, SessionTypeOK
<1> QED BY <1>1, <1>2, <1>3 DEF local, SessionInv, SessionTypeOK, PairsOK

LEMMA User_Session ==
    ASSUME SessionInv, NEW n \in Name, Appear(n) \/ User(n)
    PROVE  SessionInv'
<1>1. windows' \in [Name -> {None} \union Record]
  BY SessionAssumption DEF Appear, User, Record, SessionInv, SessionTypeOK
<1>2. coming' \in Nat
  BY DEF Appear, User, SessionInv, SessionTypeOK
<1>3. UNCHANGED <<object, file, op, record, remaining, old, kept, pairs, turns, result>>
  BY DEF Appear, User
<1> QED BY <1>1, <1>2, <1>3 DEF SessionInv, SessionTypeOK, PairsOK

LEMMA Instantiate_Session ==
    ASSUME Once, SessionInv, NEW a \in App, Instantiate(a)
    PROVE  SessionInv'
<1>1. registry[Tray][a] \in Entry /\ registry[Tray][a].kind # "plugin"
  BY SessionAssumption DEF Once, Instantiate
<1>2. object' \in [exec : 0..1, kind : {"native", "generated"}]
  BY <1>1 DEF Instantiate, Entry, Bounded
<1> QED BY <1>2 DEF Instantiate, local, SessionInv, SessionTypeOK, PairsOK

LEMMA Next_Session == Once /\ SessionInv /\ [Next]_vars => SessionInv'
<1> SUFFICES ASSUME Once, SessionInv, [Next]_vars PROVE SessionInv'
  OBVIOUS
<1>1. CASE UNCHANGED sessionVars
  BY <1>1 DEF sessionVars, local, SessionInv, SessionTypeOK, PairsOK
<1> QED BY <1>1, Instantiate_Session, Save_Session, Resume_Session, Match_Session, Create_Session,
           CloseOld_Session, Wait_Session, ResumeStats_Session, PlaceWindows_Session,
           Close_Session, User_Session DEF Next, vars

LEMMA Spec_Registry == Spec => RegistrySpec
BY Session_Steps, PTL DEF Spec, SessionInit, RegistrySpec

LEMMA Session_Invariant == Spec => [](Once /\ SessionInv)
<1>1. SessionInit => Once /\ SessionInv
  BY Init_Once, Init_Session DEF SessionInit
<1>2. Once /\ SessionInv /\ [Next]_vars => (Once /\ SessionInv)'
  BY Next_Once, Next_Session, Session_Steps
<1> QED BY <1>1, <1>2, PTL DEF Spec

(* A session keeps its types through every interleaving of an operation    *)
(* with the user and the windows that come late (onSave, onResume).        *)
THEOREM SessionTypeCorrect == Spec => []SessionTypeOK
<1>1. SessionInv => SessionTypeOK
  BY DEF SessionInv
<1> QED BY <1>1, Session_Invariant, PTL
------------------------------------------------------------------------------
(* Resuming.  While nobody comes in between, the windows are those that    *)
(* are kept and those that are not needed; and when none is kept and there *)
(* are not too many of them, they become as many as states remain, and the *)
(* pairing gives each remaining state one window.                          *)

Partition ==
    /\ Shown = kept \union old /\ kept \intersect old = {}
    /\ \A n \in kept : /\ windows[n].state \in DOMAIN record \ remaining
                       /\ windows[n] = AsRecorded(windows[n].state)
    /\ \A s \in DOMAIN record \ remaining : \E n \in kept : windows[n].state = s
Replaces == StartsMissing /\ kept = {} /\ Missing >= 0
Zipped ==
    /\ DOMAIN pairs = Shown
    /\ \A s \in remaining : \E n \in Shown : pairs[n] = s
    /\ \A n \in Shown : windows[n].state = pairs[n]
AsMany == Cardinality(Shown) = Cardinality(remaining)
Undisturbed ==
    /\ op = "match" => coming = 0
    /\ op = "create" => coming = 0 /\ Partition
    /\ op \in {"wait", "resume", "place"} /\ Replaces =>
        /\ remaining = DOMAIN record
        /\ op = "wait" => coming + Cardinality(Shown) = Cardinality(remaining)
        /\ op = "resume" => AsMany
        /\ op = "place" => Zipped
ResumeInv ==
    /\ object = None => op = "none"
    /\ op \in {"wait", "resume", "place"} => remaining # {}
    /\ ~disturbed => Undisturbed

(* When windows are missing that the command does not start, none comes,   *)
(* and there stay fewer than are on record.                                *)
Lacks == ~Program(object.exec) /\ kept = {} /\ Missing > 0
TooFew == /\ coming = 0 /\ remaining = DOMAIN record
          /\ Cardinality(Shown) < Cardinality(remaining)
LackInv == ~disturbed /\ op \in {"wait", "resume", "place"} /\ Lacks => TooFew

(* An undisturbed match finds no two windows with one state: each window   *)
(* is the last with its state.                                             *)
LEMMA AllLast ==
    ASSUME SessionInv, Cardinality(Stats) >= Cardinality(Shown)
    PROVE  Last = Shown
<1>1. PICK f : f = [n \in Shown |-> windows[n].state]
  OBVIOUS
<1>2. /\ IsFiniteSet(Shown) /\ Shown \subseteq Name
      /\ \A n \in Shown : f[n] \in Stats
      /\ \A s \in Stats : \E n \in Shown : s = f[n]
  BY <1>1, Shown_Finite DEF Stats
<1>3. /\ Cardinality(Stats) <= Cardinality(Shown) /\ IsFiniteSet(Stats)
      /\ Cardinality(Stats) = Cardinality(Shown) => \A m, n \in Shown : f[m] = f[n] => m = n
  BY <1>2, Covered
<1>4. Cardinality(Stats) \in Nat /\ Cardinality(Shown) \in Nat
  BY <1>2, <1>3, FS_CardinalityType
<1>5. \A m, n \in Shown : windows[m].state = windows[n].state => m = n
  BY <1>1, <1>3, <1>4
<1>6. \A n \in Shown : n \in Nat
  BY <1>2, SessionAssumption
<1> QED BY <1>5, <1>6 DEF Last

(* The same windows are shown after windows have been changed in place.    *)
LEMMA SameShown ==
    ASSUME \A n \in Name : windows[n] # None <=> windows'[n] # None
    PROVE  Shown' = Shown
BY DEF Shown

LEMMA Match_Resumes == ASSUME SessionInv, ResumeInv, Match PROVE ResumeInv'
<1>1. /\ UNCHANGED <<coming, record, object>> /\ op' = "create" /\ op = "match"
      /\ kept' = {n \in Last : windows[n].state \in DOMAIN record} /\ old' = Last \ kept'
      /\ remaining' = DOMAIN record \ Stats
      /\ windows' = [n \in Name |-> IF n \in kept' THEN AsRecorded(windows[n].state) ELSE windows[n]]
  BY DEF Match, Goto
<1> SUFFICES ASSUME ~disturbed' PROVE coming' = 0 /\ Partition'
  BY <1>1 DEF ResumeInv, Undisturbed
<1>2. ~disturbed /\ ~(Cardinality(Stats) < Cardinality(Shown))
  BY DEF Match
<1>3. Cardinality(Stats) >= Cardinality(Shown)
  <2>1. PICK f : f = [n \in Shown |-> windows[n].state]
    OBVIOUS
  <2>2. IsFiniteSet(Shown) /\ (\A n \in Shown : f[n] \in Stats) /\ \A s \in Stats : \E n \in Shown : s = f[n]
    BY <2>1, Shown_Finite DEF Stats
  <2>3. IsFiniteSet(Stats)
    BY <2>2, Covered
  <2> QED BY <1>2, <2>2, <2>3, FS_CardinalityType
<1>4. Last = Shown
  BY <1>3, AllLast
<1>5. ASSUME NEW n \in kept'
      PROVE  /\ n \in Name /\ windows[n].state \in DOMAIN record /\ n \in Shown
             /\ windows'[n] = AsRecorded(windows[n].state)
             /\ AsRecorded(windows[n].state) \in Record
  <2>1. n \in Name /\ windows[n].state \in DOMAIN record /\ n \in Shown
    BY <1>1, <1>4, Shown_Finite
  <2> QED BY <1>1, <2>1 DEF AsRecorded, Record, SessionInv, SessionTypeOK
<1>6. Shown' = Shown
  <2>1. \A n \in Name : windows[n] # None <=> windows'[n] # None
    BY <1>1, <1>5, SessionAssumption DEF Record, Shown
  <2> QED BY <2>1, SameShown
<1>7. \A n \in kept' : windows'[n].state = windows[n].state /\ (windows[n] = AsRecorded(windows[n].state))'
  BY <1>1, <1>5 DEF AsRecorded
<1>8. \A n \in kept' : windows'[n].state \in DOMAIN record' \ remaining'
  BY <1>1, <1>5, <1>7 DEF Stats
<1>9. ASSUME NEW s \in DOMAIN record' \ remaining' PROVE \E n \in kept' : windows'[n].state = s
  <2>1. PICK n \in Shown : windows[n].state = s
    BY <1>1, <1>9 DEF Stats
  <2> QED BY <1>1, <1>4, <1>7, <1>9, <2>1
<1>10. Shown' = kept' \union old' /\ kept' \intersect old' = {}
  BY <1>1, <1>4, <1>6
<1>11. Partition'
  BY <1>7, <1>8, <1>9, <1>10 DEF Partition
<1> QED BY <1>1, <1>2, <1>11 DEF ResumeInv, Undisturbed

(* When no window is kept, every state on record remains, and as many      *)
(* programs are started as windows are missing.                            *)
LEMMA Create_Resumes == ASSUME SessionInv, ResumeInv, Create PROVE ResumeInv'
<1>1. /\ UNCHANGED <<windows, record, remaining, old, kept, disturbed, object>> /\ op' = "wait"
      /\ op = "create" /\ remaining # {}
      /\ coming' = IF Program(object.exec) /\ Missing > 0 THEN coming + Missing ELSE coming
  BY DEF Create, Goto, local
<1>2. Replaces' = Replaces /\ Shown' = Shown
  BY <1>1 DEF Replaces, StartsMissing, Missing, Shown
<1> SUFFICES ASSUME ~disturbed, Replaces
             PROVE  remaining = DOMAIN record /\ coming' + Cardinality(Shown) = Cardinality(remaining)
  BY <1>1, <1>2 DEF ResumeInv, Undisturbed
<1>3. coming = 0 /\ Partition /\ kept = {} /\ Missing >= 0 /\ (Missing > 0 => Program(object.exec))
  BY <1>1 DEF ResumeInv, Undisturbed, Replaces, StartsMissing
<1>4. Shown = old
  BY <1>3 DEF Partition
<1>5. remaining = DOMAIN record
  BY <1>3 DEF Partition, SessionInv, SessionTypeOK
<1>6. Cardinality(remaining) \in Nat /\ Cardinality(old) \in Nat
  BY Counts
<1>7. coming' + Cardinality(old) = Cardinality(remaining)
  BY <1>1, <1>3, <1>6 DEF Missing
<1> QED BY <1>4, <1>5, <1>7

LEMMA Wait_Resumes == ASSUME SessionInv, ResumeInv, Wait PROVE ResumeInv'
<1>1. /\ UNCHANGED <<windows, coming, record, remaining, old, kept, object>>
      /\ op = "wait" /\ op' = "resume"
  BY DEF Wait, Goto, AsMany
<1>2. Replaces' = Replaces /\ AsMany' = AsMany
  BY <1>1 DEF Replaces, StartsMissing, Missing, AsMany, Shown
<1> SUFFICES ASSUME ~disturbed', Replaces PROVE remaining = DOMAIN record /\ AsMany
  BY <1>1, <1>2 DEF ResumeInv, Undisturbed
<1>3. ~disturbed /\ (AsMany \/ ~(coming > 0))
  <2>1. CASE AsMany /\ disturbed' = disturbed
    BY <2>1
  <2>2. CASE disturbed' = (disturbed \/ coming > 0)
    BY <2>2, Zenon
  <2> QED BY <2>1, <2>2 DEF Wait, AsMany
<1>4. remaining = DOMAIN record /\ coming + Cardinality(Shown) = Cardinality(remaining)
  BY <1>1, <1>3 DEF ResumeInv, Undisturbed
<1>5. coming \in Nat /\ Cardinality(Shown) \in Nat
  BY Shown_Finite, FS_CardinalityType DEF SessionInv, SessionTypeOK
<1> QED BY <1>3, <1>4, <1>5 DEF AsMany

(* The first windows of a set, as many as it has, are all of it.           *)
LEMMA FirstAll ==
    ASSUME NEW S \in SUBSET Nat, IsFiniteSet(S)
    PROVE  FirstOf(S, Cardinality(S)) = S
<1> SUFFICES ASSUME NEW n \in S PROVE Cardinality({m \in S : m < n}) < Cardinality(S)
  BY DEF FirstOf
<1> DEFINE T == {m \in S : m < n}
<1>1. T \in SUBSET S /\ n \notin T
  OBVIOUS
<1>2. IsFiniteSet(T) /\ Cardinality(T) <= Cardinality(S) /\ (Cardinality(S) = Cardinality(T) => S = T)
  BY <1>1, FS_Subset
<1>3. Cardinality(T) \in Nat /\ Cardinality(S) \in Nat
  BY <1>2, FS_CardinalityType
<1> QED BY <1>1, <1>2, <1>3

LEMMA ResumeStats_Resumes ==
    ASSUME SessionInv, ResumeInv, NEW f, ResumeStats(f) PROVE ResumeInv'
<1>1. /\ UNCHANGED <<coming, record, remaining, old, kept, disturbed, object>>
      /\ op = "resume" /\ op' = "place" /\ pairs' = f /\ f \in Zips
      /\ windows' = [n \in Name |-> IF n \in DOMAIN f THEN [windows[n] EXCEPT !.state = f[n]]
                                                  ELSE windows[n]]
  BY DEF ResumeStats, Goto
<1>2. Replaces' = Replaces
  BY <1>1 DEF Replaces, StartsMissing, Missing
<1> SUFFICES ASSUME ~disturbed, Replaces PROVE remaining = DOMAIN record /\ Zipped'
  BY <1>1, <1>2 DEF ResumeInv, Undisturbed
<1>3. remaining = DOMAIN record /\ AsMany
  BY <1>1 DEF ResumeInv, Undisturbed
<1>4. /\ Shown \in SUBSET Nat /\ IsFiniteSet(Shown) /\ Shown \subseteq Name
      /\ \A n \in Shown : windows[n] \in Record
  BY Shown_Finite, SessionAssumption
<1>5. FirstOf(Shown, Cardinality(remaining)) = Shown
  BY <1>3, <1>4, FirstAll DEF AsMany
<1>6. f \in [Shown -> remaining] /\ \A m, n \in Shown : f[m] = f[n] => m = n
  BY <1>1, <1>5 DEF Zips
<1>7. f \in Injection(Shown, remaining)
  BY <1>6 DEF Injection, IsInjective
<1>8. f \in Surjection(Shown, remaining)
  BY <1>3, <1>7, Counts, FS_Injection DEF AsMany
<1>9. DOMAIN f = Shown /\ \A s \in remaining : \E n \in Shown : f[n] = s
  BY <1>6, <1>8 DEF Surjection
<1>10. \A n \in Shown : windows'[n] \in Record /\ windows'[n].state = f[n]
  <2> SUFFICES ASSUME NEW n \in Shown PROVE windows'[n] \in Record /\ windows'[n].state = f[n]
    OBVIOUS
  <2>1. windows'[n] = [windows[n] EXCEPT !.state = f[n]] /\ windows[n] \in Record
    BY <1>1, <1>4, <1>9
  <2>2. f[n] \in State
    BY <1>6 DEF SessionInv, SessionTypeOK
  <2> QED BY <2>1, <2>2 DEF Record
<1>11. Shown' = Shown
  <2>1. \A n \in Name : windows[n] # None <=> windows'[n] # None
    BY <1>1, <1>9, <1>10, SessionAssumption DEF Record, Shown
  <2> QED BY <2>1, SameShown
<1> QED BY <1>1, <1>3, <1>9, <1>10, <1>11 DEF Zipped

(* A window that appears is one of those that were coming.                 *)
LEMMA Appear_Resumes ==
    ASSUME SessionInv, ResumeInv, NEW n \in Name, Appear(n) PROVE ResumeInv'
<1>1. /\ UNCHANGED <<object, op, record, remaining, old, kept, pairs>>
      /\ coming > 0 /\ coming' = coming - 1 /\ windows[n] = None
      /\ disturbed' = (disturbed \/ op \notin {"wait", "none"})
  BY DEF Appear
<1>2. Replaces' = Replaces
  BY <1>1 DEF Replaces, StartsMissing, Missing
<1> SUFFICES ASSUME ~disturbed', op = "wait", Replaces
             PROVE  remaining = DOMAIN record /\ coming' + Cardinality(Shown') = Cardinality(remaining)
  BY <1>1, <1>2 DEF ResumeInv, Undisturbed
<1>3. remaining = DOMAIN record /\ coming + Cardinality(Shown) = Cardinality(remaining)
  BY <1>1 DEF ResumeInv, Undisturbed
<1>4. PICK pl \in Place : windows' = [windows EXCEPT ![n] = [state |-> Fresh, place |-> pl]]
  BY DEF Appear
<1>5. Shown' = Shown \union {n} /\ n \notin Shown
  BY <1>1, <1>4, SessionAssumption DEF Shown, SessionInv, SessionTypeOK
<1>6. Cardinality(Shown') = Cardinality(Shown) + 1 /\ Cardinality(Shown) \in Nat
  BY <1>5, Shown_Finite, FS_AddElement, FS_CardinalityType
<1>7. coming \in Nat
  BY DEF SessionInv, SessionTypeOK
<1> QED BY <1>1, <1>3, <1>6, <1>7

LEMMA Others_Resume ==
    ASSUME SessionInv, ResumeInv,
           \/ \E a \in App : Instantiate(a)
           \/ OnSave \/ OnClose \/ OnResume \/ CloseOld
           \/ \E f : PlaceWindows(f)
           \/ DefaultSave \/ DefaultResume \/ DefaultClose
           \/ \E n \in Name : User(n)
    PROVE  ResumeInv'
<1>1. CASE CloseOld \/ \E f : PlaceWindows(f)
  BY <1>1 DEF CloseOld, PlaceWindows, Return, ResumeInv, Undisturbed
<1>2. CASE OnSave \/ OnClose \/ DefaultSave \/ DefaultResume \/ DefaultClose
  BY <1>2 DEF OnSave, OnClose, DefaultSave, DefaultResume, DefaultClose, Called, local,
              ResumeInv, Undisturbed
<1>3. CASE OnResume
  <2>1. coming \in Nat /\ UNCHANGED <<coming, object>> /\ object # None /\ op = "none"
    BY <1>3 DEF OnResume, Called, SessionInv, SessionTypeOK
  <2>2. CASE op' = op
    BY <2>1, <2>2 DEF ResumeInv, Undisturbed
  <2>3. ASSUME op' = "match", disturbed' = (coming > 0) PROVE ResumeInv'
    <3>1. ~disturbed' => ~(coming > 0)
      BY <2>3, Zenon
    <3>2. ~disturbed' => coming' = 0
      BY <2>1, <3>1
    <3> QED BY <2>1, <2>3, <3>2 DEF ResumeInv, Undisturbed
  <2> QED BY <1>3, <2>2, <2>3 DEF OnResume
<1>4. ASSUME NEW a \in App, Instantiate(a) PROVE ResumeInv'
  BY <1>4 DEF Instantiate, local, ResumeInv, Undisturbed
<1>5. ASSUME NEW n \in Name, User(n) PROVE ResumeInv'
  BY <1>5 DEF User, ResumeInv, Undisturbed
<1> QED BY <1>1, <1>2, <1>3, <1>4, <1>5

LEMMA Next_Resumes == SessionInv /\ ResumeInv /\ [Next]_vars => ResumeInv'
<1> SUFFICES ASSUME SessionInv, ResumeInv, [Next]_vars PROVE ResumeInv'
  OBVIOUS
<1>1. CASE UNCHANGED sessionVars
  BY <1>1 DEF sessionVars, local, ResumeInv, Undisturbed, Partition, Replaces, StartsMissing, Missing, Zipped,
              AsMany, Shown, AsRecorded
<1> QED BY <1>1, Match_Resumes, Create_Resumes, Wait_Resumes, ResumeStats_Resumes, Appear_Resumes,
           Others_Resume DEF Next, vars

(* A step after Create, with the windows that are shown staying so, or     *)
(* none to come.                                                           *)
LEMMA Next_Lacks == SessionInv /\ ResumeInv /\ LackInv /\ [Next]_vars => LackInv'
<1> SUFFICES ASSUME SessionInv, ResumeInv, LackInv, [Next]_vars PROVE LackInv'
  OBVIOUS
<1> USE DEF LackInv
<1>1. CASE UNCHANGED sessionVars
  BY <1>1 DEF sessionVars, local, Lacks, Missing, TooFew, Shown
<1>2. CASE Create
  <2>1. /\ UNCHANGED <<windows, record, remaining, old, kept, disturbed, object>> /\ op = "create"
        /\ coming' = IF Program(object.exec) /\ Missing > 0 THEN coming + Missing ELSE coming
    BY <1>2 DEF Create, Goto, local
  <2> SUFFICES ASSUME ~disturbed, Lacks PROVE TooFew'
    BY <2>1 DEF Lacks, Missing
  <2>2. coming = 0 /\ Partition
    BY <2>1 DEF ResumeInv, Undisturbed
  <2>3. coming' = 0 /\ Shown' = Shown
    BY <2>1, <2>2 DEF Lacks, Shown
  <2>4. Shown = old /\ remaining = DOMAIN record
    BY <2>2 DEF Partition, Lacks, SessionInv, SessionTypeOK
  <2>5. Cardinality(old) < Cardinality(remaining)
    BY Counts DEF Lacks, Missing
  <2> QED BY <2>1, <2>3, <2>4, <2>5 DEF TooFew
<1>3. CASE Wait
  BY <1>3 DEF Wait, Goto, Lacks, Missing, TooFew, Shown
<1>4. ASSUME NEW f, ResumeStats(f) PROVE LackInv'
  <2>1. /\ UNCHANGED <<coming, record, remaining, old, kept, disturbed, object>> /\ op = "resume"
        /\ windows' = [n \in Name |-> IF n \in DOMAIN f THEN [windows[n] EXCEPT !.state = f[n]]
                                                    ELSE windows[n]]
    BY <1>4 DEF ResumeStats, Goto
  <2>2. ASSUME NEW n \in DOMAIN f
        PROVE  windows[n] # None /\ [windows[n] EXCEPT !.state = f[n]] \in Record
    <3>1. n \in Shown /\ f[n] \in State /\ windows[n] \in Record
      BY <1>4, ZipsType, Shown_Finite DEF ResumeStats, SessionInv, SessionTypeOK
    <3> QED BY <3>1 DEF Record, Shown
  <2>3. \A n \in Name : windows[n] # None <=> windows'[n] # None
    BY <2>1, <2>2, SessionAssumption DEF Record
  <2> QED BY <2>1, <2>3, SameShown DEF Lacks, Missing, TooFew
<1>5. ASSUME NEW n \in Name, Appear(n) PROVE LackInv'
  <2>1. UNCHANGED <<object, op, record, remaining, old, kept>> /\ coming # 0
    BY <1>5 DEF Appear, SessionInv, SessionTypeOK
  <2>2. ~disturbed' => ~disturbed
    BY <1>5, Zenon DEF Appear
  <2> QED BY <2>1, <2>2 DEF Lacks, Missing, TooFew
<1>6. CASE op' \in {"none", "match", "create"}
  BY <1>6
<1>7. ASSUME NEW n \in Name, User(n) PROVE LackInv'
  BY <1>7 DEF User
<1>8. CASE \/ \E a \in App : Instantiate(a)
           \/ OnSave \/ OnClose \/ OnResume \/ Match \/ CloseOld
           \/ \E f : PlaceWindows(f)
           \/ DefaultSave \/ DefaultResume \/ DefaultClose
  <2>1. CASE \E a \in App : Instantiate(a)
    BY <1>6, <2>1 DEF Instantiate, ResumeInv
  <2>2. CASE OnSave \/ OnClose \/ DefaultSave \/ DefaultResume \/ DefaultClose
    BY <1>6, <2>2 DEF OnSave, OnClose, DefaultSave, DefaultResume, DefaultClose, Called
  <2>3. CASE OnResume \/ Match
    BY <1>6, <2>3 DEF OnResume, Called, Match, Goto
  <2>4. CASE CloseOld \/ \E f : PlaceWindows(f)
    BY <1>6, <2>4 DEF CloseOld, PlaceWindows, Return
  <2> QED BY <1>8, <2>1, <2>2, <2>3, <2>4
<1> QED BY <1>1, <1>2, <1>3, <1>4, <1>5, <1>7, <1>8 DEF Next, vars

------------------------------------------------------------------------------
(* What an operation that returns leaves.                                  *)

LEMMA Records_Is ==
    ASSUME NEW T, \A n \in Name : windows'[n] # None => windows'[n] \in T,
           \A w \in T : \E n \in Name : windows'[n] = w /\ w # None
    PROVE  Records(windows)' = T
BY DEF Records

LEMMA CloseOld_Restores ==
    ASSUME SessionInv, ResumeInv, CloseOld, ~disturbed
    PROVE  AsOnRecord
<1> DEFINE T == {AsRecorded(s) : s \in DOMAIN record}
<1>1. Partition /\ remaining = {}
  BY DEF CloseOld, ResumeInv, Undisturbed
<1>2. windows' = [n \in Name |-> IF n \in old THEN None ELSE windows[n]]
  BY DEF CloseOld
<1>3. ASSUME NEW n \in Name, windows'[n] # None PROVE windows'[n] \in T
  <2>1. n \in kept /\ windows'[n] = windows[n]
    BY <1>1, <1>2, <1>3 DEF Partition, Shown
  <2> QED BY <1>1, <2>1 DEF Partition
<1>4. ASSUME NEW s \in DOMAIN record
      PROVE  \E n \in Name : windows'[n] = AsRecorded(s) /\ AsRecorded(s) # None
  <2>1. PICK n \in kept : windows[n].state = s
    BY <1>1 DEF Partition
  <2>2. n \in Shown /\ n \notin old /\ windows[n] = AsRecorded(s)
    BY <1>1, <2>1 DEF Partition
  <2>3. n \in Name /\ windows[n] # None
    BY <2>2 DEF Shown
  <2> QED BY <1>2, <2>2, <2>3
<1>5. Records(windows)' = T
  BY <1>3, <1>4, Records_Is
<1> QED BY <1>5 DEF AsOnRecord

LEMMA PlaceWindows_Restores ==
    ASSUME SessionInv, ResumeInv, NEW f, PlaceWindows(f), result' = "clean", ~disturbed, Replaces
    PROVE  AsOnRecord
<1> DEFINE T == {AsRecorded(s) : s \in DOMAIN record}
<1>1. /\ remaining = DOMAIN record /\ Zipped /\ f = pairs
      /\ windows' = [n \in Name |-> IF n \in DOMAIN f THEN [windows[n] EXCEPT !.place = record[f[n]]]
                                                  ELSE windows[n]]
  BY DEF PlaceWindows, Return, ResumeInv, Undisturbed
<1>2. Shown \subseteq Name /\ \A n \in Shown : windows[n] \in Record
  BY Shown_Finite
<1>3. ASSUME NEW n \in Shown
      PROVE  windows'[n] = AsRecorded(pairs[n]) /\ pairs[n] \in DOMAIN record
  <2>1. windows'[n] = [windows[n] EXCEPT !.place = record[pairs[n]]] /\ windows[n].state = pairs[n]
    BY <1>1, <1>2 DEF Zipped
  <2>2. windows[n] \in Record /\ pairs[n] \in remaining
    BY <1>1, <1>2 DEF Zipped, SessionInv, PairsOK
  <2> QED BY <1>1, <2>1, <2>2 DEF Record, AsRecorded
<1>4. \A n \in Name : n \notin Shown => windows'[n] = None
  BY <1>1 DEF Zipped, Shown
<1>5. ASSUME NEW s \in DOMAIN record
      PROVE  \E n \in Name : windows'[n] = AsRecorded(s) /\ AsRecorded(s) # None
  <2>1. PICK n \in Shown : pairs[n] = s
    BY <1>1 DEF Zipped
  <2>2. AsRecorded(s) \in Record
    BY DEF AsRecorded, Record, SessionInv, SessionTypeOK
  <2> QED BY <1>2, <1>3, <2>1, <2>2, SessionAssumption DEF Record
<1>6. \A n \in Name : windows'[n] # None => windows'[n] \in T
  BY <1>3, <1>4
<1>7. Records(windows)' = T
  BY <1>5, <1>6, Records_Is
<1> QED BY <1>7 DEF AsOnRecord

(* Fewer windows than are on record do not show all that is.               *)
LEMMA PlaceWindows_Lacks ==
    ASSUME SessionInv, LackInv, NEW f, PlaceWindows(f), result' = "clean", ~disturbed, Lacks
    PROVE  ~AsOnRecord
<1> DEFINE T == {AsRecorded(s) : s \in DOMAIN record}
<1>1. /\ remaining = DOMAIN record /\ Cardinality(Shown) < Cardinality(remaining)
      /\ DOMAIN f \subseteq Shown
      /\ windows' = [n \in Name |-> IF n \in DOMAIN f THEN [windows[n] EXCEPT !.place = record[f[n]]]
                                                  ELSE windows[n]]
  BY DEF PlaceWindows, Return, LackInv, TooFew
<1>2. \A n \in Name : n \notin Shown => windows'[n] = None
  BY <1>1 DEF Shown
<1> SUFFICES ASSUME Records(windows)' = T PROVE FALSE
  BY DEF AsOnRecord
<1>3. \A t \in T : \E n \in Shown : t = windows'[n]
  BY <1>2 DEF Records
<1>4. \A s \in DOMAIN record : \E n \in Shown : s = windows'[n].state
  <2> SUFFICES ASSUME NEW s \in DOMAIN record PROVE \E n \in Shown : s = windows'[n].state
    OBVIOUS
  <2>1. PICK n \in Shown : AsRecorded(s) = windows'[n]
    BY <1>3
  <2> QED BY <2>1 DEF AsRecorded
<1> DEFINE S == {n \in Shown : windows'[n].state \in DOMAIN record}
<1>5. IsFiniteSet(S) /\ Cardinality(S) <= Cardinality(Shown)
  BY Shown_Finite, FS_Subset
<1>6. Cardinality(DOMAIN record) <= Cardinality(S)
  <2>1. PICK g : g = [n \in S |-> windows'[n].state]
    OBVIOUS
  <2>2. (\A n \in S : g[n] \in DOMAIN record) /\ \A s \in DOMAIN record : \E n \in S : s = g[n]
    BY <1>4, <2>1
  <2> HIDE DEF S
  <2> QED BY <1>5, <2>2, Covered
<1>7. /\ Cardinality(S) \in Nat /\ Cardinality(Shown) \in Nat
      /\ Cardinality(DOMAIN record) \in Nat
  BY <1>5, Shown_Finite, FS_CardinalityType DEF SessionInv
<1> QED BY <1>1, <1>5, <1>6, <1>7

(* However many windows and states there are: a resume nobody comes in     *)
(* between, from windows that include all that are on record, or none and  *)
(* no more, ends with those on record and no others, exactly if it has no  *)
(* window to start or the command is not wrapped (onResume).               *)
THEOREM SessionRestores == Spec => ResumeRestores
<1> DEFINE Restored == Resumed /\ (remaining = {} \/ (kept = {} /\ Missing >= 0))
                           => (AsOnRecord <=> StartsMissing)
<1>1. SessionInv /\ ResumeInv /\ LackInv /\ [Next]_vars => [Restored]_vars
  <2> SUFFICES ASSUME SessionInv, ResumeInv, LackInv, Next, Resumed,
                      remaining = {} \/ (kept = {} /\ Missing >= 0)
               PROVE  AsOnRecord <=> StartsMissing
    OBVIOUS
  <2>1. CloseOld \/ \E f : PlaceWindows(f)
    BY DEF Resumed, Next, sessionVars, Instantiate, OnSave, OnClose, OnResume, Called, Match, Create,
           Wait, ResumeStats, Goto, DefaultSave, DefaultResume, DefaultClose, Appear, User
  <2>2. CASE CloseOld
    <3>1. Cardinality(remaining) = 0 /\ Cardinality(old) \in Nat
      BY <2>2, Counts, FS_EmptySet DEF CloseOld
    <3>2. StartsMissing
      BY <3>1 DEF StartsMissing, Missing
    <3> QED BY <2>2, <3>2, CloseOld_Restores DEF Resumed
  <2>3. ASSUME NEW f, PlaceWindows(f) PROVE AsOnRecord <=> StartsMissing
    <3>1. kept = {} /\ Missing >= 0
      BY <2>3 DEF PlaceWindows, ResumeInv
    <3>2. StartsMissing => AsOnRecord
      BY <2>3, <3>1, PlaceWindows_Restores DEF Resumed, Replaces
    <3>3. ~StartsMissing => ~AsOnRecord
      BY <2>3, <3>1, PlaceWindows_Lacks DEF Resumed, Lacks, StartsMissing
    <3> QED BY <3>2, <3>3
  <2> QED BY <2>1, <2>2, <2>3
<1>2. SessionInit => ResumeInv /\ LackInv
  BY DEF SessionInit, ResumeInv, Undisturbed, LackInv
<1>3. Spec => [](ResumeInv /\ LackInv)
  BY <1>2, Next_Resumes, Next_Lacks, Session_Invariant, PTL DEF Spec
<1> QED BY <1>1, <1>3, Session_Invariant, PTL DEF Spec, ResumeRestores
==============================================================================
