---------------------------- MODULE DomainManager ----------------------------
(***************************************************************************)
(* The domain tree of core/pyvdm/DomainManager.py.  A domain is a          *)
(* directory below ~/.vdm/domains, named by its path; a domain nested in   *)
(* another one is derived from it.  While a domain is open its overlay     *)
(* directory is moved to /tmp to be the upper layer of a mount, those of   *)
(* its ancestors to be lower layers, and symbolic links take their places. *)
(* The file ~/.vdm/.stat names the open domain.                            *)
(*                                                                         *)
(* Opening and closing take one step for each directory they move and for  *)
(* the process they start or kill, and the manager or the machine may go   *)
(* down at each of those points.  The offline operations are one action    *)
(* each.                                                                   *)
(*                                                                         *)
(* The contents of an overlay directory are its layers: the files at its   *)
(* top, then those in the directory .overlay inside it, and so on, because *)
(* moving a directory .overlay onto a directory that exists puts it inside.*)
(***************************************************************************)
EXTENDS Naturals, Sequences, FiniteSets, SequencesExt

CONSTANTS Domain,      \* the names of domains: sequences of path components
          CopyNames,   \* CopyNames[d]: d*1, d*2, ... as far as in Domain
          DeriveNames, \* DeriveNames[d]: d/d+1, d/d+2, ...
          SameDevice,  \* is /tmp on the file system of ~/.vdm?
          Faults,      \* what may go wrong: "spawn", "crash", "reboot", "missing"
          MaxFiles,    \* bound: files written inside each domain
          MaxLayers,   \* bound: depth of .overlay inside .overlay
          None

FaultKinds == {"spawn",    \* the sandbox process does not start
               "crash",    \* the managing process is killed
               "reboot",   \* the machine restarts, /tmp is emptied
               "missing"}  \* a name that is no domain is opened

ASSUME DomainAssumption ==
    /\ Domain \subseteq Seq(STRING)
    /\ \A d \in Domain : d # <<>> /\ \A i \in 1..Len(d) : SubSeq(d, 1, i) \in Domain
    /\ CopyNames \in [Domain -> Seq(Domain)]
    /\ DeriveNames \in [Domain -> Seq(Domain)]
    /\ \A d \in Domain, e \in Domain :
           /\ e \in Range(CopyNames[d]) => Len(e) = Len(d) /\ Front(e) = Front(d)
           /\ e \in Range(DeriveNames[d]) => Len(e) = Len(d) + 1 /\ Front(e) = d
    /\ SameDevice \in BOOLEAN
    /\ Faults \subseteq FaultKinds
    /\ MaxFiles \in Nat /\ MaxLayers \in Nat
    /\ None \notin Domain /\ None \notin Seq(SUBSET (Domain \X (1..MaxFiles)))
    /\ None \notin [kind : {"link"}, to : STRING \X {"upper", "lower"}]
    /\ None \notin [kind : {"dir"}, layers : Seq(SUBSET (Domain \X (1..MaxFiles)))]

VARIABLES
    dirs,       \* the directories below the root
    configs,    \* those with a config.json
    overlay,    \* the entry .overlay of a directory: None, a link or a directory
    tmp,        \* /tmp/vdm-<stem>-upperdir and -lowerdir: None or layers
    stat,       \* the name in ~/.vdm/.stat
    sandboxes,  \* the domains whose sandbox process runs, and is known to .stat or to step
    strays,     \* those with a sandbox process that nobody knows of any more
    step,       \* how far the operation in progress is
    written     \* history: the files written inside domains

tree == <<dirs, configs>>
files == <<overlay, tmp, written>>
vars == <<tree, files, stat, sandboxes, strays, step>>

Stems == {Last(d) : d \in Domain}
Slot == Stems \X {"upper", "lower"}
File == Domain \X (1..MaxFiles)
Layers == {q \in Seq(SUBSET File) : q # <<>>}
Link(t) == [kind |-> "link", to |-> t]
Dir(q) == [kind |-> "dir", layers |-> q]

Upper(d) == <<Last(d), "upper">>
Lower(d) == <<Last(d), "lower">>

(* Path(d).is_relative_to(e), Path(d).parents without '.', the nearest     *)
(* parent first.                                                           *)
IsRelativeTo(d, e) == IsPrefix(e, d)
Parents(d) == [i \in 1..Len(d)-1 |-> SubSeq(d, 1, Len(d) - i)]

Init ==
    /\ dirs = {} /\ configs = {}
    /\ overlay = [d \in Domain |-> None]
    /\ tmp = [t \in Slot |-> None]
    /\ stat = None
    /\ sandboxes = {} /\ strays = {}
    /\ step = <<"idle">>
    /\ written = {}

Idle == step = <<"idle">>

------------------------------------------------------------------------------
(* File operations on the overlays, where slots is what is in /tmp.        *)

IsLink(x) == x # None /\ x.kind = "link"
IsDir(x) == x # None /\ x.kind = "dir"
Exists(d, slots) == \/ IsDir(overlay[d])
                    \/ IsLink(overlay[d]) /\ slots[overlay[d].to] # None

(* shutil.move(overlay, slot): the slot may exist already, and may then    *)
(* have an .overlay inside already.                                        *)
MayLand(q) == q = None \/ Len(q) = 1
Overwrites(q, layers) == layers
Lands(q, layers) == IF q = None THEN layers ELSE q \o layers

(* The overlay entry of d becomes a link to slot t, whatever it was.       *)
Stuck(d, t, slots) == IsDir(overlay[d]) /\ ~MayLand(slots[t])
Relink(d, t, slots) ==
    /\ ~Stuck(d, t, slots)
    /\ overlay' = [overlay EXCEPT ![d] = Link(t)]
    /\ tmp' = IF IsDir(overlay[d]) THEN [slots EXCEPT ![t] = Lands(@, overlay[d].layers)] ELSE slots

(* unlink(missing_ok) of the overlay entry raises on a directory; then the *)
(* slot is moved back in its place.                                        *)
MoveBack(d, t) ==
    /\ ~IsDir(overlay[d]) /\ tmp[t] # None /\ d \in dirs
    /\ overlay' = [overlay EXCEPT ![d] = Dir(tmp[t])]
    /\ tmp' = [tmp EXCEPT ![t] = None]
MoveBackRaises(d, t) ==
    /\ \/ IsDir(overlay[d]) /\ UNCHANGED overlay
       \/ ~IsDir(overlay[d]) /\ (tmp[t] = None \/ d \notin dirs) /\ overlay' = [overlay EXCEPT ![d] = None]
    /\ UNCHANGED tmp

------------------------------------------------------------------------------
(* Online operations *)

(* Parents are taken one by one, from the i-th on.                         *)
Lowering(d, i) == IF i <= Len(Parents(d)) THEN <<"lower", d, i>> ELSE <<"upper", d>>
Restoring(d, i) == IF i <= Len(Parents(d)) THEN <<"restore", d, i>> ELSE <<"idle">>

(* initialize_domain: refused while the process of the open domain exists. *)
AlwaysOpens == TRUE
MayOpen == stat = None \/ stat \notin sandboxes
InitializeDomain(d) ==
    /\ Idle
    /\ MayOpen
    /\ d \in configs \/ "missing" \in Faults
    /\ \A e \in {d} \union Range(Parents(d)) :   \* bound
           IsDir(overlay[e]) => Len(overlay[e].layers) < MaxLayers
    /\ step' = Lowering(d, 1)
    /\ UNCHANGED <<tree, files, stat, sandboxes, strays>>

(* __init_overlay.  An exception ends the operation, and leaves behind     *)
(* what has been done so far.                                              *)
PrepareLower(d, i) ==
    /\ step = <<"lower", d, i>>
    /\ LET p == Parents(d)[i]
       IN  \/ ~Exists(p, tmp) /\ UNCHANGED <<overlay, tmp>> /\ step' = Lowering(d, i + 1)
           \/ Exists(p, tmp) /\ Relink(p, Lower(p), tmp) /\ step' = Lowering(d, i + 1)
           \/ Exists(p, tmp) /\ Stuck(p, Lower(p), tmp) /\ UNCHANGED <<overlay, tmp>> /\ step' = <<"idle">>
    /\ UNCHANGED <<tree, stat, sandboxes, strays, written>>

(* The upper directory is made first if need be; symlink_to raises if d is *)
(* no directory or a dangling link is in the way.                          *)
Made(d) == [tmp EXCEPT ![Upper(d)] = IF @ = None THEN <<{}>> ELSE @]
Blocked(d) == d \notin dirs \/ ~(Exists(d, Made(d)) \/ overlay[d] = None)
PrepareUpper(d) ==
    /\ step = <<"upper", d>>
    /\ \/ ~Blocked(d) /\ Relink(d, Upper(d), Made(d)) /\ step' = <<"start", d>>
       \/ /\ Blocked(d) \/ Stuck(d, Upper(d), Made(d))
          /\ tmp' = Made(d) /\ UNCHANGED overlay /\ step' = <<"idle">>
    /\ UNCHANGED <<tree, stat, sandboxes, strays, written>>

(* The sandbox process starts with its mounts.  A process that fails ends  *)
(* the operation if that shows at once, and otherwise leaves the manager   *)
(* waiting for a child process that never comes.                           *)
StartSandbox ==
    /\ step[1] = "start"
    /\ \/ sandboxes' = sandboxes \union {step[2]} /\ step' = <<"put_stat", step[2]>>
       \/ /\ "spawn" \in Faults
          /\ step' \in {<<"idle">>, <<"hung", step[2]>>}
          /\ UNCHANGED sandboxes
    /\ UNCHANGED <<tree, files, stat, strays>>

PutStat ==
    /\ step[1] = "put_stat"
    /\ stat' = step[2]
    /\ step' = <<"idle">>
    /\ UNCHANGED <<tree, files, sandboxes, strays>>

(* finalize_domain: the sandbox is killed and the name is cleared before   *)
(* the overlays are moved back.                                            *)
KillNothing == sandboxes
Kill == sandboxes \ {stat}
FinalizeStat ==
    /\ Idle
    /\ stat # None
    /\ sandboxes' = Kill
    /\ stat' = None
    /\ step' = <<"fini", stat>>
    /\ UNCHANGED <<tree, files, strays>>

(* __fini_overlay *)
RestoreUpper(d) ==
    /\ step = <<"fini", d>>
    /\ \/ MoveBack(d, Upper(d)) /\ step' = Restoring(d, 1)
       \/ MoveBackRaises(d, Upper(d)) /\ step' = <<"idle">>
    /\ UNCHANGED <<tree, stat, sandboxes, strays, written>>

RestoreNothing(d, i) ==
    /\ step = <<"restore", d, i>> /\ step' = Restoring(d, i + 1)
    /\ UNCHANGED <<tree, files, stat, sandboxes, strays>>
RestoreLower(d, i) ==
    /\ step = <<"restore", d, i>>
    /\ LET p == Parents(d)[i]
       IN  \/ tmp[Lower(p)] = None /\ UNCHANGED <<overlay, tmp>> /\ step' = Restoring(d, i + 1)
           \/ tmp[Lower(p)] # None /\ MoveBack(p, Lower(p)) /\ step' = Restoring(d, i + 1)
           \/ tmp[Lower(p)] # None /\ MoveBackRaises(p, Lower(p)) /\ step' = <<"idle">>
    /\ UNCHANGED <<tree, stat, sandboxes, strays, written>>

(* A program in the sandbox writes a new file: it lands in the upper       *)
(* directory of the mount, which fork_domain may have moved.  Programs get *)
(* into a sandbox by way of .stat only ("vdm run").                        *)
Write(d) ==
    /\ d = stat /\ d \in sandboxes
    /\ tmp[Upper(d)] # None \/ IsDir(overlay[d])
    /\ \E f \in {d} \X (1..MaxFiles) :
           /\ \A i \in 1..f[2]-1 : <<d, i>> \in written
           /\ f \notin written
           /\ written' = written \union {f}
           /\ IF tmp[Upper(d)] # None
              THEN tmp' = [tmp EXCEPT ![Upper(d)][1] = @ \union {f}] /\ UNCHANGED overlay
              ELSE overlay' = [overlay EXCEPT ![d].layers[1] = @ \union {f}] /\ UNCHANGED tmp
    /\ UNCHANGED <<tree, stat, sandboxes, strays, step>>

------------------------------------------------------------------------------
(* Offline operations *)

Subtree(d) == {e \in dirs : IsRelativeTo(e, d)}
ChildDomains(d) == {e \in configs : Len(e) = Len(d) + 1 /\ IsRelativeTo(e, d)}
OpenBelow(d) == stat # None /\ IsRelativeTo(stat, d)

(* create_domain makes the missing parent directories, without a config. *)
Create(d) ==
    /\ Idle
    /\ d \notin dirs
    /\ dirs' = dirs \union {d} \union Range(Parents(d))
    /\ configs' = configs \union {d}
    /\ UNCHANGED <<files, stat, sandboxes, strays, step>>

(* update_domain with a new name in the same parent directory: os.replace  *)
(* moves the directory with all it contains onto a name that is free or an *)
(* empty directory.                                                        *)
Renamed(e, d, new) == new \o SubSeq(e, Len(d) + 1, Len(e))
Emptied(d) == Subtree(d) \subseteq {d} /\ d \notin configs /\ overlay[d] = None
Rename(d, new) ==
    /\ Idle
    /\ ~OpenBelow(d) /\ ChildDomains(d) = {} /\ d \in configs
    /\ d # new /\ Len(d) = Len(new) /\ Front(d) = Front(new)
    /\ Emptied(new)
    /\ \A e \in Subtree(d) : Renamed(e, d, new) \in Domain
    /\ LET Moved(S) == (S \ Subtree(d)) \union {Renamed(e, d, new) : e \in S \intersect Subtree(d)}
       IN  dirs' = Moved(dirs) /\ configs' = Moved(configs)
    /\ overlay' = [e \in Domain |->
           CASE IsRelativeTo(e, new) /\ Renamed(e, new, d) \in dirs -> overlay[Renamed(e, new, d)]
             [] e \in Subtree(d) -> None
             [] OTHER -> overlay[e]]
    /\ UNCHANGED <<tmp, written, stat, sandboxes, strays, step>>

(* delete_domain *)
NotOpenItself(d) == stat # d
MayDelete(d) == ~OpenBelow(d)
Delete(d, allow_recursive) ==
    /\ Idle
    /\ MayDelete(d)
    /\ ChildDomains(d) = {} \/ allow_recursive
    /\ LET gone == Subtree(d)
       IN  /\ dirs' = dirs \ gone /\ configs' = configs \ gone
           /\ overlay' = [e \in Domain |-> IF e \in gone THEN None ELSE overlay[e]]
           /\ written' = written \ UNION {UNION Range(overlay[e].layers) :
                                             e \in {x \in gone : IsDir(overlay[x])}}
    /\ UNCHANGED <<tmp, stat, sandboxes, strays, step>>

(* fork_domain: the first free name d*n or d/d+n.  Only the config is      *)
(* copied: no file of a domain matches the pattern for stat files, and the *)
(* open name is compared with a Path, which is never equal to it.  Copying *)
(* the overlay unlinks the parent's, puts the directory that is mounted    *)
(* there if /tmp is on the same device, and then fails to copy it.         *)
ForkName(d, copy, child) ==
    LET names == IF copy THEN CopyNames[d] ELSE DeriveNames[d]
    IN  \E i \in DOMAIN names :
            child = names[i] /\ child \notin dirs /\ \A j \in 1..i-1 : names[j] \in dirs

ForkOverlay(d) ==
    \/ IsDir(overlay[d]) /\ UNCHANGED <<overlay, tmp>>   \* unlink raises
    \/ SameDevice /\ MoveBack(d, Upper(d))
    \/ /\ ~IsDir(overlay[d]) /\ ~(SameDevice /\ tmp[Upper(d)] # None)
       /\ overlay' = [overlay EXCEPT ![d] = None] /\ UNCHANGED tmp

Fork(d, copy) ==
    /\ Idle
    /\ d \in dirs
    /\ \E child \in Domain :
           /\ ForkName(d, copy, child)
           /\ dirs' = dirs \union {child}
           /\ configs' = IF d \in configs THEN configs \union {child} ELSE configs
    /\ IF d \in configs /\ copy THEN ForkOverlay(d) ELSE UNCHANGED <<overlay, tmp>>
    /\ UNCHANGED <<written, stat, sandboxes, strays, step>>

------------------------------------------------------------------------------
(* The manager is killed: what it was doing stops.  A sandbox whose process *)
(* was not yet written to .stat runs on, but nobody knows of it any more.   *)
Crash ==
    /\ "crash" \in Faults
    /\ ~Idle
    /\ step' = <<"idle">>
    /\ LET unnamed == IF step[1] = "put_stat" THEN {step[2]} ELSE {}
       IN  sandboxes' = sandboxes \ unnamed /\ strays' = strays \union unnamed
    /\ UNCHANGED <<tree, files, stat>>

(* A restart of the machine empties /tmp, with the files that are there. *)
InTmp == UNION {UNION Range(tmp[t]) : t \in {u \in Slot : tmp[u] # None}}
Reboot ==
    /\ "reboot" \in Faults
    /\ step' = <<"idle">>
    /\ sandboxes' = {} /\ strays' = {}
    /\ tmp' = [t \in Slot |-> None]
    /\ written' = written \ InTmp
    /\ UNCHANGED <<tree, overlay, stat>>

Next ==
    \/ \E d \in Domain :
        \/ InitializeDomain(d) \/ PrepareUpper(d) \/ RestoreUpper(d)
        \/ \E i \in DOMAIN Parents(d) : PrepareLower(d, i) \/ RestoreLower(d, i)
        \/ Write(d) \/ Create(d)
        \/ \E new \in Domain : Rename(d, new)
        \/ \E b \in BOOLEAN : Delete(d, b) \/ Fork(d, b)
    \/ StartSandbox \/ PutStat \/ FinalizeStat
    \/ Crash \/ Reboot

Spec == Init /\ [][Next]_vars

------------------------------------------------------------------------------
(* Properties *)

TypeOK ==
    /\ dirs \subseteq Domain /\ configs \subseteq dirs
    /\ \A d \in Domain :
           \/ overlay[d] = None
           \/ IsLink(overlay[d]) /\ overlay[d].to \in Slot
           \/ IsDir(overlay[d]) /\ overlay[d].layers \in Layers
    /\ \A d \in Domain : overlay[d] # None => d \in dirs
    /\ \A t \in Slot : tmp[t] = None \/ tmp[t] \in Layers
    /\ stat \in Domain \union {None}
    /\ sandboxes \subseteq Domain /\ strays \subseteq Domain
    /\ \/ step = <<"idle">>
       \/ step \in {"upper", "start", "put_stat", "hung", "fini"} \X Domain
       \/ \E d \in Domain : step \in {"lower", "restore"} \X {d} \X DOMAIN Parents(d)
    /\ written \subseteq File

(* The name in .stat is the name of a domain: no sequence of creating,     *)
(* renaming, forking and deleting takes the open domain, or the ancestors  *)
(* its mount is made of, away from under it.                               *)
OpenDomainExists ==
    stat # None => stat \in configs /\ Range(Parents(stat)) \subseteq dirs

(* The sandbox of a domain runs exactly as long as .stat names it, so no   *)
(* second sandbox is ever started beside it (initialize_domain and         *)
(* finalize_domain, when the manager is not killed half-way).              *)
SandboxMatchesStat == Idle => sandboxes = {stat} \ {None}

(* Whatever fails at the start of a sandbox, and whenever the manager or   *)
(* the machine goes down, no two sandboxes run side by side, and .stat     *)
(* names the one that runs: the check of stat and of the process in        *)
(* initialize_domain is enough, but for strays, whose manager was killed   *)
(* between starting them and writing their name.                           *)
OneSandbox == Idle => sandboxes \subseteq {stat}

(* The name in .stat is what others go by ("vdm run", the tray): it is     *)
(* there with its sandbox and goes with it, none is started while one      *)
(* runs, and a name that is left after a restart of the machine is not     *)
(* taken for an open domain.  A sandbox is named by the step after its     *)
(* start.                                                                  *)
Named == sandboxes \ (IF step[1] = "put_stat" THEN {step[2]} ELSE {})
Promise == INSTANCE OpenDomain WITH name <- stat, alive <- Named
RefinesOpenDomain == Promise!Spec

(* When no domain is open, everything is back in place: no overlay is a    *)
(* link any more and no directory is left in /tmp ("move back upperdir",   *)
(* "move back lowerdir" in __fini_overlay).                                *)
HomeWhenClosed ==
    Idle /\ stat = None =>
        /\ \A d \in Domain : ~IsLink(overlay[d])
        /\ \A t \in Slot : tmp[t] = None

(* No file written inside a domain is destroyed, except by deleting the    *)
(* directory it is in, or by a restart of the machine while it is in /tmp: *)
(* failed starts and a killed manager may strand it there, opening and     *)
(* closing again may bury it, but it is still there.                       *)
NothingDestroyed ==
    written \subseteq
        InTmp \union
        (UNION {UNION Range(overlay[d].layers) : d \in {e \in Domain : IsDir(overlay[e])}})

(* DomainManager.py: "move back upperdir".  The files written in a domain  *)
(* are in its upper directory again when it is open again.                 *)
FilesVisibleWhenOpen ==
    Idle /\ stat \in sandboxes =>
        {f \in written : f[1] = stat} \subseteq tmp[Upper(stat)][1]

(* manager.py: "open an existing domain".  When no domain is open, opening *)
(* an existing one gets as far as starting its sandbox.                    *)
ExistingDomainOpens ==
    [][step[1] \in {"lower", "upper"} /\ stat = None /\ step[2] \in configs /\ ~Crash /\ ~Reboot =>
           step' # <<"idle">>]_vars
==============================================================================
