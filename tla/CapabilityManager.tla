--------------------------- MODULE CapabilityManager ---------------------------
(***************************************************************************)
(* core/pyvdm/CapabilityManager.py with the Capability Manager tab of the  *)
(* control panel (CMTabWidget): the processes of the capability daemon,    *)
(* started and stopped by the panel and by the command line, and the boxes *)
(* that switch capabilities.  A method that first looks and then acts is   *)
(* two steps; the panel's main thread does nothing else in between.        *)
(***************************************************************************)
EXTENDS Naturals

CONSTANTS Capability, None,
          MaxDaemon,  \* bound: daemon processes ever started
          MaxCalls    \* bound: calls of the command line beside a client

ASSUME ManagerAssumption ==
    /\ MaxDaemon \in Nat /\ MaxCalls \in Nat
    /\ None \notin Capability /\ None \notin [cap : Capability, enable : BOOLEAN]

Daemons == 1..MaxDaemon
Callers == {"panel", "cli"}
Checkable == {"Capable", "Incapable"}
Status == Checkable \union {"N/A"}   \* "N/A": no status command

VARIABLES
    program,   \* what runs beside the command line: "panel", "client", "ended"
    proc,      \* daemon processes: "none", "starting", "running", "dying", "ended"
    port,      \* the daemon bound to port 42000, or 0
    temp,      \* does the build directory in /tmp exist?
    calls,     \* calls of the command line beside a client
    job,       \* each caller's daemon(option): None or [option, seen]
    label,     \* the start button: "Start" or "Restart" (and Stop is enabled)
    wanted,    \* history: a start was reported clean, and no stop since
    actual,    \* what the status command of a capability answers; None: not installed
    raw,       \* raw_items of the table
    box,       \* is the box ticked?
    shown,     \* InformationArea.status: the last check state taken over
    toggling,  \* None, or the capability and the method toggleCapability picked
    crossed    \* history: toggles, since the table was filled, whose effect was
               \* not what they reported or that met a switch from elsewhere

daemonVars == <<proc, port, temp, calls, job, label, wanted>>
tabVars == <<actual, raw, box, shown, toggling, crossed>>
managerVars == <<program, daemonVars, tabVars>>

Alive(d) == proc[d] \in {"starting", "running", "dying"}
Fresh(d) == proc[d] = "none" /\ \A e \in Daemons : e < d => proc[e] # "none"

(* InformationArea.refresh: the state each row's box gets.                 *)
Ticked(items) == [c \in Capability |-> items[c] = "Capable"]

ManagerInit ==
    /\ program \in {"panel", "client"}
    /\ port \in {0, 1} \intersect (Daemons \union {0})   \* a daemon may be running
    /\ proc = [d \in Daemons |-> IF d = port THEN "running" ELSE "none"]
    /\ label = IF port = 0 THEN "Start" ELSE "Restart"
    /\ job = [x \in Callers |-> None] /\ calls = 0 /\ wanted = FALSE
    /\ temp \in BOOLEAN
    /\ actual \in [Capability -> Status \union {None}]
    /\ program = "client" => temp /\ \A c \in Capability : actual[c] = None   \* nobody looks
    /\ raw = actual /\ box = Ticked(actual) /\ shown = Ticked(actual)
    /\ toggling = None /\ crossed = {}

------------------------------------------------------------------------------
(* CapabilityManager.daemon *)

MayCall(x) ==
    /\ job[x] = None
    /\ x = "panel" => program = "panel" /\ toggling = None
    /\ program = "client" => calls < MaxCalls

(* The first process with the name is taken, also one that is on its way.  *)
(* Beside a client, commands that would find nothing to do are left out.   *)
Look(x, option) ==
    /\ MayCall(x)
    /\ option = "restart" => label = "Restart" \/ x = "cli"
    /\ option = "stop" => label = "Restart" \/ x = "cli"
    /\ option = "start" => label = "Start" \/ x = "cli"
    /\ \E d \in Daemons \union {0} :
           /\ IF d = 0 THEN \A e \in Daemons : ~Alive(e) ELSE Alive(d)
           /\ program = "client" => (option = "start" => d = 0) /\ (option = "stop" => d # 0)
           /\ job' = [job EXCEPT ![x] = [option |-> option, seen |-> d]]
    /\ calls' = IF program = "client" THEN calls + 1 ELSE calls
    /\ UNCHANGED <<proc, port, temp, label, wanted>>

(* toggleDaemon looks again for the labels; the command line is done.      *)
Return(x) ==
    \/ x = "cli" /\ job' = [job EXCEPT ![x] = None] /\ UNCHANGED label
    \/ /\ x = "panel"
       /\ label' = IF \E d \in Daemons : Alive(d) THEN "Restart" ELSE "Start"
       /\ job' = [job EXCEPT ![x] = None]

Signalled(d) == [proc EXCEPT ![d] = IF @ \in {"starting", "running"} THEN "dying" ELSE @]

Stop(x) ==
    /\ job[x] # None /\ job[x].option = "stop"
    /\ IF job[x].seen = 0
       THEN UNCHANGED <<proc, wanted>>
       ELSE proc' = Signalled(job[x].seen) /\ wanted' = FALSE
    /\ Return(x)
    /\ UNCHANGED <<program, port, temp, calls>>

(* sp.Popen: the process outlives its caller.                              *)
SpawnedAsChild == "dying"
Spawned == "starting"

Start(x) ==
    /\ job[x] # None /\ job[x].option = "start"
    /\ \/ job[x].seen # 0 /\ UNCHANGED <<proc, wanted>>   \* DAEMON_ALREADY_EXISTS
       \/ /\ job[x].seen = 0 /\ temp
          /\ \E d \in Daemons : Fresh(d) /\ proc' = [proc EXCEPT ![d] = Spawned]
          /\ wanted' = \A d \in Daemons : proc[d] # "dying"
    /\ Return(x)
    /\ UNCHANGED <<program, port, temp, calls>>

(* The new process is started while the old one may still hold the port.   *)
Restart(x) ==
    /\ job[x] # None /\ job[x].option = "restart" /\ temp
    /\ LET stopped == IF job[x].seen = 0 THEN proc ELSE Signalled(job[x].seen)
       IN  \E d \in Daemons : Fresh(d) /\ proc' = [stopped EXCEPT ![d] = Spawned]
    /\ wanted' = FALSE
    /\ Return(x)
    /\ UNCHANGED <<program, port, temp, calls>>

(* open(_file, 'w') without the build directory, which only installing an  *)
(* archive makes: the exception ends the panel.  A restart has stopped by  *)
(* then.                                                                   *)
Raise(x) ==
    /\ job[x] # None /\ ~temp
    /\ \/ job[x].option = "start" /\ job[x].seen = 0 /\ UNCHANGED <<proc, wanted>>
       \/ /\ job[x].option = "restart"
          /\ proc' = IF job[x].seen = 0 THEN proc ELSE Signalled(job[x].seen)
          /\ wanted' = FALSE
    /\ job' = [job EXCEPT ![x] = None]
    /\ program' = IF x = "panel" THEN "ended" ELSE program
    /\ UNCHANGED <<port, temp, calls, label>>

(* The process: IPCServer.daemon binds the port; unwrap panics if taken.   *)
Bind(d) ==
    /\ proc[d] = "starting"
    /\ IF port = 0
       THEN proc' = [proc EXCEPT ![d] = "running"] /\ port' = d
       ELSE proc' = [proc EXCEPT ![d] = "ended"] /\ UNCHANGED port

DiesKeepsPort(d) == proc[d] = "dying" /\ proc' = [proc EXCEPT ![d] = "ended"] /\ UNCHANGED port
Dies(d) ==
    /\ proc[d] = "dying" /\ proc' = [proc EXCEPT ![d] = "ended"]
    /\ port' = IF port = d THEN 0 ELSE port

Process(d) == (Bind(d) \/ Dies(d)) /\ UNCHANGED <<program, temp, calls, job, label, wanted>>

------------------------------------------------------------------------------
(* The boxes of the tab *)

(* onItemChanged and toggleCapability: the user ticks or unticks; what is  *)
(* called depends on the status by now, not on the box.                    *)
Click(c) ==
    /\ MayCall("panel")
    /\ raw[c] \in Checkable
    /\ box' = [box EXCEPT ![c] = ~@]
    /\ toggling' = [cap |-> c, enable |-> actual[c] # "Capable"]
    /\ UNCHANGED <<actual, raw, shown, crossed>>

(* FFIManager.switch runs the commands one by one until one fails.  They   *)
(* need not bear on the status: there may be none.                         *)
Switched(c, enable) ==
    {actual[c]} \union IF actual[c] \notin Checkable THEN {}
                       ELSE {IF enable THEN "Capable" ELSE "Incapable"}

TakeOver(c) ==
    /\ actual[c] # None
    /\ shown' = [shown EXCEPT ![c] = box[c]] /\ UNCHANGED box
    /\ crossed' = IF box[c] = (actual'[c] = "Capable") THEN crossed ELSE crossed \union {c}

LeaveBox(c) == UNCHANGED <<box, shown>>
ResetBox(c) == box' = [box EXCEPT ![c] = shown[c]] /\ UNCHANGED shown

Toggle ==
    /\ toggling # None
    /\ LET c == toggling.cap
       IN  /\ \E s \in Switched(c, toggling.enable) : actual' = [actual EXCEPT ![c] = s]
           /\ \/ TakeOver(c)
              \/ /\ ResetBox(c)   \* VCD_INTERNAL_ERROR
                 /\ crossed' = IF actual' = actual THEN crossed ELSE crossed \union {c}
    /\ toggling' = None
    /\ UNCHANGED raw

(* ControlPanelWindow.refresh, by the timer.  Filling a row without a box  *)
(* takes its unset check state for a click if the box had been ticked: the *)
(* enable commands run, and a failure ticks the box again.                 *)
Mistaken == {c \in Capability : actual[c] = "N/A" /\ shown[c]}

RefreshBoxes ==
    /\ MayCall("panel")
    /\ actual # raw
    /\ raw' = actual /\ crossed' = {}
    /\ \E failed \in SUBSET Mistaken :
           /\ box' = [c \in Capability |-> c \in failed \/ actual[c] = "Capable"]
           /\ shown' = [c \in Capability |->
                            IF actual[c] \in Checkable THEN actual[c] = "Capable"
                            ELSE shown[c] /\ c \notin Mistaken \ failed]
    /\ UNCHANGED <<actual, toggling>>

(* The command line installs, uninstalls, enables and disables; and so may *)
(* the system itself.  Installing an archive makes the build directory.    *)
Elsewhere(c) ==
    /\ actual' \in {[actual EXCEPT ![c] = s] : s \in Status \union {None}} \ {actual}
    /\ temp' \in (IF actual'[c] # None THEN {temp, TRUE} ELSE {temp})
    /\ crossed' = IF toggling = None /\ box = Ticked(raw) THEN crossed ELSE crossed \union {c}
    /\ UNCHANGED <<raw, box, shown, toggling>>

------------------------------------------------------------------------------
CommandSteps ==
    /\ \E x \in Callers :
           \/ \E option \in {"start", "stop", "restart"} : Look(x, option) /\ UNCHANGED program
           \/ Start(x) \/ Stop(x) \/ Restart(x) \/ Raise(x)
    /\ UNCHANGED tabVars

TabSteps ==
    \/ /\ \/ \E c \in Capability : Click(c)
          \/ Toggle \/ RefreshBoxes
       /\ UNCHANGED <<program, daemonVars>>
    \/ /\ program = "panel"
       /\ \E c \in Capability : Elsewhere(c)
       /\ UNCHANGED <<program, proc, port, calls, job, label, wanted>>

------------------------------------------------------------------------------
(* Properties *)

ManagerTypeOK ==
    /\ program \in {"panel", "client", "ended"}
    /\ proc \in [Daemons -> {"none", "starting", "running", "dying", "ended"}]
    /\ port \in {d \in Daemons : proc[d] \in {"running", "dying"}} \union {0}
    /\ \A x \in Callers : job[x] # None => job[x].option \in {"start", "stop", "restart"}
    /\ calls \in 0..MaxCalls
    /\ actual \in [Capability -> Status \union {None}] /\ raw \in [Capability -> Status \union {None}]
    /\ box \in [Capability -> BOOLEAN] /\ shown \in [Capability -> BOOLEAN]
    /\ crossed \subseteq Capability

(* The boxes: a box that does not tell the status has a row that differs   *)
(* from it, so the timer fills the table again - whatever fails, is        *)
(* installed or is switched elsewhere, unless a toggle crossed another     *)
(* switch or had another effect than it reported.                          *)
StaleIsNoticed ==
    \A c \in Capability :
        toggling = None /\ raw[c] \in Checkable /\ box[c] # (actual[c] = "Capable")
            => raw[c] # actual[c] \/ c \in crossed

(* daemon('start'): when a start was reported clean and nobody stops the   *)
(* daemon, one listens in the end, also if the panel and the command line  *)
(* both saw none and start one each.                                       *)
StartedListens == wanted ~> (port # 0 \/ ~wanted)
==============================================================================
