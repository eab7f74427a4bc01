----------------------- MODULE CapabilityManagerProofs -----------------------
(***************************************************************************)
(* Proof of StaleIsNoticed: whatever the program, the daemon processes and *)
(* the command line do meanwhile, a box of the capability tab that does    *)
(* not tell the status is one the next refresh sets right.  Then the types *)
(* of CapabilityClient, whose steps are interleaved with those: which of   *)
(* the threads and processes of a connection can be at work in which phase *)
(* of the program, and what they have opened by then.  Last NamesReleased, *)
(* from an invariant that says whose names there can be in each phase.     *)
(***************************************************************************)
EXTENDS CapabilityClient, TLAPS

Click0 == [cap : Capability, enable : BOOLEAN]

BoxTypeOK ==
    /\ actual \in [Capability -> Status \union {None}]
    /\ raw \in [Capability -> Status \union {None}]
    /\ box \in [Capability -> BOOLEAN] /\ shown \in [Capability -> BOOLEAN]
    /\ toggling \in {None} \union Click0
    /\ crossed \subseteq Capability

(* Between clicks a box is in the state taken over last, and during one it *)
(* is in the other.                                                        *)
Clicked(c) == toggling # None /\ toggling.cap = c
BoxIsShown ==
    \A c \in Capability :
        raw[c] \in Checkable => IF Clicked(c) THEN box[c] = ~shown[c] ELSE box[c] = shown[c]

(* The state taken over last tells the status, or the row differs.         *)
ShownTells ==
    \A c \in Capability :
        raw[c] \in Checkable /\ shown[c] # (actual[c] = "Capable") => raw[c] # actual[c] \/ c \in crossed

BoxInv == BoxTypeOK /\ BoxIsShown /\ ShownTells

LEMMA InitBoxes == ManagerInit => BoxInv
  BY DEF ManagerInit, BoxInv, BoxTypeOK, BoxIsShown, ShownTells, Clicked, Ticked

(* A click starts from no other click. *)
LEMMA ClickKeeps ==
  ASSUME BoxInv, NEW c \in Capability, Click(c)
  PROVE  BoxInv'
<1> DEFINE e == actual[c] # "Capable"
<1>0. toggling = None /\ toggling' = [cap |-> c, enable |-> e]
  BY DEF Click, MayCall
<1>a. [cap |-> c, enable |-> e] \in Click0
  <2>1. e \in BOOLEAN
    OBVIOUS
  <2> HIDE DEF e
  <2> QED
    BY <2>1 DEF Click0
<1> HIDE DEF e
<1>1. toggling = None /\ toggling'.cap = c /\ toggling' # None /\ toggling' \in Click0
  BY <1>0, <1>a, ManagerAssumption DEF Click0
<1>2. box' = [box EXCEPT ![c] = ~@] /\ UNCHANGED <<actual, raw, shown, crossed>>
  BY DEF Click
<1>3. BoxTypeOK'
  BY <1>1, <1>2 DEF BoxInv, BoxTypeOK
<1>4. BoxIsShown'
  BY <1>1, <1>2 DEF BoxInv, BoxTypeOK, BoxIsShown, Clicked
<1>5. ShownTells'
  BY <1>2 DEF BoxInv, ShownTells
<1> QED
  BY <1>3, <1>4, <1>5 DEF BoxInv

(* The end of a click: the box is taken over or set back, and an effect    *)
(* that differs from what the box then shows is on record as crossed.      *)
LEMMA ToggleKeeps ==
  ASSUME BoxInv, Toggle
  PROVE  BoxInv'
<1> DEFINE c == toggling.cap
<1>1. c \in Capability /\ toggling # None /\ toggling' = None /\ raw' = raw
  BY DEF Toggle, BoxInv, BoxTypeOK, Click0
<1>2. PICK s \in Switched(c, toggling.enable) : actual' = [actual EXCEPT ![c] = s]
  BY DEF Toggle
<1>3. s \in Status \union {None}
  BY <1>1, <1>2 DEF Switched, Status, Checkable, BoxInv, BoxTypeOK
<1>4. /\ crossed' \in {crossed, crossed \union {c}}
      /\ \/ shown' = [shown EXCEPT ![c] = box[c]] /\ box' = box
         \/ box' = [box EXCEPT ![c] = shown[c]] /\ shown' = shown
  BY DEF Toggle, TakeOver, ResetBox
<1>5. BoxTypeOK'
  BY <1>1, <1>2, <1>3, <1>4 DEF BoxInv, BoxTypeOK
<1>6. BoxIsShown'
  BY <1>1, <1>4 DEF BoxInv, BoxTypeOK, BoxIsShown, Clicked
<1>7. ASSUME NEW d \in Capability, raw'[d] \in Checkable, shown'[d] # (actual'[d] = "Capable")
      PROVE  raw'[d] # actual'[d] \/ d \in crossed'
  <2>1. CASE d # c
    BY <1>1, <1>2, <1>4, <1>7, <2>1 DEF BoxInv, BoxTypeOK, ShownTells
  <2>2. CASE d = c /\ TakeOver(c)
    BY <1>1, <1>7, <2>2 DEF BoxInv, BoxTypeOK, TakeOver
  <2>3. CASE d = c /\ ResetBox(c) /\ crossed' = IF actual' = actual THEN crossed ELSE crossed \union {c}
    BY <1>1, <1>7, <2>3 DEF BoxInv, BoxTypeOK, ResetBox, ShownTells
  <2> QED
    BY <2>1, <2>2, <2>3 DEF Toggle
<1> QED
  BY <1>5, <1>6, <1>7 DEF BoxInv, ShownTells

(* The timer fills the rows; a box that is ticked by mistake has no status *)
(* to tell.                                                                *)
LEMMA RefreshKeeps ==
  ASSUME BoxInv, RefreshBoxes
  PROVE  BoxInv'
<1>1. PICK failed \in SUBSET Mistaken :
        /\ box' = [c \in Capability |-> c \in failed \/ actual[c] = "Capable"]
        /\ shown' = [c \in Capability |->
                         IF actual[c] \in Checkable THEN actual[c] = "Capable"
                         ELSE shown[c] /\ c \notin Mistaken \ failed]
  BY DEF RefreshBoxes
<1>2. toggling = None /\ UNCHANGED <<actual, toggling>> /\ raw' = actual /\ crossed' = {}
  BY DEF RefreshBoxes, MayCall
<1>3. \A c \in failed : actual[c] \notin Checkable
  BY <1>1 DEF Mistaken, Checkable
<1>4. BoxTypeOK'
  BY <1>1, <1>2 DEF BoxInv, BoxTypeOK
<1>5. BoxIsShown'
  BY <1>1, <1>2, <1>3 DEF BoxIsShown, Clicked
<1>6. ShownTells'
  BY <1>1, <1>2 DEF ShownTells
<1> QED
  BY <1>4, <1>5, <1>6 DEF BoxInv

(* A switch from elsewhere is on record as crossed, unless all boxes tell  *)
(* what is in the table.                                                   *)
LEMMA ElsewhereKeeps ==
  ASSUME BoxInv, NEW c \in Capability, Elsewhere(c)
  PROVE  BoxInv'
<1>1. PICK s \in Status \union {None} : actual' = [actual EXCEPT ![c] = s]
  BY DEF Elsewhere
<1>2. /\ UNCHANGED <<raw, box, shown, toggling>>
      /\ crossed' = IF toggling = None /\ box = Ticked(raw) THEN crossed ELSE crossed \union {c}
  BY DEF Elsewhere
<1>3. BoxTypeOK'
  BY <1>1, <1>2 DEF BoxInv, BoxTypeOK
<1>4. BoxIsShown'
  BY <1>2 DEF BoxInv, BoxIsShown, Clicked
<1>5. ASSUME NEW d \in Capability, raw'[d] \in Checkable, shown'[d] # (actual'[d] = "Capable")
      PROVE  raw'[d] # actual'[d] \/ d \in crossed'
  <2>1. CASE d # c
    BY <1>1, <1>2, <1>5, <2>1 DEF BoxInv, BoxTypeOK, ShownTells
  <2>2. CASE d = c /\ toggling = None /\ box = Ticked(raw)
    BY <1>2, <1>5, <2>2 DEF BoxInv, BoxIsShown, Clicked, Ticked
  <2>3. CASE d = c /\ ~(toggling = None /\ box = Ticked(raw))
    BY <1>2, <2>3
  <2> QED
    BY <2>1, <2>2, <2>3
<1> QED
  BY <1>3, <1>4, <1>5 DEF BoxInv, ShownTells

LEMMA BoxesKept == BoxInv /\ [Next]_allVars => BoxInv'
<1> SUFFICES ASSUME BoxInv, [Next]_allVars PROVE BoxInv'
  OBVIOUS
<1>1. ASSUME UNCHANGED tabVars PROVE BoxInv'
  BY <1>1 DEF tabVars, BoxInv, BoxTypeOK, BoxIsShown, ShownTells, Clicked
<1>2. CASE CommandSteps \/ \E d \in Daemons : Daemon(d)
  BY <1>1, <1>2 DEF CommandSteps, Daemon
<1>3. CASE TabSteps
  BY <1>3, ClickKeeps, ToggleKeeps, RefreshKeeps, ElsewhereKeeps DEF TabSteps
<1>4. CASE UNCHANGED managerVars
  BY <1>1, <1>4 DEF managerVars
<1>5. CASE UNCHANGED allVars
  BY <1>4, <1>5 DEF allVars
<1> QED
  BY <1>2, <1>3, <1>4, <1>5 DEF Next

(* The boxes: for any capabilities, however the panel's clicks, refreshes, *)
(* failures and switches from elsewhere follow each other, a box that does *)
(* not tell the status has a row that differs, or crossed another switch.  *)
THEOREM StaleBoxesNoticed == Spec => []StaleIsNoticed
<1>1. ClientInit => BoxInv
  BY InitBoxes DEF ClientInit
<1>2. BoxInv => StaleIsNoticed
  BY DEF BoxInv, BoxIsShown, ShownTells, StaleIsNoticed, Clicked
<1> QED
  BY <1>1, <1>2, BoxesKept, PTL DEF Spec

------------------------------------------------------------------------------
(***************************************************************************)
(* Types of the daemon processes, the program and its connections.  What   *)
(* the steps need beyond the types: a connection that has not started has  *)
(* no process yet, and one that reached a daemon has begun.                *)
(***************************************************************************)
ProcessTypeOK ==
    /\ program \in {"panel", "client", "ended"}
    /\ proc \in [Daemons -> {"none", "starting", "running", "dying", "ended"}]
    /\ port \in {d \in Daemons : proc[d] \in {"running", "dying"}} \union {0}
    /\ DOMAIN job = Callers
    /\ \A x \in Callers : job[x] # None => job[x].option \in {"start", "stop", "restart"}
    /\ calls \in 0..MaxCalls

Dialing == {"shm", "sem", "dial", "reply", "open shm", "open sem"}

ProgramOK ==
    /\ pc \in Dialing \union {"idle", "wait", "last", "close", "disconnect", "exited"}
    /\ link \in 0..MaxConnect /\ server \in 0..link /\ closed \in BOOLEAN
    /\ handles \in [Links -> SUBSET Names]

NamesOK == names \in [Names -> 0..link] /\ value \in [{"res", "req"} \X Links -> {0, 1}]

ClosingOK ==
    /\ unlink \in [{Self} \union Process2 -> {0, 1, 2}]
    /\ pc \in {"close", "disconnect"} <=> unlink[Self] # 0
    /\ client \in [Process2 -> {"none", "starting", "ready", "closing", "dead"}]
    /\ \A w \in Process2 : client[w] = "closing" <=> unlink[w] # 0
    /\ \A x \in {"send", "recv"}, g \in Links :
          (g > link \/ (pc \in Dialing /\ g = link)) => client[<<x, g>>] = "none"

ThreadsOK ==
    /\ by \in [Links -> 0..MaxDaemon]
    /\ \A g \in Links : by[g] # 0 => g <= link
    /\ accept \in [Links -> {"none", "accepted", "answered", "sent", "reset", "done"}]
    /\ send \in [Links -> {"none", "new", "shm", "ready", "waits", "ended"}]
    /\ recv \in [Links -> {"none", "new", "waits", "holds", "ended"}]
    /\ \A g \in Links : send[g] # "none" \/ recv[g] # "none" => by[g] # 0

OpenedOK ==
    /\ opened \in [{"res", "req"} \X Links -> 0..MaxConnect]
    /\ \A g \in Links : client[Receiver(g)] # "none" => opened[<<"res", g>>] \in Links
    /\ \A g \in Links : recv[g] \in {"waits", "holds"} => opened[<<"req", g>>] \in Links

ConnectionsOK == ProgramOK /\ NamesOK /\ ClosingOK /\ ThreadsOK /\ OpenedOK
ClientInv == BoxTypeOK /\ ProcessTypeOK /\ ConnectionsOK

LEMMA Lengths == Len(Order) = 2
  BY DEF Order

LEMMA Apart == /\ Self \notin Process2 /\ DOMAIN Order = {1, 2}
               /\ \A g \in Links : Sender(g) \in Process2 /\ Receiver(g) \in Process2 /\ Sender(g) # Receiver(g)
  BY DEF Self, Process2, Order, Sender, Receiver

LEMMA NameSet == Names = {"shm_res", "sem_res", "shm_req", "sem_req"}
  BY DEF Names, Order

LEMMA InvMeansTypes == ClientInv => ClientTypeOK
<1> SUFFICES ASSUME ClientInv PROVE ClientTypeOK
  OBVIOUS
<1>1. ManagerTypeOK
  BY DEF ClientInv, BoxTypeOK, ProcessTypeOK, ManagerTypeOK
<1>2. 0..Len(Order) = {0, 1, 2}
  BY Lengths
<1> QED
  BY <1>1, <1>2 DEF ClientInv, ConnectionsOK, ProgramOK, NamesOK, ClosingOK, ThreadsOK, OpenedOK, ClientTypeOK, Dialing

LEMMA InitTyped == ClientInit => ClientInv
<1> SUFFICES ASSUME ClientInit PROVE ClientInv
  OBVIOUS
<1> USE ManagerAssumption, ClientAssumption
<1>1. BoxTypeOK
  BY InitBoxes DEF ClientInit, BoxInv
<1>2. ProcessTypeOK
  BY DEF ClientInit, ManagerInit, ProcessTypeOK, Daemons, Callers
<1>3. ProgramOK
  <2>1. closed \in BOOLEAN
    BY Zenon DEF ClientInit
  <2> QED
    BY <2>1 DEF ClientInit, ProgramOK, Dialing
<1>4. NamesOK
  BY DEF ClientInit, NamesOK
<1>5. ClosingOK
  BY DEF ClientInit, ClosingOK, Process2, Dialing
<1>6. ThreadsOK
  BY DEF ClientInit, ThreadsOK
<1>7. OpenedOK
  BY DEF ClientInit, OpenedOK, Process2, Receiver
<1> QED
  BY <1>1, <1>2, <1>3, <1>4, <1>5, <1>6, <1>7 DEF ClientInv, ConnectionsOK

(* What a step leaves alone keeps its types. *)
LEMMA Untouched ==
  /\ ProgramOK /\ UNCHANGED programVars => ProgramOK'
  /\ NamesOK /\ UNCHANGED <<names, value, link>> => NamesOK'
  /\ ClosingOK /\ UNCHANGED <<pc, unlink, client, link>> => ClosingOK'
  /\ ThreadsOK /\ UNCHANGED <<serverVars, link>> => ThreadsOK'
  /\ OpenedOK /\ UNCHANGED <<opened, client, recv>> => OpenedOK'
<1>1. ProgramOK /\ UNCHANGED programVars => ProgramOK'
  BY DEF ProgramOK, programVars
<1>2. NamesOK /\ UNCHANGED <<names, value, link>> => NamesOK'
  BY DEF NamesOK
<1>3. ClosingOK /\ UNCHANGED <<pc, unlink, client, link>> => ClosingOK'
  BY DEF ClosingOK
<1>4. ThreadsOK /\ UNCHANGED <<serverVars, link>> => ThreadsOK'
  BY DEF ThreadsOK, serverVars
<1>5. OpenedOK /\ UNCHANGED <<opened, client, recv>> => OpenedOK'
  BY DEF OpenedOK
<1> QED
  BY <1>1, <1>2, <1>3, <1>4, <1>5

(* The daemon processes: only one that runs and is not ended has the port. *)
LEMMA CommandsTyped ==
  ASSUME ProcessTypeOK, CommandSteps
  PROVE  ProcessTypeOK'
<1> USE ManagerAssumption
<1>a. PICK x \in Callers : \/ \E option \in {"start", "stop", "restart"} : Look(x, option) /\ UNCHANGED program
                          \/ Start(x) \/ Stop(x) \/ Restart(x) \/ Raise(x)
  BY DEF CommandSteps
<1>b. ASSUME NEW d \in Daemons, Fresh(d),
             \/ proc' = [proc EXCEPT ![d] = Spawned]
             \/ proc' = [Signalled(job[x].seen) EXCEPT ![d] = Spawned],
             port' = port
      PROVE  /\ proc' \in [Daemons -> {"none", "starting", "running", "dying", "ended"}]
             /\ port' \in {e \in Daemons : proc'[e] \in {"running", "dying"}} \union {0}
  BY <1>b DEF ProcessTypeOK, Fresh, Spawned, Signalled
<1>c. ASSUME proc' \in {proc, Signalled(job[x].seen)}, port' = port
      PROVE  /\ proc' \in [Daemons -> {"none", "starting", "running", "dying", "ended"}]
             /\ port' \in {e \in Daemons : proc'[e] \in {"running", "dying"}} \union {0}
  BY <1>c DEF ProcessTypeOK, Signalled
<1>d. ASSUME job' = [job EXCEPT ![x] = None], calls' = calls
      PROVE  /\ DOMAIN job' = Callers /\ calls' \in 0..MaxCalls
             /\ \A y \in Callers : job'[y] # None => job'[y].option \in {"start", "stop", "restart"}
  BY <1>d DEF ProcessTypeOK
<1>1. ASSUME NEW option \in {"start", "stop", "restart"}, Look(x, option), UNCHANGED program
      PROVE  ProcessTypeOK'
  <2>1. PICK d \in Daemons \union {0} : job' = [job EXCEPT ![x] = [option |-> option, seen |-> d]]
    BY <1>1 DEF Look
  <2>2. /\ DOMAIN job' = Callers
        /\ \A y \in Callers : job'[y] # None => job'[y].option \in {"start", "stop", "restart"}
    BY <2>1 DEF ProcessTypeOK
  <2>3. calls' \in 0..MaxCalls /\ UNCHANGED <<program, proc, port>>
    BY <1>1 DEF Look, MayCall, ProcessTypeOK
  <2> QED
    BY <2>2, <2>3 DEF ProcessTypeOK
<1>2. CASE Start(x)
  <2>1. job' = [job EXCEPT ![x] = None] /\ UNCHANGED <<program, port, calls>>
    BY <1>2 DEF Start, Return
  <2>2. proc' = proc \/ \E d \in Daemons : Fresh(d) /\ proc' = [proc EXCEPT ![d] = Spawned]
    BY <1>2 DEF Start
  <2> QED
    BY <1>b, <1>c, <1>d, <2>1, <2>2 DEF ProcessTypeOK
<1>3. CASE Stop(x)
  <2>1. job' = [job EXCEPT ![x] = None] /\ UNCHANGED <<program, port, calls>>
    BY <1>3 DEF Stop, Return
  <2>2. proc' \in {proc, Signalled(job[x].seen)}
    BY <1>3 DEF Stop
  <2> QED
    BY <1>c, <1>d, <2>1, <2>2 DEF ProcessTypeOK
<1>4. CASE Restart(x)
  <2>1. job' = [job EXCEPT ![x] = None] /\ UNCHANGED <<program, port, calls>>
    BY <1>4 DEF Restart, Return
  <2>2. \E d \in Daemons : /\ Fresh(d)
                           /\ \/ proc' = [proc EXCEPT ![d] = Spawned]
                              \/ proc' = [Signalled(job[x].seen) EXCEPT ![d] = Spawned]
    BY <1>4 DEF Restart
  <2> QED
    BY <1>b, <1>d, <2>1, <2>2 DEF ProcessTypeOK
<1>5. CASE Raise(x)
  <2>1. job' = [job EXCEPT ![x] = None] /\ UNCHANGED <<port, calls>>
    BY <1>5 DEF Raise
  <2>2. proc' \in {proc, Signalled(job[x].seen)} /\ program' \in {"panel", "client", "ended"}
    BY <1>5 DEF Raise, ProcessTypeOK
  <2> QED
    BY <1>c, <1>d, <2>1, <2>2 DEF ProcessTypeOK
<1> QED
  BY <1>a, <1>1, <1>2, <1>3, <1>4, <1>5

LEMMA ProcessTyped ==
  ASSUME ProcessTypeOK, NEW d \in Daemons, Process(d)
  PROVE  ProcessTypeOK'
<1> USE ManagerAssumption
<1>0. UNCHANGED <<program, calls, job>> /\ 0 \notin Daemons
  BY DEF Process, Daemons
<1>1. CASE Bind(d)
  BY <1>0, <1>1 DEF Bind, ProcessTypeOK
<1>2. CASE Dies(d)
  BY <1>0, <1>2 DEF Dies, ProcessTypeOK
<1> QED
  BY <1>1, <1>2 DEF Process
------------------------------------------------------------------------------
(* The calls of the program *)

(* A call that goes on, and one that has to close first. *)
LEMMA GoesOn ==
  ASSUME ClosingOK, UNCHANGED <<unlink, client, link>>,
         pc \notin {"close", "disconnect"}, pc' \notin {"close", "disconnect"},
         pc' \in Dialing => pc \in Dialing
  PROVE  ClosingOK'
  BY DEF ClosingOK

LEMMA CloseTyped ==
  ASSUME ClosingOK, Close, UNCHANGED <<client, link>>
  PROVE  ClosingOK'
<1>1. pc' = "close" /\ pc' \notin Dialing
  BY DEF Close, Dialing
<1>2. unlink' = [unlink EXCEPT ![Self] = 1] /\ unlink'[Self] = 1
  BY DEF Close, ClosingOK
<1>3. \A w \in Process2 : unlink'[w] = unlink[w]
  BY <1>2, Apart DEF ClosingOK
<1> QED
  BY <1>1, <1>2, <1>3 DEF ClosingOK

(* A connection begins without processes and without a daemon. *)
LEMMA ConnectTyped ==
  ASSUME ConnectionsOK, Connect, UNCHANGED <<client, send, recv>>
  PROVE  ConnectionsOK'
<1> USE ClientAssumption DEF ConnectionsOK
<1>1. ProgramOK'
  BY DEF Connect, ProgramOK, Dialing
<1>2. NamesOK'
  BY DEF Connect, ProgramOK, NamesOK
<1>3. ClosingOK'
  BY Apart DEF Connect, ProgramOK, ClosingOK, Dialing, Links
<1>4. ThreadsOK'
  BY DEF Connect, ProgramOK, ThreadsOK, Links
<1>5. OpenedOK'
  BY Untouched DEF Connect
<1> QED
  BY <1>1, <1>2, <1>3, <1>4, <1>5

LEMMA RequestTyped ==
  ASSUME ConnectionsOK, Request, UNCHANGED <<client, send, recv>>
  PROVE  ConnectionsOK'
<1> USE ClientAssumption DEF ConnectionsOK
<1>1. ProgramOK'
  BY DEF Request, ProgramOK, Dialing
<1>2. NamesOK'
  BY Untouched DEF Request, serverVars
<1>3. ClosingOK'
  BY DEF Request, ClosingOK, Dialing
<1>4. ThreadsOK'
  BY Untouched DEF Request, serverVars
<1>5. OpenedOK'
  BY Untouched DEF Request, serverVars
<1> QED
  BY <1>1, <1>2, <1>3, <1>4, <1>5

LEMMA DisconnectTyped ==
  ASSUME ConnectionsOK, Disconnect, UNCHANGED <<send, recv>>
  PROVE  ConnectionsOK'
<1> USE ClientAssumption DEF ConnectionsOK
<1>1. ProgramOK'
  BY DEF Disconnect, ClosesSender, ProgramOK, Dialing
<1>2. NamesOK'
  BY Untouched DEF Disconnect, serverVars
<1>3. ClosingOK'
  BY Apart DEF Disconnect, ClosingOK, Dialing
<1>4. ThreadsOK'
  BY Untouched DEF Disconnect, serverVars
<1>5. OpenedOK'
  BY Untouched DEF Disconnect, serverVars
<1> QED
  BY <1>1, <1>2, <1>3, <1>4, <1>5

(* Every process that still runs starts to close. *)
LEMMA ExitTyped ==
  ASSUME ConnectionsOK, Exit, UNCHANGED <<send, recv>>
  PROVE  ConnectionsOK'
<1> USE ClientAssumption DEF ConnectionsOK
<1>1. ProgramOK'
  BY DEF Exit, ProgramOK, Dialing
<1>2. NamesOK'
  BY Untouched DEF Exit, serverVars
<1>3. ClosingOK'
  <2>1. /\ client' \in [Process2 -> {"none", "starting", "ready", "closing", "dead"}]
        /\ unlink' \in [{Self} \union Process2 -> {0, 1, 2}]
    BY DEF Exit, Running, ClosingOK
  <2>2. \A w \in Process2 : client'[w] = "closing" <=> unlink'[w] # 0
    BY Apart DEF Exit, Running, ClosingOK
  <2>3. pc' \notin {"close", "disconnect"} /\ unlink'[Self] = 0 /\ pc' \notin Dialing
    BY DEF Exit, ClosingOK, Dialing
  <2>4. \A w \in Process2 : client[w] = "none" => client'[w] = "none"
    BY DEF Exit, Running, ClosingOK
  <2>5. \A x \in {"send", "recv"}, g \in Links : <<x, g>> \in Process2
    BY DEF Process2
  <2>6. link' = link
    BY DEF Exit
  <2> QED
    BY <2>1, <2>2, <2>3, <2>4, <2>5, <2>6 DEF ClosingOK
<1>4. ThreadsOK'
  BY Untouched DEF Exit, serverVars
<1>5. OpenedOK'
  BY Apart DEF Exit, Running, ClosingOK, OpenedOK
<1> QED
  BY <1>1, <1>2, <1>3, <1>4, <1>5

LEMMA ExpireTyped ==
  ASSUME ConnectionsOK, Expire, UNCHANGED <<server, handles, closed, unlink, names, opened, accept, by, client, link, value, send, recv>>
  PROVE  ConnectionsOK'
<1> USE ClientAssumption DEF ConnectionsOK
<1>1. ProgramOK'
  BY DEF Expire, ProgramOK, Dialing
<1>2. NamesOK'
  BY Untouched DEF Expire, serverVars
<1>3. ClosingOK'
  BY DEF Expire, ClosingOK, Dialing
<1>4. ThreadsOK'
  BY Untouched DEF Expire, serverVars
<1>5. OpenedOK'
  BY Untouched DEF Expire, serverVars
<1> QED
  BY <1>1, <1>2, <1>3, <1>4, <1>5

LEMMA CreateTyped ==
  ASSUME ConnectionsOK, CreateShm \/ CreateSem, UNCHANGED <<server, closed, unlink, opened, accept, by, client, link, value, send, recv>>
  PROVE  ConnectionsOK'
<1> USE ClientAssumption DEF ConnectionsOK
<1>1. ProgramOK'
  <2>1. handles' \in [Links -> SUBSET Names]
    BY NameSet DEF CreateShm, CreateSem, ProgramOK
  <2>2. pc' \in {"idle", "sem", "dial"} /\ UNCHANGED <<link, server, closed>>
    BY DEF CreateShm, CreateSem
  <2> QED
    BY <2>1, <2>2 DEF ProgramOK, Dialing
<1>2. NamesOK'
  BY NameSet DEF CreateShm, CreateSem, ProgramOK, NamesOK
<1>3. ClosingOK'
  BY DEF CreateShm, CreateSem, ClosingOK, Dialing
<1>4. ThreadsOK'
  BY Untouched DEF serverVars
<1>5. OpenedOK'
  BY Untouched DEF serverVars
<1> QED
  BY <1>1, <1>2, <1>3, <1>4, <1>5

(* What a connection reaches is the daemon that has the port. *)
LEMMA DialTyped ==
  ASSUME ConnectionsOK, ProcessTypeOK, Dial, UNCHANGED <<server, handles, closed, names, opened, client, link, value, send, recv>>
  PROVE  ConnectionsOK'
<1> USE ClientAssumption DEF ConnectionsOK
<1>1. ProgramOK'
  BY DEF Dial, Close, ProgramOK, Dialing
<1>2. NamesOK'
  BY Untouched DEF serverVars
<1>3. ClosingOK'
  BY GoesOn, CloseTyped DEF Dial, Dialing
<1>4. ThreadsOK'
  BY ManagerAssumption DEF Dial, ProcessTypeOK, Daemons, ProgramOK, ThreadsOK, Links
<1>5. OpenedOK'
  BY Untouched DEF serverVars
<1> QED
  BY <1>1, <1>2, <1>3, <1>4, <1>5

LEMMA ReplyTyped ==
  ASSUME ConnectionsOK, Reply, UNCHANGED <<names, opened, accept, by, client, link, value, send, recv>>
  PROVE  ConnectionsOK'
<1> USE ClientAssumption DEF ConnectionsOK
<1>1. ProgramOK'
  <2>1. server' \in 0..link /\ closed' \in BOOLEAN
    <3>1. server' \in {server, link}
      BY DEF Reply
    <3>2. server' \in 0..link
      BY <3>1 DEF ProgramOK
    <3>3. closed \in BOOLEAN
      BY DEF ProgramOK
    <3> QED
      BY <3>2, <3>3, Zenon DEF Reply
  <2>2. handles' \in [Links -> SUBSET Names]
    BY DEF Reply, ProgramOK
  <2>3. pc' \in {"open shm", "close"} /\ link' = link
    BY DEF Reply, Close
  <2> QED
    BY <2>1, <2>2, <2>3 DEF ProgramOK, Dialing
<1>2. NamesOK'
  BY Untouched DEF serverVars
<1>3. ClosingOK'
  BY GoesOn, CloseTyped DEF Reply, Dialing
<1>4. ThreadsOK'
  BY Untouched DEF serverVars
<1>5. OpenedOK'
  BY Untouched DEF serverVars
<1> QED
  BY <1>1, <1>2, <1>3, <1>4, <1>5

LEMMA OpenShmTyped ==
  ASSUME ConnectionsOK, OpenShm, UNCHANGED <<server, closed, names, opened, accept, by, client, link, value, send, recv>>
  PROVE  ConnectionsOK'
<1> USE ClientAssumption DEF ConnectionsOK
<1>1. ProgramOK'
  BY NameSet DEF OpenShm, Close, ProgramOK, Dialing
<1>2. NamesOK'
  BY Untouched DEF serverVars
<1>3. ClosingOK'
  BY GoesOn, CloseTyped DEF OpenShm, Dialing
<1>4. ThreadsOK'
  BY Untouched DEF serverVars
<1>5. OpenedOK'
  BY Untouched DEF serverVars
<1> QED
  BY <1>1, <1>2, <1>3, <1>4, <1>5

(* The processes start, with a semaphore of some connection that has begun. *)
LEMMA OpenSemTyped ==
  ASSUME ConnectionsOK, OpenSem, UNCHANGED <<server, closed, names, accept, by, link, value, send, recv>>
  PROVE  ConnectionsOK'
<1> USE ClientAssumption DEF ConnectionsOK
<1>1. ProgramOK'
  BY NameSet DEF OpenSem, Close, ProgramOK, Dialing
<1>2. NamesOK'
  BY Untouched DEF serverVars
<1>3. ClosingOK'
  <2>1. CASE pc' = "close"
    BY <2>1, CloseTyped DEF OpenSem
  <2>2. CASE pc' = "last"
    <3>1. /\ UNCHANGED <<unlink, link>> /\ pc = "open sem"
          /\ client' = [client EXCEPT ![Sender(link)] = "starting", ![Receiver(link)] = "ready"]
      BY <2>2 DEF OpenSem, Close, Sender, Receiver
    <3>2. \A x \in {"send", "recv"}, g \in Links : g = link => client[<<x, g>>] = "none"
      BY <3>1 DEF ClosingOK, Dialing
    <3>3. /\ \A x \in {"send", "recv"}, g \in Links : <<x, g>> \in Process2
          /\ \A w \in Process2 : w \in {Sender(link), Receiver(link)} => client[w] = "none"
      BY <3>2 DEF Process2, Sender, Receiver
    <3>4. client' \in [Process2 -> {"none", "starting", "ready", "closing", "dead"}]
      BY <3>1 DEF ClosingOK
    <3>5. \A w \in Process2 : IF w \in {Sender(link), Receiver(link)}
                             THEN client[w] = "none" /\ client'[w] \in {"starting", "ready"}
                             ELSE client'[w] = client[w]
      BY <3>1, <3>3 DEF ClosingOK
    <3>7. \A w \in Process2 : client'[w] = "closing" <=> unlink'[w] # 0
      BY <3>1, <3>5 DEF ClosingOK
    <3>8. ASSUME NEW x \in {"send", "recv"}, NEW g \in Links, g > link
          PROVE  client'[<<x, g>>] = "none"
      <4>1. <<x, g>> \notin {Sender(link), Receiver(link)}
        BY <3>8 DEF Sender, Receiver, ProgramOK, Links
      <4> QED
        BY <3>3, <3>5, <3>8, <4>1 DEF ClosingOK
    <3>6. pc \notin {"close", "disconnect"} /\ pc' \notin {"close", "disconnect"} /\ pc' \notin Dialing
      BY <2>2, <3>1 DEF Dialing
    <3>9. /\ unlink' \in [{Self} \union Process2 -> {0, 1, 2}]
          /\ pc' \in {"close", "disconnect"} <=> unlink'[Self] # 0
      BY <3>1, <3>6 DEF ClosingOK
    <3>10. \A x \in {"send", "recv"}, g \in Links :
             (g > link' \/ (pc' \in Dialing /\ g = link')) => client'[<<x, g>>] = "none"
      BY <3>1, <3>6, <3>8
    <3> QED
      BY <3>4, <3>7, <3>9, <3>10, Zenon DEF ClosingOK
  <2> QED
    BY <2>1, <2>2 DEF OpenSem, Close
<1>4. ThreadsOK'
  BY Untouched DEF serverVars
<1>5. OpenedOK'
  <2>1. CASE pc' = "close"
    BY <2>1, Untouched DEF OpenSem
  <2>2. CASE pc' = "last"
    <3> DEFINE sem == names["sem_res"]
    <3>1. /\ opened' = [opened EXCEPT ![<<"res", link>>] = sem]
          /\ client' = [client EXCEPT ![Sender(link)] = "starting", ![Receiver(link)] = "ready"]
          /\ sem # 0 /\ recv' = recv
      BY <2>2 DEF OpenSem, Close, Sender, Receiver
    <3>2. sem \in Links /\ sem \in 0..MaxConnect
      BY <3>1, NameSet DEF NamesOK, ProgramOK, Links
    <3> HIDE DEF sem
    <3>3. opened' \in [{"res", "req"} \X Links -> 0..MaxConnect]
      BY <3>1, <3>2 DEF OpenedOK
    <3>4. ASSUME NEW g \in Links
          PROVE  /\ opened'[<<"res", g>>] = IF g = link THEN sem ELSE opened[<<"res", g>>]
                 /\ opened'[<<"req", g>>] = opened[<<"req", g>>]
      BY <3>1, <3>4 DEF OpenedOK
    <3>5. ASSUME NEW g \in Links, g # link
          PROVE  client'[Receiver(g)] = client[Receiver(g)]
      <4>1. Receiver(g) # Receiver(link) /\ Receiver(g) # Sender(link) /\ Receiver(g) \in Process2
        BY <3>5 DEF Receiver, Sender, Process2
      <4> QED
        BY <3>1, <4>1 DEF ClosingOK
    <3>6. \A g \in Links : client'[Receiver(g)] # "none" => opened'[<<"res", g>>] \in Links
      BY <3>2, <3>4, <3>5 DEF OpenedOK
    <3>7. \A g \in Links : recv'[g] \in {"waits", "holds"} => opened'[<<"req", g>>] \in Links
      BY <3>1, <3>4 DEF OpenedOK
    <3> QED
      BY <3>3, <3>6, <3>7 DEF OpenedOK
  <2> QED
    BY <2>1, <2>2 DEF OpenSem, Close
<1> QED
  BY <1>1, <1>2, <1>3, <1>4, <1>5

LEMMA LastTyped ==
  ASSUME ConnectionsOK, Last, UNCHANGED <<server, handles, names, opened, by, client, link, value, send, recv>>
  PROVE  ConnectionsOK'
<1> USE ClientAssumption DEF ConnectionsOK
<1>1. ProgramOK'
  BY DEF Last, Close, ClosesSender, ProgramOK, Dialing
<1>2. NamesOK'
  BY Untouched DEF serverVars
<1>3. ClosingOK'
  BY GoesOn, CloseTyped DEF Last, Dialing
<1>4. ThreadsOK'
  BY DEF Last, ThreadsOK
<1>5. OpenedOK'
  BY Untouched DEF serverVars
<1> QED
  BY <1>1, <1>2, <1>3, <1>4, <1>5

(* Unlinking goes from name to name and comes to an end. *)
LEMMA UnlinkTyped ==
  ASSUME NamesOK, ProgramOK, NEW w, NEW held, Unlink(w, held)
  PROVE  /\ names' \in [Names -> 0..link]
         /\ unlink' = [unlink EXCEPT ![w] = IF @ < 2 THEN @ + 1 ELSE 0]
  BY Lengths, ClientAssumption DEF NamesOK, ProgramOK, Unlink

LEMMA ProgramClosesTyped ==
  ASSUME ConnectionsOK, ProgramCloses, UNCHANGED <<server, closed, opened, by, client, link, value, send, recv>>
  PROVE  ConnectionsOK'
<1> USE ClientAssumption DEF ConnectionsOK
<1>1. ProgramOK'
  BY DEF ProgramCloses, ProgramOK, Dialing
<1>2. NamesOK'
  BY UnlinkTyped DEF ProgramCloses, NamesOK
<1>3. ClosingOK'
  <2>1. unlink' = [unlink EXCEPT ![Self] = IF @ < 2 THEN @ + 1 ELSE 0]
    BY UnlinkTyped DEF ProgramCloses
  <2>2. unlink'[Self] \in {0, 1, 2} /\ \A w \in Process2 : unlink'[w] = unlink[w]
    BY <2>1, Apart DEF ClosingOK
  <2>3. pc \in {"close", "disconnect"} /\ (unlink'[Self] # 0 => pc' = pc) /\ (unlink'[Self] = 0 => pc' = "idle")
    BY DEF ProgramCloses
  <2>4. pc' \notin Dialing
    BY <2>3 DEF Dialing
  <2> QED
    BY <2>1, <2>2, <2>3, <2>4 DEF ClosingOK
<1>4. ThreadsOK'
  BY DEF ProgramCloses, ThreadsOK
<1>5. OpenedOK'
  BY Untouched DEF serverVars
<1> QED
  BY <1>1, <1>2, <1>3, <1>4, <1>5

------------------------------------------------------------------------------
(* The processes and the daemon's threads *)

(* The step of one process keeps what the types say of the others. *)
LEMMA OneProcess ==
  ASSUME ClosingOK, OpenedOK, NEW w \in Process2, client[w] # "none",
         NEW v \in {"ready", "closing", "dead"}, NEW n \in {0, 1, 2}, v = "closing" <=> n # 0,
         client' = [client EXCEPT ![w] = v],
         unlink' = [unlink EXCEPT ![w] = n],
         UNCHANGED <<pc, link, opened, recv>>
  PROVE  ClosingOK' /\ OpenedOK'
<1>1. /\ client' \in [Process2 -> {"none", "starting", "ready", "closing", "dead"}]
      /\ unlink' \in [{Self} \union Process2 -> {0, 1, 2}]
  BY DEF ClosingOK
<1>2. unlink'[Self] = unlink[Self]
  BY Apart DEF ClosingOK
<1>3. \A u \in Process2 : /\ client'[u] = IF u = w THEN v ELSE client[u]
                         /\ unlink'[u] = IF u = w THEN n ELSE unlink[u]
  BY DEF ClosingOK
<1>4. \A x \in {"send", "recv"}, g \in Links : <<x, g>> \in Process2
  BY DEF Process2
<1>5. \A u \in Process2 : client'[u] = "none" <=> client[u] = "none"
  BY <1>3
<1>6. ClosingOK'
  BY <1>1, <1>2, <1>3, <1>4, <1>5 DEF ClosingOK
<1>7. OpenedOK'
  BY <1>4, <1>5 DEF OpenedOK, Receiver
<1> QED
  BY <1>6, <1>7

LEMMA ClientTyped ==
  ASSUME ConnectionsOK, NEW g \in Links, Client(g) \/ ClientTakes(g)
  PROVE  ConnectionsOK'
<1> USE DEF ConnectionsOK
<1>0. /\ UNCHANGED <<programVars, opened, serverVars>> /\ UNCHANGED <<pc, link, opened, recv>>
      /\ Sender(g) \in Process2 /\ Receiver(g) \in Process2 /\ \A w \in Process2 : unlink[w] \in {0, 1, 2}
  BY Apart DEF Client, ClientTakes, programVars, serverVars, ClosingOK
<1>1. ProgramOK' /\ ThreadsOK'
  BY <1>0, Untouched DEF programVars
<1>2. CASE Releases(g)
  <2>1. /\ client' = [client EXCEPT ![Sender(g)] = "ready"] /\ client[Sender(g)] = "starting"
        /\ value' = [value EXCEPT ![<<"req", g>>] = 1] /\ UNCHANGED <<unlink, names>>
    BY <1>2 DEF Releases
  <2>2. unlink[Sender(g)] = 0
    BY <1>0, <2>1 DEF ClosingOK
  <2>3. unlink' = [unlink EXCEPT ![Sender(g)] = 0]
    BY <1>0, <2>1, <2>2 DEF ClosingOK
  <2>4. ClosingOK' /\ OpenedOK'
    BY <1>0, <2>1, <2>3, OneProcess
  <2>5. NamesOK'
    BY <1>0, <2>1 DEF NamesOK
  <2> QED
    BY <1>1, <2>4, <2>5
<1>3. ASSUME NEW w \in {Sender(g), Receiver(g)}, client[w] = "ready", Dying(w), UNCHANGED names,
             NEW r, value' = [value EXCEPT ![r] = 0]
      PROVE  ConnectionsOK'
  <2>1. ClosingOK' /\ OpenedOK'
    <3>1. /\ w \in Process2 /\ client[w] # "none" /\ "closing" \in {"ready", "closing", "dead"}
          /\ 1 \in {0, 1, 2} /\ ("closing" = "closing" <=> 1 # 0)
      BY <1>0, <1>3
    <3>2. client' = [client EXCEPT ![w] = "closing"] /\ unlink' = [unlink EXCEPT ![w] = 1]
      BY <1>3 DEF Dying
    <3> QED
      BY <1>0, <3>1, <3>2, OneProcess, Zenon
  <2>2. NamesOK'
    BY <1>0, <1>3 DEF NamesOK
  <2> QED
    BY <1>1, <2>1, <2>2
<1>4. ASSUME NEW w \in {Sender(g), Receiver(g)}, ProcessCloses(w)
      PROVE  ConnectionsOK'
  <2> DEFINE n == IF unlink[w] < 2 THEN unlink[w] + 1 ELSE 0
  <2>1. /\ names' \in [Names -> 0..link] /\ unlink' = [unlink EXCEPT ![w] = n]
        /\ client' = [client EXCEPT ![w] = IF unlink'[w] = 0 THEN "dead" ELSE @]
        /\ client[w] = "closing" /\ value' = value
    BY <1>4, UnlinkTyped DEF ProcessCloses
  <2>2. n \in {0, 1, 2} /\ w \in Process2
    BY <1>0
  <2> HIDE DEF n
  <2>3. unlink'[w] = n
    BY <2>1, <2>2 DEF ClosingOK
  <2>4. client' = [client EXCEPT ![w] = IF n = 0 THEN "dead" ELSE "closing"]
    BY <2>1, <2>2, <2>3 DEF ClosingOK
  <2>5. ClosingOK' /\ OpenedOK'
    BY <1>0, <2>1, <2>2, <2>4, OneProcess
  <2>6. NamesOK'
    BY <1>0, <2>1 DEF NamesOK
  <2> QED
    BY <1>1, <2>5, <2>6
<1> QED
  BY <1>2, <1>3, <1>4 DEF Client, ClientTakes, SenderTakes, ReceiverTakes

(* A thread takes a name for a connection that has begun.                  *)
LEMMA ServerTyped ==
  ASSUME ConnectionsOK, NEW g \in Links, Server(g)
  PROVE  ConnectionsOK'
<1> USE ClientAssumption DEF ConnectionsOK
<1>0. /\ UNCHANGED <<programVars, unlink, client, by>> /\ UNCHANGED <<pc, link>> /\ by[g] # 0
      /\ g \in 0..link /\ 0 \in 0..link
  BY DEF Server, Serving, programVars, ThreadsOK, ProgramOK, Links
<1>1. ProgramOK' /\ ClosingOK'
  BY <1>0, Untouched DEF programVars
<1>2. NamesOK'
  <2>1. CASE Answer(g) \/ Third(g)
    BY <1>0, <2>1, Untouched DEF Answer, Third
  <2>2. CASE CreatesShm(g)
    BY <1>0, <2>2, NameSet DEF CreatesShm, NamesOK
  <2>3. CASE CreatesSem(g)
    BY <1>0, <2>3, NameSet DEF CreatesSem, NamesOK
  <2>4. CASE SendTakes(g)
    BY <1>0, <2>4, NameSet DEF SendTakes, Ends, NamesOK
  <2>5. CASE SendEnds(g)
    BY <1>0, <2>5, NameSet DEF SendEnds, Ends, NamesOK
  <2>6. CASE RecvOpens(g)
    BY <1>0, <2>6, Untouched DEF RecvOpens
  <2>7. CASE RecvTakes(g)
    BY <1>0, <2>7, NameSet DEF RecvTakes, NamesOK
  <2>8. CASE GivesBack(g)
    BY <1>0, <2>8 DEF GivesBack, NamesOK
  <2> QED
    BY <2>1, <2>2, <2>3, <2>4, <2>5, <2>6, <2>7, <2>8 DEF Server
<1>3. /\ send' = send \/ \E v \in {"new", "shm", "ready", "waits", "ended"} : send' = [send EXCEPT ![g] = v]
      /\ recv' = recv \/ \E v \in {"new", "waits", "holds", "ended"} : recv' = [recv EXCEPT ![g] = v]
      /\ accept' = accept \/ \E v \in {"answered", "done"} : accept' = [accept EXCEPT ![g] = v]
  <2>1. CASE Answer(g) \/ Third(g)
    BY <2>1 DEF Answer, Third
  <2>2. CASE (CreatesShm(g) \/ CreatesSem(g) \/ SendTakes(g) \/ SendEnds(g)) /\ UNCHANGED <<opened, recv, accept>>
    BY <2>2 DEF CreatesShm, CreatesSem, SendTakes, SendEnds, Ends
  <2>3. CASE (RecvOpens(g) \/ RecvTakes(g) \/ GivesBack(g)) /\ UNCHANGED <<send, accept>>
    BY <2>3 DEF RecvOpens, RecvTakes, GivesBack
  <2> QED
    BY <2>1, <2>2, <2>3 DEF Server
<1>4. ThreadsOK'
  BY <1>0, <1>3 DEF ThreadsOK
<1>5. ASSUME UNCHANGED opened, recv' = recv \/ \E v \in {"new", "ended"} : recv' = [recv EXCEPT ![g] = v]
      PROVE  OpenedOK'
  BY <1>0, <1>5 DEF OpenedOK, ThreadsOK
<1>6. CASE RecvOpens(g) /\ names["sem_req"] # 0
  <2> DEFINE sem == names["sem_req"]
  <2>1. opened' = [opened EXCEPT ![<<"req", g>>] = sem] /\ recv' = [recv EXCEPT ![g] = "waits"]
    BY <1>6 DEF RecvOpens
  <2>2. sem \in Links /\ sem \in 0..MaxConnect
    BY <1>6, NameSet DEF NamesOK, ProgramOK, Links
  <2> HIDE DEF sem
  <2>3. opened' \in [{"res", "req"} \X Links -> 0..MaxConnect]
    BY <2>1, <2>2 DEF OpenedOK
  <2>4. ASSUME NEW h \in Links, client'[Receiver(h)] # "none"
        PROVE  opened'[<<"res", h>>] \in Links
    <3>1. opened'[<<"res", h>>] = opened[<<"res", h>>]
      BY <2>1 DEF OpenedOK
    <3>2. client[Receiver(h)] # "none" => opened[<<"res", h>>] \in Links
      BY DEF OpenedOK
    <3> QED
      BY <1>0, <2>4, <3>1, <3>2
  <2>5. ASSUME NEW h \in Links, recv'[h] \in {"waits", "holds"}
        PROVE  opened'[<<"req", h>>] \in Links
    <3>1. opened'[<<"req", h>>] = IF h = g THEN sem ELSE opened[<<"req", h>>]
      BY <2>1 DEF OpenedOK
    <3>2. h # g => recv'[h] = recv[h]
      BY <2>1 DEF ThreadsOK
    <3>3. recv[h] \in {"waits", "holds"} => opened[<<"req", h>>] \in Links
      BY DEF OpenedOK
    <3> QED
      BY <2>2, <2>5, <3>1, <3>2, <3>3
  <2> QED
    BY <1>1, <1>2, <1>4, <2>3, <2>4, <2>5 DEF OpenedOK
<1>7. CASE recv[g] \in {"waits", "holds"} /\ UNCHANGED opened
  <2>1. OpenedOK'
    BY <1>0, <1>3, <1>7 DEF OpenedOK, ThreadsOK
  <2> QED
    BY <1>1, <1>2, <1>4, <2>1
<1>8. \/ UNCHANGED opened /\ (recv' = recv \/ \E v \in {"new", "ended"} : recv' = [recv EXCEPT ![g] = v])
      \/ RecvOpens(g) /\ names["sem_req"] # 0
      \/ recv[g] \in {"waits", "holds"} /\ UNCHANGED opened
  BY DEF Server, Answer, Third, RecvOpens, RecvTakes, GivesBack
<1> QED
  BY <1>1, <1>2, <1>4, <1>5, <1>6, <1>7, <1>8

(* The threads of a process that has ended belonged to connections.        *)
LEMMA DaemonTyped ==
  ASSUME ConnectionsOK, NEW d \in Daemons, Daemon(d)
  PROVE  ConnectionsOK'
<1> USE DEF ConnectionsOK
<1>0. /\ UNCHANGED <<programVars, unlink, client, names, value, opened, by, accept>> /\ UNCHANGED <<pc, link>>
      /\ 0 \notin Daemons
  BY DEF Daemon, programVars, Daemons
<1>1. PICK gone \in SUBSET Links :
        /\ \A g \in gone : by[g] = d
        /\ send' = [g \in Links |-> IF g \in gone THEN "ended" ELSE send[g]]
        /\ recv' = [g \in Links |-> IF g \in gone THEN "ended" ELSE recv[g]]
  BY DEF Daemon
<1>2. ProgramOK' /\ NamesOK' /\ ClosingOK'
  BY <1>0, Untouched DEF programVars
<1>3. ThreadsOK'
  BY <1>0, <1>1 DEF ThreadsOK
<1>4. OpenedOK'
  BY <1>0, <1>1 DEF OpenedOK
<1> QED
  BY <1>2, <1>3, <1>4

------------------------------------------------------------------------------
LEMMA ProgramTyped ==
  ASSUME ConnectionsOK, ProcessTypeOK, Program
  PROVE  ConnectionsOK'
<1>0. UNCHANGED <<send, recv>>
  BY DEF Program
<1>1. CASE (Connect \/ Request) /\ UNCHANGED client
  BY <1>0, <1>1, ConnectTyped, RequestTyped
<1>2. CASE Disconnect \/ Exit
  BY <1>0, <1>2, DisconnectTyped, ExitTyped
<1>3. CASE Continue /\ UNCHANGED <<link, value>>
  BY <1>0, <1>3, ExpireTyped, CreateTyped, DialTyped, ReplyTyped, OpenShmTyped, OpenSemTyped,
     LastTyped, ProgramClosesTyped, Zenon DEF Continue
<1> QED
  BY <1>1, <1>2, <1>3 DEF Program

LEMMA ClientInvInductive == BoxInv /\ ClientInv /\ [Next]_allVars => ClientInv'
<1> SUFFICES ASSUME BoxInv, ClientInv, [Next]_allVars PROVE ClientInv'
  OBVIOUS
<1>0. BoxTypeOK'
  BY BoxesKept DEF BoxInv
<1>1. ASSUME UNCHANGED clientVars PROVE ConnectionsOK'
  BY <1>1, Untouched DEF ClientInv, ConnectionsOK, clientVars, programVars, serverVars
<1>2. ASSUME UNCHANGED <<program, proc, port, job, calls>> PROVE ProcessTypeOK'
  BY <1>2 DEF ClientInv, ProcessTypeOK
<1>3. CASE \E d \in Daemons : Daemon(d)
  BY <1>0, <1>3, DaemonTyped, ProcessTyped DEF Daemon, ClientInv
<1>4. CASE CommandSteps /\ UNCHANGED clientVars
  BY <1>0, <1>1, <1>4, CommandsTyped DEF ClientInv
<1>5. CASE TabSteps /\ UNCHANGED clientVars
  BY <1>0, <1>1, <1>2, <1>5 DEF TabSteps, daemonVars, ClientInv
<1>6. CASE UNCHANGED managerVars /\ (Program \/ \E g \in Links : Client(g) \/ ClientTakes(g) \/ Server(g))
  <2>1. ProcessTypeOK'
    BY <1>2, <1>6 DEF managerVars, daemonVars
  <2>2. ConnectionsOK'
    BY <1>6, ProgramTyped, ClientTyped, ServerTyped DEF ClientInv
  <2> QED
    BY <1>0, <2>1, <2>2 DEF ClientInv
<1>7. CASE UNCHANGED allVars
  BY <1>0, <1>1, <1>2, <1>7 DEF allVars, managerVars, daemonVars, ClientInv
<1> QED
  BY <1>3, <1>4, <1>5, <1>6, <1>7 DEF Next

(* CapabilityLibrary and the daemon: for any number of daemon processes,   *)
(* commands and connections, a process of the program closes exactly while *)
(* it has names to unlink, a thread of the server belongs to a daemon that *)
(* was reached, a name stands for a connection that has begun, and no      *)
(* semaphore is taken by a process or a thread that has not opened one.    *)
THEOREM ClientTypeCorrect == Spec => []ClientTypeOK
<1>1. ClientInit => BoxInv /\ ClientInv
  BY InitBoxes, InitTyped DEF ClientInit
<1> QED
  BY <1>1, BoxesKept, ClientInvInductive, InvMeansTypes, PTL DEF Spec
------------------------------------------------------------------------------
(***************************************************************************)
(* The names.  As long as no daemon was terminated under a connection, a   *)
(* connection is begun when all names are free: the one before has a dead  *)
(* process, which has unlinked them, and its thread in the server, which   *)
(* made two of them, cannot make them again.  So what is not free belongs  *)
(* to the connection begun last.                                           *)
(***************************************************************************)
ResFree == names["shm_res"] = 0 /\ names["sem_res"] = 0
ReqFree == names["shm_req"] = 0 /\ names["sem_req"] = 0
Over(g) == Started(g) /\ ~BothAlive(g)
HalfClosed(g) == \E x \in {"send", "recv"} : client[<<x, g>>] = "closing" /\ unlink[<<x, g>>] = 2

(* How far the send thread of a connection has got with its names.         *)
Made(g) ==
    /\ send[g] \in {"none", "new", "ended"} => ResFree
    /\ send[g] = "shm" => names["sem_res"] = 0
    /\ send[g] = "ready" => value[<<"res", g>>] = 1
    /\ names["sem_res"] \in {0, g}

(* A connection that reached a daemon has started its processes, and so    *)
(* has its thread all it makes, or it is the last one.                     *)
Past(g) == send[g] \notin {"new", "shm"} /\ accept[g] # "accepted"
ReachedOK ==
    /\ \A g \in Links : accept[g] # "none" => by[g] # 0
    /\ \A g \in Links : g # link \/ Started(g) => Past(g)
    /\ \A g \in Links : Started(g) => opened[<<"res", g>>] = g
    /\ link # 0 /\ server # link /\ pc # "reply" => by[link] = 0
    /\ server # link => server = 0 \/ Over(server)
    /\ pc = "exited" => \A w \in Process2 : ~Running(w)

HeldOK ==
    /\ pc = "sem" => "shm_req" \in handles[link]
    /\ pc \in {"dial", "reply", "open shm", "open sem", "close"} => {"shm_req", "sem_req"} \subseteq handles[link]

BeginsOK ==
    pc \in {"shm", "sem", "dial"} =>
        /\ server # link /\ ResFree
        /\ pc = "shm" => ReqFree
        /\ pc = "sem" => names["sem_req"] = 0

Opens == send[link] # "none" /\ recv[link] = "none" /\ accept[link] = "answered" /\ Made(link)
OpensOK ==
    /\ pc = "reply" =>
           /\ server # link /\ by[link] # 0 /\ Made(link) /\ recv[link] = "none"
           /\ accept[link] \in {"accepted", "answered"} /\ (accept[link] = "accepted" <=> send[link] = "none")
    /\ pc \in {"open shm", "open sem"} => server = link /\ Opens
    /\ pc = "close" => IF server = link THEN ~Started(link) /\ Opens ELSE ResFree

(* A connection that was given up: nobody has its req names, and its       *)
(* threads come to their end by themselves.                                *)
GivenUp ==
    /\ server = link /\ ReqFree /\ Made(link)
    /\ accept[link] \in {"sent", "reset", "done"} /\ send[link] # "none"
    /\ recv[link] \in {"none", "new", "ended"} /\ (accept[link] = "done" => recv[link] # "none")
RestsOK ==
    pc \notin Dialing \union {"close"} =>
        /\ server = 0 \/ Over(server) => ResFree /\ ReqFree
        /\ Started(server) /\ HalfClosed(server) => ResFree
        /\ server # 0 /\ ~Started(server) => GivenUp
        /\ pc = "last" => server = link /\ by[link] # 0
        /\ pc \in {"last", "wait", "disconnect"} => Started(server)

Owned == ReachedOK /\ HeldOK /\ BeginsOK /\ OpensOK /\ RestsOK

(* A daemon that was reached has been started, and does not come back.     *)
DaemonsMet ==
    /\ \A g \in Links : by[g] # 0 => proc[by[g]] # "none"
    /\ pc \in {"shm", "sem", "dial"} => by[link] = 0
(* The call of a connection goes on in one that has begun.                 *)
BegunOK == pc \in Dialing \union {"last", "close"} => link # 0

(* The two processes of a connection are started together.                 *)
PairedOK == \A g \in Links : client[Receiver(g)] # "none" => Started(g)
OwnedInv == DaemonsMet /\ BegunOK /\ PairedOK /\ (~Cut => Owned)

LEMMA InitOwned == ClientInit => OwnedInv
  BY ClientAssumption DEF ClientInit, OwnedInv, DaemonsMet, BegunOK, PairedOK, Receiver, Owned, ReachedOK, HeldOK,
     BeginsOK, OpensOK, RestsOK, Started,
     Over, Past, ResFree, ReqFree, Names, Order, Links, Process2, Running, Dialing

------------------------------------------------------------------------------
(* Daemons *)

LEMMA DaemonsGoOn ==
  ASSUME ProcessTypeOK, CommandSteps
  PROVE  \A d \in Daemons : proc[d] # "none" => proc'[d] # "none" /\ (proc[d] = "ended" => proc'[d] = "ended")
<1>1. PICK x \in Callers : \/ \E option \in {"start", "stop", "restart"} : Look(x, option) /\ UNCHANGED program
                           \/ Start(x) \/ Stop(x) \/ Restart(x) \/ Raise(x)
  BY DEF CommandSteps
<1>2. \/ proc' \in {proc, Signalled(job[x].seen)}
      \/ \E d \in Daemons : Fresh(d) /\ proc' \in {[proc EXCEPT ![d] = Spawned], [Signalled(job[x].seen) EXCEPT ![d] = Spawned]}
  BY <1>1 DEF Look, Start, Stop, Restart, Raise
<1> QED
  BY <1>2 DEF ProcessTypeOK, Signalled, Fresh, Spawned

LEMMA StaysCut ==
  ASSUME ClientInv, DaemonsMet, [Next]_allVars
  PROVE  DaemonsMet' /\ (~Cut' => ~Cut)
<1> USE ManagerAssumption, ClientAssumption DEF ClientInv, ConnectionsOK
<1>0. by \in [Links -> {0} \union Daemons] /\ 0 \notin Daemons
  BY DEF ThreadsOK, Daemons
<1>1. \A d \in Daemons : proc[d] # "none" => proc'[d] # "none" /\ (proc[d] = "ended" => proc'[d] = "ended")
  <2>1. ASSUME NEW d \in Daemons, Process(d)
        PROVE  \A e \in Daemons : proc[e] # "none" => proc'[e] # "none" /\ (proc[e] = "ended" => proc'[e] = "ended")
    BY <2>1 DEF Process, Bind, Dies, ProcessTypeOK
  <2>2. UNCHANGED proc \/ (\E d \in Daemons : Process(d)) \/ CommandSteps
    BY DEF Next, Daemon, TabSteps, managerVars, daemonVars, allVars
  <2> QED
    BY <2>1, <2>2, DaemonsGoOn
<1>2. ASSUME UNCHANGED by, pc' \in {"shm", "sem", "dial"} => by[link'] = 0
      PROVE  DaemonsMet' /\ (~Cut' => ~Cut)
  <2>1. \A g \in Links : by'[g] = by[g] /\ by[g] \in {0} \union Daemons
    BY <1>0, <1>2
  <2>2. DaemonsMet'
    BY <1>1, <1>2, <2>1 DEF DaemonsMet
  <2>3. Cut => Cut'
    <3>1. SUFFICES ASSUME NEW g \in Links, by[g] # 0, ~Alive(by[g]) PROVE Cut'
      BY DEF Cut
    <3>2. proc[by[g]] = "ended"
      BY <2>1, <3>1 DEF DaemonsMet, Alive, ProcessTypeOK
    <3>3. proc'[by'[g]] = "ended" /\ by'[g] # 0
      BY <1>1, <2>1, <3>1, <3>2
    <3> QED
      BY <3>3 DEF Cut, Alive
  <2> QED
    BY <2>2, <2>3
<1>3. ASSUME UNCHANGED by, UNCHANGED <<pc, link>> PROVE DaemonsMet' /\ (~Cut' => ~Cut)
  BY <1>2, <1>3 DEF DaemonsMet
<1>4. CASE Program /\ UNCHANGED managerVars
  <2>1. CASE Connect
    <3>1. link' = link + 1 /\ link \in 0..MaxConnect /\ link < MaxConnect /\ UNCHANGED by
      BY <2>1 DEF Connect, ProgramOK
    <3>2. link' \in Links /\ ~(link' <= link)
      BY <3>1 DEF Links
    <3> QED
      BY <1>2, <3>1, <3>2 DEF ThreadsOK
  <2>2. CASE Request \/ Disconnect \/ Exit
    BY <1>2, <2>2 DEF Request, Disconnect, Exit
  <2>3. CASE Continue /\ UNCHANGED <<link, value>> /\ ~(Dial /\ port # 0)
    <3>1. UNCHANGED by /\ (pc' \in {"shm", "sem", "dial"} => pc \in {"shm", "sem", "dial"})
      BY <2>3 DEF Continue, Expire, CreateShm, CreateSem, Dial, Reply, OpenShm, OpenSem, Last, ProgramCloses, Close
    <3> QED
      BY <1>2, <2>3, <3>1 DEF DaemonsMet
  <2>4. CASE Dial /\ port # 0 /\ UNCHANGED link
    <3>1. /\ by' = [by EXCEPT ![link] = port] /\ pc' = "reply" /\ by[link] = 0 /\ UNCHANGED proc
          /\ port \in Daemons /\ proc[port] \in {"running", "dying"}
      BY <1>4, <2>4 DEF Dial, DaemonsMet, managerVars, daemonVars, ProcessTypeOK
    <3>2. \A g \in Links : by[g] # 0 => by'[g] = by[g]
      BY <1>0, <3>1
    <3>3. \A g \in Links : by'[g] = by[g] \/ by'[g] = port
      BY <1>0, <3>1
    <3>4. DaemonsMet'
      BY <3>1, <3>3 DEF DaemonsMet
    <3>5. Cut => Cut'
      BY <3>1, <3>2 DEF Cut, Alive
    <3> QED
      BY <3>4, <3>5
  <2> QED
    BY <1>4, <2>1, <2>2, <2>3, <2>4 DEF Program
<1>5. (Program /\ UNCHANGED managerVars) \/ UNCHANGED <<by, pc, link>>
  BY DEF Next, Daemon, Client, ClientTakes, Server, allVars, clientVars, programVars, serverVars
<1> QED
  BY <1>3, <1>4, <1>5

LEMMA Begun ==
  ASSUME ConnectionsOK, BegunOK, [Next]_allVars
  PROVE  BegunOK'
<1>1. CASE Program
  <2>1. CASE Connect
    <3>1. link' = link + 1 /\ link \in 0..MaxConnect
      BY <2>1 DEF Connect, ConnectionsOK, ProgramOK
    <3> QED
      BY <3>1, ClientAssumption DEF BegunOK
  <2>2. CASE Request \/ Disconnect \/ Exit
    BY <2>2 DEF Request, Disconnect, Exit, BegunOK, Dialing
  <2>3. CASE Continue /\ UNCHANGED link
    BY <2>3 DEF Continue, Expire, CreateShm, CreateSem, Dial, Reply, OpenShm, OpenSem, Last, ProgramCloses, Close,
       BegunOK, Dialing
  <2> QED
    BY <1>1, <2>1, <2>2, <2>3 DEF Program
<1>2. CASE UNCHANGED <<pc, link>>
  BY <1>2 DEF BegunOK
<1> QED
  BY <1>1, <1>2 DEF Next, Daemon, Client, ClientTakes, Server, allVars, clientVars, programVars, serverVars

LEMMA LinkIn == ProgramOK /\ BegunOK /\ pc \in Dialing \union {"last", "close"} => link \in Links
  BY ClientAssumption DEF ProgramOK, BegunOK, Links

LEMMA Paired ==
  ASSUME ConnectionsOK, PairedOK, [Next]_allVars
  PROVE  PairedOK'
<1> USE DEF ConnectionsOK
<1>1. CASE \A w \in Process2 : client'[w] = "none" <=> client[w] = "none"
  BY <1>1, Apart, ClientAssumption DEF PairedOK, Started, Sender, Links
<1>2. CASE client' = [client EXCEPT ![<<"send", link>>] = "starting", ![<<"recv", link>>] = "ready"] /\ link' = link
  <2>1. SUFFICES ASSUME NEW g \in Links, client'[Receiver(g)] # "none" PROVE Started(g)'
    BY DEF PairedOK
  <2>2. <<"send", g>> \in Process2 /\ <<"recv", g>> \in Process2 /\ g # 0
    BY ClientAssumption DEF Process2, Links
  <2>3. CASE g = link
    BY <1>2, <2>2, <2>3 DEF Started, ClosingOK
  <2>4. CASE g # link
    <3>1. client'[<<"recv", g>>] = client[<<"recv", g>>] /\ client'[<<"send", g>>] = client[<<"send", g>>]
      BY <1>2, <2>2, <2>4 DEF ClosingOK
    <3> QED
      BY <2>1, <3>1 DEF PairedOK, Started, Receiver
  <2> QED
    BY <2>3, <2>4
<1>3. ASSUME NEW w \in Process2, client' = [client EXCEPT ![w] = client'[w]],
             client[w] # "none", client'[w] # "none"
      PROVE  PairedOK'
  BY <1>1, <1>3 DEF ClosingOK
<1>4. CASE Program
  <2>1. CASE Exit
    <3>1. \A w \in Process2 : client'[w] = IF Running(w) THEN "closing" ELSE client[w]
      BY <2>1 DEF Exit
    <3> QED
      BY <1>1, <3>1 DEF Running
  <2>2. CASE OpenSem /\ UNCHANGED link
    BY <1>1, <1>2, <2>2 DEF OpenSem
  <2>3. CASE UNCHANGED client
    BY <1>1, <2>3
  <2> QED
    BY <1>4, <2>1, <2>2, <2>3 DEF Program, Continue, Disconnect
<1>5. CASE \E g \in Links : Client(g) \/ ClientTakes(g)
  <2>1. PICK g \in Links : Client(g) \/ ClientTakes(g)
    BY <1>5
  <2>2. Sender(g) \in Process2 /\ Receiver(g) \in Process2
    BY Apart
  <2>3. CASE Releases(g) \/ SenderTakes(g) \/ ReceiverTakes(g)
    BY <1>3, <2>2, <2>3 DEF Releases, SenderTakes, ReceiverTakes, Dying, ClosingOK
  <2>4. CASE ProcessCloses(Sender(g)) \/ ProcessCloses(Receiver(g))
    BY <1>3, <2>2, <2>4 DEF ProcessCloses, ClosingOK
  <2> QED
    BY <2>1, <2>3, <2>4 DEF Client, ClientTakes
<1>6. CASE UNCHANGED client
  BY <1>1, <1>6
<1> QED
  BY <1>4, <1>5, <1>6 DEF Next, Daemon, Server, allVars, clientVars

------------------------------------------------------------------------------
(* The calls of the program *)

LEMMA AllNames == Names = {"shm_res", "sem_res", "shm_req", "sem_req"} /\ Order[1] = {"shm_res", "sem_res"}
                  /\ Order[2] = {"shm_req", "sem_req"} /\ Len(Order) = 2
  BY DEF Names, Order

(* A step of the program that leaves the processes, the threads and the    *)
(* names alone.                                                            *)
LEMMA SameAround ==
  ASSUME UNCHANGED <<client, names, value, opened, accept, by, send, recv>>,
         UNCHANGED <<link, server>>, \A w \in Process2 : unlink'[w] = unlink[w]
  PROVE  /\ (ReqFree' <=> ReqFree) /\ (ResFree' <=> ResFree)
         /\ \A g : Made(g)' <=> Made(g)
         /\ \A g \in Links : Started(g)' <=> Started(g)
         /\ \A g \in Links : Past(g)' <=> Past(g)
         /\ \A g \in Links : Over(g)' <=> Over(g)
         /\ \A g \in Links : HalfClosed(g)' <=> HalfClosed(g)
         /\ (GivenUp' <=> GivenUp) /\ (Opens' <=> Opens)
         /\ \A w : Running(w)' <=> Running(w)
<1>1. (ReqFree' <=> ReqFree) /\ (ResFree' <=> ResFree) /\ \A g : Made(g)' <=> Made(g)
  BY DEF ReqFree, ResFree, Made
<1>2. \A g \in Links : /\ Started(g)' <=> Started(g)
                       /\ Past(g)' <=> Past(g)
                       /\ Over(g)' <=> Over(g)
  BY DEF Started, Past, Over, BothAlive
<1>3. \A g \in Links : HalfClosed(g)' <=> HalfClosed(g)
  BY DEF HalfClosed, Process2
<1> QED
  BY <1>1, <1>2, <1>3 DEF GivenUp, Opens, Running

LEMMA ServerIn == ProgramOK => server = 0 \/ server \in Links
  BY ClientAssumption DEF ProgramOK, Links

LEMMA ConnectOwned ==
  ASSUME ConnectionsOK, Owned, Connect, UNCHANGED <<client, send, recv>>
  PROVE  Owned'
<1> USE ClientAssumption DEF ConnectionsOK
<1>1. /\ pc = "idle" /\ pc' = "shm" /\ link' = link + 1 /\ link \in 0..MaxConnect /\ link' \in Links
      /\ UNCHANGED <<server, handles, closed, unlink, names, value, opened, accept, by, client, send, recv>>
      /\ server \in 0..link /\ server # link'
      /\ server = 0 \/ Over(server)
  BY DEF Connect, ProgramOK, Links, Over
<1>2. ResFree /\ ReqFree
  BY <1>1 DEF Owned, RestsOK, Dialing
<1>3. ASSUME NEW g \in Links, g # link' PROVE Past(g)
  <2>1. CASE g = link /\ server # link
    <3>1. by[g] = 0
      BY <1>1, <2>1 DEF Owned, ReachedOK, Links
    <3> QED
      BY <3>1 DEF Owned, ReachedOK, ThreadsOK, Past
  <2>2. CASE g = link /\ server = link
    BY <1>1, <2>2 DEF Owned, ReachedOK, Over, Links
  <2> QED
    BY <1>1, <1>3, <2>1, <2>2 DEF Owned, ReachedOK
<1>4. by[link'] = 0 /\ link' # 0
  BY <1>1 DEF ThreadsOK, Links
<1>5. ReachedOK'
  <2>1. \A g \in Links : (Started(g)' <=> Started(g)) /\ (Past(g)' <=> Past(g)) /\ (Over(g)' <=> Over(g))
    BY <1>1 DEF Started, Past, Over, BothAlive
  <2>2. server = 0 \/ server \in Links
    BY ServerIn
  <2> QED
    BY <1>1, <1>3, <1>4, <2>1, <2>2 DEF Owned, ReachedOK
<1>6. HeldOK' /\ BeginsOK' /\ OpensOK' /\ RestsOK'
  BY <1>1, <1>2 DEF HeldOK, BeginsOK, OpensOK, RestsOK, ResFree, ReqFree, Dialing
<1> QED
  BY <1>5, <1>6 DEF Owned

(* Requests, what comes of them, and disconnecting.                        *)
LEMMA WaitsOwned ==
  ASSUME ConnectionsOK, Owned, Request \/ (Expire /\ UNCHANGED unlink) \/ Disconnect,
         UNCHANGED <<link, server, handles, names, value, opened, accept, by, client, send, recv>>
  PROVE  Owned'
<1> USE DEF ConnectionsOK
<1>1. /\ pc \in {"idle", "wait"} /\ pc' \in {"idle", "wait", "disconnect"}
      /\ pc' \in {"wait", "disconnect"} => Started(server)
  BY DEF Request, Expire, Disconnect
<1>2. \A w \in Process2 : unlink'[w] = unlink[w]
  <2>1. unlink' = unlink \/ unlink' = [unlink EXCEPT ![Self] = 1]
    BY DEF Request, Disconnect
  <2> QED
    BY <2>1, Apart DEF ClosingOK
<1>3. ReachedOK'
  BY <1>1, <1>2, SameAround, ServerIn DEF Owned, ReachedOK
<1>4. HeldOK' /\ BeginsOK' /\ OpensOK'
  BY <1>1 DEF HeldOK, BeginsOK, OpensOK, Dialing
<1>5. RestsOK'
  BY <1>1, <1>2, SameAround, ServerIn DEF Owned, RestsOK, Dialing, Started
<1> QED
  BY <1>3, <1>4, <1>5 DEF Owned

(* Every process that runs starts to close, and none has come far yet. *)
LEMMA ExitOwned ==
  ASSUME ConnectionsOK, Owned, Exit, UNCHANGED <<send, recv>>
  PROVE  Owned'
<1> USE DEF ConnectionsOK
<1>1. /\ pc = "idle" /\ pc' = "exited"
      /\ UNCHANGED <<link, server, handles, names, value, opened, accept, by, send, recv>>
  BY DEF Exit
<1>2. \A w \in Process2 : /\ client'[w] = IF Running(w) THEN "closing" ELSE client[w]
                          /\ unlink'[w] = IF Running(w) THEN 1 ELSE unlink[w]
  BY Apart DEF Exit, ClosingOK
<1>3. \A x \in {"send", "recv"}, g \in Links : <<x, g>> \in Process2
  BY DEF Process2
<1>4. \A g \in Links : (Started(g)' <=> Started(g)) /\ (Past(g)' <=> Past(g)) /\ (Over(g)' <=> Over(g))
  BY <1>1, <1>2, <1>3 DEF Started, Past, Over, BothAlive, Running
<1>5. \A g \in Links : HalfClosed(g)' => HalfClosed(g)
  BY <1>2, <1>3 DEF HalfClosed, Running
<1>6. \A w \in Process2 : ~Running(w)'
  BY <1>2 DEF Running
<1>7. (ReqFree' <=> ReqFree) /\ (ResFree' <=> ResFree) /\ (GivenUp' <=> GivenUp)
  BY <1>1 DEF ReqFree, ResFree, GivenUp, Made
<1>8. ReachedOK'
  BY <1>1, <1>4, <1>6, ServerIn DEF Owned, ReachedOK
<1>9. HeldOK' /\ BeginsOK' /\ OpensOK'
  BY <1>1 DEF HeldOK, BeginsOK, OpensOK, Dialing
<1>10. RestsOK'
  <2>1. Started(0) = FALSE /\ Started(0)' = FALSE
    BY DEF Started
  <2> QED
    BY <1>1, <1>4, <1>5, <1>7, <2>1, ServerIn DEF Owned, RestsOK, Dialing, Over
<1> QED
  BY <1>8, <1>9, <1>10 DEF Owned

(* Nothing is in the way of a connection that begins. *)
LEMMA CreateOwned ==
  ASSUME ConnectionsOK, Owned, CreateShm \/ CreateSem,
         UNCHANGED <<link, server, unlink, client, value, opened, accept, by, send, recv>>
  PROVE  Owned'
<1> USE DEF ConnectionsOK
<1>1. \/ /\ pc = "shm" /\ pc' = "sem" /\ names' = [names EXCEPT !["shm_req"] = link]
         /\ handles' = [handles EXCEPT ![link] = {"shm_req"}]
      \/ /\ pc = "sem" /\ pc' = "dial" /\ names' = [names EXCEPT !["sem_req"] = link]
         /\ handles' = [handles EXCEPT ![link] = @ \union {"sem_req"}]
  BY DEF CreateShm, CreateSem, Owned, BeginsOK, ReqFree
<1>2. link \in Links /\ server # link /\ ResFree
  <2>1. link # 0
    BY <1>1, ServerIn DEF Owned, BeginsOK, ProgramOK
  <2> QED
    BY <1>1, <2>1, ClientAssumption DEF ProgramOK, Links, Owned, BeginsOK
<1>3. ResFree' /\ (pc' = "sem" => names'["sem_req"] = 0)
  BY <1>1, <1>2, AllNames DEF NamesOK, ResFree, Owned, BeginsOK, ReqFree
<1>4. ReachedOK'
  <2>1. \A w \in Process2 : unlink'[w] = unlink[w]
    OBVIOUS
  <2>2. \A g \in Links : (Started(g)' <=> Started(g)) /\ (Past(g)' <=> Past(g)) /\ (Over(g)' <=> Over(g))
    BY DEF Started, Past, Over, BothAlive
  <2> QED
    BY <1>1, <2>2, ServerIn DEF Owned, ReachedOK
<1>5. HeldOK'
  <2>1. handles[link] \in SUBSET Names /\ link' = link
    BY <1>2 DEF ProgramOK
  <2>2. CASE pc' = "sem" /\ handles' = [handles EXCEPT ![link] = {"shm_req"}]
    <3>1. handles'[link] = {"shm_req"}
      BY <1>2, <2>2 DEF ProgramOK
    <3> QED
      BY <2>1, <2>2, <3>1 DEF HeldOK
  <2>3. CASE pc = "sem" /\ pc' = "dial" /\ handles' = [handles EXCEPT ![link] = @ \union {"sem_req"}]
    <3>1. handles'[link] = handles[link] \union {"sem_req"} /\ "shm_req" \in handles[link]
      BY <1>2, <2>3 DEF ProgramOK, Owned, HeldOK
    <3> QED
      BY <2>1, <2>3, <3>1 DEF HeldOK
  <2> QED
    BY <1>1, <2>2, <2>3
<1>6. BeginsOK' /\ OpensOK' /\ RestsOK'
  BY <1>1, <1>2, <1>3 DEF BeginsOK, OpensOK, RestsOK, Dialing
<1> QED
  BY <1>4, <1>5, <1>6 DEF Owned

(* A daemon is reached, or the connection is given up. *)
LEMMA DialOwned ==
  ASSUME ConnectionsOK, ProcessTypeOK, DaemonsMet, Owned, Dial,
         UNCHANGED <<link, server, handles, names, value, opened, client, send, recv>>
  PROVE  Owned'
<1> USE DEF ConnectionsOK
<1>1. /\ pc = "dial" /\ server # link /\ ResFree /\ by[link] = 0
      /\ {"shm_req", "sem_req"} \subseteq handles[link]
  BY DEF Dial, Owned, BeginsOK, HeldOK, DaemonsMet, Dialing
<1>2. link \in Links
  <2>1. link # 0
    BY <1>1, ServerIn DEF ProgramOK
  <2> QED
    BY <2>1, ClientAssumption DEF ProgramOK, Links
<1>3. accept[link] = "none" /\ send[link] = "none" /\ recv[link] = "none"
  BY <1>1, <1>2 DEF Owned, ReachedOK, ThreadsOK
<1>4. ~Started(link)
  BY <1>1, <1>2 DEF ClosingOK, Dialing, Started
<1>5. \A g \in Links : (Started(g)' <=> Started(g)) /\ (Over(g)' <=> Over(g))
  BY DEF Started, Over, BothAlive
<1>6. CASE port # 0 /\ pc' = "reply" /\ UNCHANGED unlink
           /\ by' = [by EXCEPT ![link] = port] /\ accept' = [accept EXCEPT ![link] = "accepted"]
  <2>1. /\ by'[link] = port /\ accept'[link] = "accepted"
        /\ \A g \in Links : g # link => by'[g] = by[g] /\ accept'[g] = accept[g]
    BY <1>2, <1>6 DEF ThreadsOK
  <2>2. ReachedOK'
    BY <1>1, <1>2, <1>4, <1>5, <1>6, <2>1, ServerIn DEF Owned, ReachedOK, Past
  <2>3. Made(link)'
    BY <1>1, <1>3 DEF Made, ResFree
  <2>4. HeldOK' /\ BeginsOK' /\ OpensOK' /\ RestsOK'
    BY <1>1, <1>3, <1>6, <2>1, <2>3 DEF HeldOK, BeginsOK, OpensOK, RestsOK, Dialing
  <2> QED
    BY <2>2, <2>4 DEF Owned
<1>7. CASE port = 0 /\ Close /\ UNCHANGED <<by, accept>>
  <2>1. pc' = "close"
    BY <1>7 DEF Close
  <2>2. ReachedOK'
    BY <1>1, <1>2, <1>5, <1>7, <2>1, ServerIn DEF Owned, ReachedOK, Past
  <2>3. HeldOK' /\ BeginsOK' /\ OpensOK' /\ RestsOK'
    BY <1>1, <2>1 DEF HeldOK, BeginsOK, OpensOK, RestsOK, Dialing, ResFree
  <2> QED
    BY <2>2, <2>3 DEF Owned
<1> QED
  BY <1>6, <1>7 DEF Dial

(* What the daemon answered makes the connection the server.               *)
LEMMA ReplyOwned ==
  ASSUME ConnectionsOK, ~Cut, Owned, Reply,
         UNCHANGED <<link, names, value, opened, accept, by, client, send, recv>>
  PROVE  Owned'
<1> USE DEF ConnectionsOK
<1>1. /\ pc = "reply" /\ server # link /\ by[link] # 0 /\ Made(link) /\ recv[link] = "none"
      /\ accept[link] = "accepted" <=> send[link] = "none"
      /\ {"shm_req", "sem_req"} \subseteq handles[link]
  BY DEF Reply, Owned, OpensOK, HeldOK, Dialing
<1>2. link \in Links
  <2>1. link # 0
    BY <1>1, ServerIn DEF ProgramOK
  <2> QED
    BY <2>1, ClientAssumption DEF ProgramOK, Links
<1>3. /\ accept[link] = "answered" /\ pc' = "open shm" /\ UNCHANGED unlink /\ server' = link
      /\ handles' = [g \in Links |-> IF g = link THEN handles[g] ELSE {}]
  BY <1>1, <1>2 DEF Reply, Serving, Cut
<1>4. Opens'
  BY <1>1, <1>3 DEF Opens, Made, ResFree
<1>5. ReachedOK'
  <2>1. \A g \in Links : (Started(g)' <=> Started(g)) /\ (Past(g)' <=> Past(g))
    BY DEF Started, Past
  <2> QED
    BY <1>3, <2>1 DEF Owned, ReachedOK
<1>6. HeldOK' /\ BeginsOK' /\ OpensOK' /\ RestsOK'
  BY <1>1, <1>2, <1>3, <1>4 DEF HeldOK, BeginsOK, OpensOK, RestsOK, Dialing
<1> QED
  BY <1>5, <1>6 DEF Owned

(* A connection in the opening that has to close. *)
LEMMA GivesUp ==
  ASSUME ConnectionsOK, BegunOK, Owned, pc \in {"open shm", "open sem"}, Close,
         UNCHANGED <<link, server, handles, names, value, opened, accept, by, client, send, recv>>
  PROVE  Owned'
<1> USE DEF ConnectionsOK
<1>1. pc' = "close" /\ server = link /\ Opens /\ {"shm_req", "sem_req"} \subseteq handles[link]
  BY DEF Close, Owned, OpensOK, HeldOK, Dialing
<1>2. link \in Links
  BY LinkIn DEF Dialing
<1>3. ~Started(link) /\ ~Started(link)'
  BY <1>2 DEF ClosingOK, Dialing, Started
<1>4. Opens'
  BY <1>1 DEF Opens, Made, ResFree
<1>5. ReachedOK'
  <2>1. \A g \in Links : (Started(g)' <=> Started(g)) /\ (Past(g)' <=> Past(g))
    BY DEF Started, Past
  <2> QED
    BY <1>1, <2>1 DEF Owned, ReachedOK
<1>6. HeldOK' /\ BeginsOK' /\ OpensOK' /\ RestsOK'
  BY <1>1, <1>3, <1>4 DEF HeldOK, BeginsOK, OpensOK, RestsOK, Dialing
<1> QED
  BY <1>5, <1>6 DEF Owned

LEMMA OpenShmOwned ==
  ASSUME ConnectionsOK, BegunOK, Owned, OpenShm,
         UNCHANGED <<link, server, names, value, opened, accept, by, client, send, recv>>
  PROVE  Owned'
<1> USE DEF ConnectionsOK
<1>1. CASE Close /\ UNCHANGED handles
  BY <1>1, GivesUp DEF OpenShm
<1>2. CASE /\ pc' = "open sem" /\ UNCHANGED unlink
           /\ handles' = [handles EXCEPT ![link] = @ \union {"shm_res"}]
  <2>1. pc = "open shm" /\ server = link /\ Opens /\ {"shm_req", "sem_req"} \subseteq handles[link]
    BY DEF OpenShm, Owned, OpensOK, HeldOK, Dialing
  <2>2. Opens'
    BY <2>1 DEF Opens, Made, ResFree
  <2>3. ReachedOK'
    <3>1. \A g \in Links : (Started(g)' <=> Started(g)) /\ (Past(g)' <=> Past(g))
      BY DEF Started, Past
    <3> QED
      BY <1>2, <2>1, <3>1 DEF Owned, ReachedOK
  <2>4. HeldOK'
    BY <1>2, <2>1 DEF HeldOK, ProgramOK, Dialing
  <2>5. BeginsOK' /\ OpensOK' /\ RestsOK'
    BY <1>2, <2>1, <2>2 DEF BeginsOK, OpensOK, RestsOK, Dialing
  <2> QED
    BY <2>3, <2>4, <2>5 DEF Owned
<1> QED
  BY <1>1, <1>2 DEF OpenShm

(* The processes start when their thread in the server has made all names. *)
LEMMA OpenSemOwned ==
  ASSUME ConnectionsOK, BegunOK, Owned, OpenSem,
         UNCHANGED <<link, server, names, value, accept, by, send, recv>>
  PROVE  Owned'
<1> USE DEF ConnectionsOK
<1>1. pc = "open sem" /\ server = link /\ Opens /\ {"shm_req", "sem_req"} \subseteq handles[link]
  BY DEF OpenSem, Owned, OpensOK, HeldOK, Dialing
<1>2. CASE Close /\ UNCHANGED <<handles, opened, client>>
  BY <1>1, <1>2, GivesUp
<1>3. CASE /\ names["sem_res"] # 0 /\ pc' = "last" /\ UNCHANGED unlink
           /\ handles' = [handles EXCEPT ![link] = @ \union {"sem_res"}]
           /\ opened' = [opened EXCEPT ![<<"res", link>>] = names["sem_res"]]
           /\ client' = [client EXCEPT ![<<"send", link>>] = "starting", ![<<"recv", link>>] = "ready"]
  <2>1. names["sem_res"] = link /\ Past(link)
    BY <1>1, <1>3 DEF Opens, Made, ResFree, Past
  <2>2. link \in Links
    BY <1>3, <2>1, ClientAssumption DEF ProgramOK, Links
  <2>3. by[link] # 0
    BY <1>1, <2>2 DEF Opens, Owned, ReachedOK
  <2>4. ASSUME NEW g \in Links, g # link PROVE (Started(g)' <=> Started(g)) /\ opened'[<<"res", g>>] = opened[<<"res", g>>]
    <3>1. <<"send", g>> \in Process2 /\ <<"send", g>> # <<"send", link>> /\ <<"send", g>> # <<"recv", link>>
      BY <2>4 DEF Process2
    <3>2. client'[<<"send", g>>] = client[<<"send", g>>]
      BY <1>3, <3>1 DEF ClosingOK
    <3>3. opened'[<<"res", g>>] = opened[<<"res", g>>]
      BY <1>3, <2>4 DEF OpenedOK
    <3> QED
      BY <3>2, <3>3 DEF Started
  <2>5. opened'[<<"res", link>>] = link
    BY <1>3, <2>1, <2>2 DEF OpenedOK
  <2>6. /\ client'[<<"send", link>>] = "starting" /\ client'[<<"recv", link>>] = "ready"
    <3>1. <<"send", link>> \in Process2 /\ <<"recv", link>> \in Process2 /\ <<"send", link>> # <<"recv", link>>
      BY <2>2 DEF Process2
    <3> QED
      BY <1>3, <3>1 DEF ClosingOK
  <2>7. Started(server)' /\ ~Over(server)' /\ ~HalfClosed(server)' /\ server' # 0
    <3>0. link # 0
      BY <2>2, ClientAssumption DEF Links
    <3>1. server' = link /\ link # 0
      BY <1>1, <3>0
    <3>2. /\ client'[<<"send", server'>>] = "starting" /\ client'[<<"recv", server'>>] = "ready"
          /\ \A x \in {"send", "recv"} : client'[<<x, server'>>] # "dead" /\ client'[<<x, server'>>] # "closing"
      BY <2>6, <3>1
    <3>3. Started(server)' /\ BothAlive(server)'
      BY <3>1, <3>2 DEF Started, BothAlive
    <3> QED
      BY <3>1, <3>2, <3>3 DEF Over, HalfClosed
  <2>8. ReachedOK'
    BY <1>1, <1>3, <2>1, <2>2, <2>4, <2>5 DEF Owned, ReachedOK, Past
  <2>9. HeldOK' /\ BeginsOK' /\ OpensOK'
    BY <1>3 DEF HeldOK, BeginsOK, OpensOK, Dialing
  <2>10. RestsOK'
    BY <1>1, <1>3, <2>3, <2>7 DEF RestsOK
  <2> QED
    BY <2>8, <2>9, <2>10 DEF Owned
<1> QED
  BY <1>2, <1>3 DEF OpenSem

LEMMA LastOwned ==
  ASSUME ConnectionsOK, ~Cut, Owned, Last,
         UNCHANGED <<link, server, handles, names, value, opened, by, client, send, recv>>
  PROVE  Owned'
<1> USE DEF ConnectionsOK
<1>1. pc = "last" /\ server = link /\ by[link] # 0 /\ Started(server)
  BY DEF Last, Owned, RestsOK, Dialing
<1>2. link \in Links
  BY <1>1, ServerIn DEF Started
<1>3. pc' = "idle" /\ accept' = [accept EXCEPT ![link] = "sent"] /\ UNCHANGED unlink
  BY <1>1, <1>2 DEF Last, Serving, Cut
<1>4. /\ \A g \in Links : (Started(g)' <=> Started(g)) /\ (Past(g) => Past(g)') /\ (Over(g)' <=> Over(g))
                          /\ (HalfClosed(g)' <=> HalfClosed(g)) /\ (accept'[g] # "none" => accept[g] # "none" \/ g = link)
      /\ (ReqFree' <=> ReqFree) /\ (ResFree' <=> ResFree)
  BY <1>3 DEF Started, Past, Over, BothAlive, HalfClosed, ReqFree, ResFree, ThreadsOK
<1>5. ReachedOK'
  BY <1>1, <1>2, <1>3, <1>4 DEF Owned, ReachedOK
<1>6. HeldOK' /\ BeginsOK' /\ OpensOK'
  BY <1>3 DEF HeldOK, BeginsOK, OpensOK, Dialing
<1>7. RestsOK'
  BY <1>1, <1>2, <1>3, <1>4 DEF Owned, RestsOK, Dialing, Links
<1> QED
  BY <1>5, <1>6, <1>7 DEF Owned

(* What has to close gives its own names back. *)
LEMMA ProgramClosesOwned ==
  ASSUME ConnectionsOK, BegunOK, Owned, ProgramCloses,
         UNCHANGED <<link, server, value, opened, by, client, send, recv>>
  PROVE  Owned'
<1> USE DEF ConnectionsOK
<1> DEFINE g == IF pc = "close" THEN link ELSE server
           own == Order[unlink[Self]] \intersect handles[g]
<1>0. \A w \in Process2 : unlink'[w] = unlink[w]
  BY Apart DEF ProgramCloses, Unlink, ClosingOK
<1>1. \A n \in Names : names'[n] = IF n \in own THEN 0 ELSE names[n]
  BY DEF ProgramCloses, Unlink
<1>2. /\ pc \in {"close", "disconnect"} /\ unlink[Self] \in {1, 2}
      /\ unlink'[Self] = IF unlink[Self] = 2 THEN 0 ELSE 2
  <2>1. Self \in DOMAIN unlink /\ pc \in {"close", "disconnect"} /\ unlink[Self] \in {0, 1, 2} /\ unlink[Self] # 0
    BY DEF ProgramCloses, ClosingOK
  <2> QED
    BY <2>1, UnlinkTyped DEF ProgramCloses
<1>3. (ResFree => ResFree') /\ (ReqFree => ReqFree') /\ (names["sem_res"] = 0 => names'["sem_res"] = 0)
      /\ names'["sem_res"] \in {0, names["sem_res"]}
  BY <1>1, AllNames DEF ResFree, ReqFree
<1>4. Made(link) => Made(link)'
  BY <1>3 DEF Made
<1>5. \A h \in Links : (Started(h)' <=> Started(h)) /\ (Over(h)' <=> Over(h)) /\ (HalfClosed(h)' <=> HalfClosed(h))
  BY <1>0 DEF Started, Over, BothAlive, HalfClosed, Process2
<1>6. /\ Over(server)' <=> Over(server)
      /\ Started(server)' <=> Started(server)
      /\ Started(server) /\ HalfClosed(server)' => HalfClosed(server)
  <2>1. server = 0 => ~Started(server) /\ ~Started(server)'
    BY DEF Started
  <2> QED
    BY <1>5, <2>1, ServerIn DEF Over
<1>7. pc = "close" => link \in Links
  BY LinkIn
<1>8. /\ unlink[Self] = 1 => UNCHANGED <<pc, handles, accept>>
      /\ unlink[Self] = 2 => pc' = "idle"
      /\ \A h \in Links : /\ h # g => accept'[h] = accept[h]
                          /\ h = g => accept'[h] = IF unlink[Self] = 2 /\ accept[g] \in {"accepted", "answered"}
                                                   THEN accept'[h] ELSE accept[h]
                          /\ accept'[h] = accept[h] \/ accept'[h] \in {"sent", "reset"}
                          /\ accept[h] = "answered" /\ h = g /\ unlink[Self] = 2 => accept'[h] \in {"sent", "reset"}
                          /\ accept'[h] # "none" <=> accept[h] # "none"
                          /\ Past(h) => Past(h)'
  BY <1>2 DEF ProgramCloses, ThreadsOK, Past
<1>9. ReachedOK'
  BY <1>2, <1>5, <1>8, ServerIn DEF Owned, ReachedOK
<1>10. CASE unlink[Self] = 1
  <2>1. HeldOK' /\ BeginsOK'
    BY <1>2, <1>8, <1>10 DEF Owned, HeldOK, BeginsOK, Dialing
  <2>2. OpensOK'
    BY <1>2, <1>3, <1>4, <1>5, <1>8, <1>10, ServerIn DEF Owned, OpensOK, Opens, Started
  <2>3. RestsOK'
    BY <1>2, <1>3, <1>4, <1>5, <1>8, <1>10, ServerIn DEF Owned, RestsOK, GivenUp, Dialing, Started
  <2> QED
    BY <1>9, <2>1, <2>2, <2>3 DEF Owned
<1>11. CASE unlink[Self] = 2
  <2>1. HeldOK' /\ BeginsOK' /\ OpensOK'
    BY <1>8, <1>11 DEF HeldOK, BeginsOK, OpensOK, Dialing
  <2>2. pc = "close" => ReqFree'
    BY <1>1, <1>11, AllNames DEF Owned, HeldOK, ReqFree, Dialing
  <2>3. CASE pc = "close" /\ server = link
    <3>1. ~Started(server) /\ Opens /\ g = link
      BY <2>3 DEF Owned, OpensOK
    <3>2. GivenUp'
      BY <1>4, <1>7, <1>8, <1>11, <2>2, <2>3, <3>1 DEF Opens, GivenUp
    <3>3. server' # 0 /\ ~Started(server)' /\ ~Over(server)' /\ pc' = "idle"
      BY <1>6, <1>7, <1>8, <1>11, <2>3, <3>1 DEF Links, Over
    <3>4. RestsOK'
      BY <3>2, <3>3 DEF RestsOK
    <3> QED
      BY <1>9, <2>1, <3>4 DEF Owned
  <2>4. CASE pc = "close" /\ server # link
    <3>1. ResFree /\ (server = 0 \/ Over(server))
      BY <2>4 DEF Owned, OpensOK, ReachedOK
    <3>2. ResFree' /\ ReqFree' /\ pc' = "idle"
      BY <1>3, <1>8, <1>11, <2>2, <2>4, <3>1
    <3>3. server' # 0 => Started(server)'
      BY <1>6, <3>1 DEF Over
    <3>4. RestsOK'
      BY <3>2, <3>3 DEF RestsOK
    <3> QED
      BY <1>9, <2>1, <3>4 DEF Owned
  <2>5. CASE pc = "disconnect"
    <3>1. RestsOK /\ Started(server) /\ pc' = "idle" /\ UNCHANGED server
      BY <1>8, <1>11, <2>5 DEF Owned, RestsOK, Dialing
    <3>2. Over(server) => ResFree' /\ ReqFree'
      BY <1>3, <2>5, <3>1 DEF RestsOK, Dialing
    <3>3. HalfClosed(server) => ResFree'
      BY <1>3, <2>5, <3>1 DEF RestsOK, Dialing
    <3>4. RestsOK'
      BY <1>6, <3>1, <3>2, <3>3 DEF RestsOK, Started
    <3> QED
      BY <1>9, <2>1, <3>4 DEF Owned
  <2> QED
    BY <1>2, <2>3, <2>4, <2>5
<1> QED
  BY <1>2, <1>10, <1>11

LEMMA ProgramOwned ==
  ASSUME ClientInv, OwnedInv, ~Cut, Program, UNCHANGED managerVars
  PROVE  Owned'
<1> USE DEF ClientInv, OwnedInv
<1>1. CASE Connect
  BY <1>1, ConnectOwned DEF Program, Connect, Disconnect, Exit, Continue, Expire,
     CreateShm, CreateSem, Dial, Reply, OpenShm, OpenSem, Last, ProgramCloses
<1>2. CASE Request \/ Disconnect
  BY <1>2, WaitsOwned DEF Program, Request, Disconnect, Connect, Exit, Continue, Expire,
     CreateShm, CreateSem, Dial, Reply, OpenShm, OpenSem, Last, ProgramCloses
<1>3. CASE Exit
  BY <1>3, ExitOwned DEF Program
<1>4. CASE Continue /\ UNCHANGED <<link, value, send, recv>>
  BY <1>4, WaitsOwned, CreateOwned, DialOwned, ReplyOwned, OpenShmOwned, OpenSemOwned, LastOwned, ProgramClosesOwned
  DEF Continue
<1> QED
  BY <1>1, <1>2, <1>3, <1>4 DEF Program

------------------------------------------------------------------------------
(* The processes of a connection *)

(* What a process of a connection does to itself and to the semaphores.    *)
LEMMA ProcessSteps ==
  ASSUME ConnectionsOK, NEW g \in Links, Client(g) \/ ClientTakes(g)
  PROVE  /\ UNCHANGED <<programVars, opened, serverVars>>
         /\ \E w \in {Sender(g), Receiver(g)} :
               /\ client[w] \notin {"none", "dead"} /\ client'[w] # "none"
               /\ \A v \in Process2 : v # w => client'[v] = client[v] /\ unlink'[v] = unlink[v]
               /\ \/ /\ Running(w) /\ client'[w] \in {"ready", "closing"} /\ unlink'[w] \in {0, 1}
                     /\ UNCHANGED names
                  \/ ProcessCloses(w)
<1> USE DEF ConnectionsOK
<1>0. Sender(g) \in Process2 /\ Receiver(g) \in Process2 /\ Self \notin Process2
  BY Apart
<1>1. CASE Releases(g)
  <2>1. client' = [client EXCEPT ![Sender(g)] = "ready"] /\ UNCHANGED <<unlink, names>> /\ client[Sender(g)] = "starting"
    BY <1>1 DEF Releases
  <2>2. unlink[Sender(g)] = 0
    BY <1>0, <2>1 DEF ClosingOK
  <2> QED
    BY <1>0, <2>1, <2>2 DEF ClosingOK, Running, Client, ClientTakes
<1>2. ASSUME NEW w \in {Sender(g), Receiver(g)}, client[w] = "ready", Dying(w), UNCHANGED names
      PROVE  /\ client[w] \notin {"none", "dead"} /\ client'[w] # "none"
             /\ \A v \in Process2 : v # w => client'[v] = client[v] /\ unlink'[v] = unlink[v]
             /\ Running(w) /\ client'[w] \in {"ready", "closing"} /\ unlink'[w] \in {0, 1}
  BY <1>0, <1>2 DEF Dying, Running, ClosingOK
<1>3. ASSUME NEW w \in {Sender(g), Receiver(g)}, ProcessCloses(w)
      PROVE  /\ client[w] \notin {"none", "dead"} /\ client'[w] # "none"
             /\ \A v \in Process2 : v # w => client'[v] = client[v] /\ unlink'[v] = unlink[v]
  BY <1>0, <1>3 DEF ProcessCloses, Unlink, ClosingOK
<1>4. UNCHANGED <<programVars, opened, serverVars>>
  BY DEF Client, ClientTakes
<1>5. CASE SenderTakes(g)
  BY <1>2, <1>4, <1>5 DEF SenderTakes
<1>6. CASE ReceiverTakes(g)
  BY <1>2, <1>4, <1>6 DEF ReceiverTakes
<1>7. CASE ProcessCloses(Sender(g)) \/ ProcessCloses(Receiver(g))
  BY <1>3, <1>4, <1>7
<1> QED
  BY <1>1, <1>5, <1>6, <1>7 DEF Client, ClientTakes

(* It takes from no connection that has not started its processes.         *)
LEMMA ProcessTakesOwn ==
  ASSUME ConnectionsOK, PairedOK, ReachedOK, NEW g \in Links, Client(g) \/ ClientTakes(g),
         NEW h \in Links, ~Started(h)
  PROVE  value'[<<"res", h>>] = value[<<"res", h>>]
<1> USE DEF ConnectionsOK
<1>1. CASE UNCHANGED value
  BY <1>1
<1>2. CASE \E b \in {0, 1} : value' = [value EXCEPT ![<<"req", g>>] = b]
  BY <1>2 DEF NamesOK
<1>3. CASE ReceiverTakes(g)
  <2>1. client[Receiver(g)] # "none" /\ Started(g)
    BY <1>3 DEF ReceiverTakes, PairedOK
  <2>2. opened[<<"res", g>>] = g /\ g # h
    BY <2>1 DEF ReachedOK
  <2> QED
    BY <1>3, <2>2 DEF ReceiverTakes, NamesOK
<1> QED
  BY <1>1, <1>2, <1>3 DEF Client, ClientTakes, Releases, SenderTakes, ProcessCloses

(* A process unlinks the names of the responses, and then the others. *)
LEMMA ProcessOwned ==
  ASSUME ConnectionsOK, BegunOK, PairedOK, Owned, NEW g \in Links, Client(g) \/ ClientTakes(g)
  PROVE  Owned'
<1> USE DEF ConnectionsOK
<1>1. UNCHANGED <<pc, link, server, handles, opened, by, accept, send, recv>>
  BY ProcessSteps DEF programVars, serverVars
<1>2. PICK w \in {Sender(g), Receiver(g)} :
         /\ client[w] \notin {"none", "dead"} /\ client'[w] # "none"
         /\ \A v \in Process2 : v # w => client'[v] = client[v] /\ unlink'[v] = unlink[v]
         /\ \/ /\ Running(w) /\ client'[w] \in {"ready", "closing"} /\ unlink'[w] \in {0, 1}
               /\ UNCHANGED names
            \/ ProcessCloses(w)
  BY ProcessSteps
<1>3. w \in Process2 /\ \A x \in {"send", "recv"}, h \in Links : <<x, h>> \in Process2
  BY Apart DEF Process2
<1>4. ProcessCloses(w) => /\ client[w] = "closing" /\ unlink[w] \in {1, 2}
                          /\ unlink'[w] = IF unlink[w] = 1 THEN 2 ELSE 0
                          /\ client'[w] = IF unlink[w] = 1 THEN "closing" ELSE "dead"
                          /\ \A n \in Names : names'[n] = IF n \in Order[unlink[w]] THEN 0 ELSE names[n]
  <2>1. Names \intersect Order[1] = Order[1] /\ Names \intersect Order[2] = Order[2]
    BY AllNames
  <2>2. SUFFICES ASSUME ProcessCloses(w)
                 PROVE  /\ client[w] = "closing" /\ unlink[w] \in {1, 2}
                        /\ unlink'[w] = IF unlink[w] = 1 THEN 2 ELSE 0
                        /\ client'[w] = IF unlink[w] = 1 THEN "closing" ELSE "dead"
                        /\ \A n \in Names : names'[n] = IF n \in Order[unlink[w]] THEN 0 ELSE names[n]
    OBVIOUS
  <2>3. client[w] = "closing" /\ unlink[w] \in {1, 2}
    BY <1>3, <2>2 DEF ProcessCloses, ClosingOK
  <2>4. unlink'[w] = IF unlink[w] = 1 THEN 2 ELSE 0
    BY <1>3, <2>2, <2>3, UnlinkTyped DEF ProcessCloses, ClosingOK
  <2>5. client'[w] = IF unlink[w] = 1 THEN "closing" ELSE "dead"
    BY <1>3, <2>2, <2>3, <2>4 DEF ProcessCloses, ClosingOK
  <2>6. \A n \in Names : names'[n] = IF n \in Order[unlink[w]] THEN 0 ELSE names[n]
    BY <2>1, <2>2, <2>3 DEF ProcessCloses, Unlink
  <2> QED
    BY <2>3, <2>4, <2>5, <2>6
<1>5. (ResFree => ResFree') /\ (ReqFree => ReqFree') /\ names'["sem_res"] \in {0, names["sem_res"]}
      /\ (names["sem_req"] = 0 => names'["sem_req"] = 0)
  BY <1>2, <1>4, AllNames DEF ResFree, ReqFree
<1>6. \A h \in Links : Started(h)' <=> Started(h)
  BY <1>2, <1>3 DEF Started
<1>7. ASSUME NEW h \in Links
      PROVE  /\ Over(h) => Over(h)'
             /\ Over(h)' /\ ~Over(h) => HalfClosed(h) /\ ReqFree'
             /\ HalfClosed(h)' /\ ~HalfClosed(h) => ResFree'
  <2>1. \A x \in {"send", "recv"} : client[<<x, h>>] = "dead" => client'[<<x, h>>] = "dead"
    BY <1>2, <1>3
  <2>2. ASSUME Over(h)', ~Over(h) PROVE HalfClosed(h) /\ ReqFree'
    <3>1. PICK x \in {"send", "recv"} : client'[<<x, h>>] = "dead" /\ client[<<x, h>>] # "dead"
      BY <1>6, <2>2 DEF Over, BothAlive
    <3>2. w = <<x, h>> /\ ProcessCloses(w) /\ unlink[w] = 2
      BY <1>2, <1>3, <1>4, <3>1
    <3> QED
      BY <1>4, <3>2, AllNames DEF HalfClosed, ReqFree
  <2>3. ASSUME HalfClosed(h)', ~HalfClosed(h) PROVE ResFree'
    <3>1. PICK x \in {"send", "recv"} : client'[<<x, h>>] = "closing" /\ unlink'[<<x, h>>] = 2
      BY <2>3 DEF HalfClosed
    <3>2. w = <<x, h>> /\ ProcessCloses(w) /\ unlink[w] = 1
      BY <1>2, <1>3, <1>4, <2>3, <3>1 DEF HalfClosed
    <3> QED
      BY <1>4, <3>2, AllNames DEF ResFree
  <2> QED
    BY <1>6, <2>1, <2>2, <2>3 DEF Over, BothAlive
<1>8. ASSUME Made(link), link \in Links, ~Started(link) PROVE Made(link)'
  <2>1. value'[<<"res", link>>] = value[<<"res", link>>]
    BY <1>8, ProcessTakesOwn DEF Owned
  <2> QED
    BY <1>1, <1>5, <1>8, <2>1 DEF Made
<1>9. ReachedOK'
  <2>1. \A v \in Process2 : Running(v)' => Running(v)
    BY <1>2, <1>4 DEF Running
  <2> QED
    BY <1>1, <1>6, <1>7, <2>1, ServerIn DEF Owned, ReachedOK, Past
<1>10. HeldOK' /\ BeginsOK'
  BY <1>1, <1>5 DEF Owned, HeldOK, BeginsOK
<1>11. OpensOK'
  <2>1. pc \in {"reply", "open shm", "open sem"} => link \in Links /\ ~Started(link)
    BY LinkIn DEF Dialing, Started, ClosingOK
  <2>2. pc = "close" => link \in Links
    BY LinkIn
  <2>3. pc = "close" /\ server = link => Opens'
    BY <1>1, <1>8, <2>2 DEF Owned, OpensOK, Opens
  <2> QED
    BY <1>1, <1>5, <1>6, <1>8, <2>1, <2>2, <2>3 DEF Owned, OpensOK, Opens
<1>12. RestsOK'
  <2>1. SUFFICES ASSUME pc \notin Dialing \union {"close"} PROVE RestsOK'
    BY <1>1 DEF RestsOK
  <2>2. CASE server = 0
    BY <1>1, <1>5, <2>1, <2>2 DEF Owned, RestsOK, Started, Over
  <2>3. CASE server \in Links /\ Started(server)
    <3>1. (Over(server) => ResFree /\ ReqFree) /\ (HalfClosed(server) => ResFree)
      BY <2>1, <2>3 DEF Owned, RestsOK
    <3>2. Over(server)' => ResFree' /\ ReqFree'
      BY <1>1, <1>5, <1>7, <2>3, <3>1
    <3>3. HalfClosed(server)' => ResFree'
      BY <1>1, <1>5, <1>7, <2>3, <3>1
    <3>4. Started(server)' /\ server' # 0
      BY <1>1, <1>6, <2>3, ClientAssumption DEF Links, Started
    <3>5. pc = "last" => server = link /\ by[link] # 0
      BY <2>1 DEF Owned, RestsOK
    <3> QED
      BY <1>1, <3>2, <3>3, <3>4, <3>5 DEF RestsOK
  <2>4. CASE server \in Links /\ ~Started(server)
    <3>1. GivenUp /\ server = link
      BY <2>1, <2>4, ClientAssumption DEF Owned, RestsOK, GivenUp, Links
    <3>2. GivenUp'
      BY <1>1, <1>5, <1>8, <2>4, <3>1 DEF GivenUp
    <3>3. server' # 0 /\ ~Started(server)' /\ ~Over(server)'
      BY <1>1, <1>6, <2>4, ClientAssumption DEF Links, Over
    <3>4. pc \notin {"last", "wait", "disconnect"}
      BY <2>1, <2>4 DEF Owned, RestsOK
    <3> QED
      BY <1>1, <3>2, <3>3, <3>4 DEF RestsOK
  <2> QED
    BY <2>2, <2>3, <2>4, ServerIn
<1> QED
  BY <1>9, <1>10, <1>11, <1>12 DEF Owned

------------------------------------------------------------------------------
(* The threads of the daemon *)

(* A thread makes names only for the last connection, and before its       *)
(* processes are started.                                                  *)
LEMMA ThreadTakesBack ==
  ASSUME ConnectionsOK, NEW g \in Links, Server(g), Past(g)
  PROVE  /\ \A n \in Names : names'[n] \in {0, names[n]}
         /\ \A h \in Links : h # g => /\ value'[<<"res", h>>] = value[<<"res", h>>]
                                      /\ send'[h] = send[h] /\ recv'[h] = recv[h] /\ accept'[h] = accept[h]
         /\ Past(g)'
<1> USE DEF ConnectionsOK
<1>0. send[g] \notin {"new", "shm"} /\ accept[g] # "accepted"
  BY DEF Past
<1>1. CASE Third(g)
  BY <1>0, <1>1 DEF Third, Past, ThreadsOK, NamesOK
<1>2. CASE SendTakes(g) /\ UNCHANGED <<recv, accept>>
  BY <1>0, <1>2, AllNames DEF SendTakes, Ends, Past, ThreadsOK, NamesOK
<1>3. CASE SendEnds(g) /\ UNCHANGED <<recv, accept>>
  BY <1>0, <1>3, AllNames DEF SendEnds, Ends, Past, ThreadsOK, NamesOK
<1>4. CASE RecvOpens(g) /\ UNCHANGED <<send, accept>>
  BY <1>0, <1>4 DEF RecvOpens, Past, ThreadsOK, NamesOK
<1>5. CASE RecvTakes(g) /\ UNCHANGED <<send, accept>>
  BY <1>0, <1>5, AllNames DEF RecvTakes, Past, ThreadsOK, NamesOK
<1>6. CASE GivesBack(g) /\ UNCHANGED <<send, accept>>
  BY <1>0, <1>6 DEF GivesBack, Past, ThreadsOK, NamesOK
<1> QED
  BY <1>0, <1>1, <1>2, <1>3, <1>4, <1>5, <1>6 DEF Server, Answer, CreatesShm, CreatesSem

(* Its own names stay in order whoever else is at work.                    *)
LEMMA StaysMade ==
  ASSUME ConnectionsOK, NEW g \in Links, Server(g), Made(g), accept[g] = "accepted" => send[g] = "none"
  PROVE  /\ Made(g)' /\ (ReqFree => ReqFree')
         /\ \A h \in Links : h # g => send'[h] = send[h] /\ recv'[h] = recv[h] /\ accept'[h] = accept[h]
         /\ send[g] # "none" => send'[g] # "none"
<1> USE DEF ConnectionsOK
<1>1. CASE Answer(g)
  BY <1>1 DEF Answer, Made, ResFree, ReqFree, ThreadsOK
<1>2. CASE Third(g)
  BY <1>2 DEF Third, Made, ResFree, ReqFree, ThreadsOK
<1>3. CASE CreatesShm(g) /\ UNCHANGED <<recv, accept>>
  BY <1>3, AllNames DEF CreatesShm, Made, ResFree, ReqFree, ThreadsOK, NamesOK
<1>4. CASE CreatesSem(g) /\ UNCHANGED <<recv, accept>>
  BY <1>4, AllNames DEF CreatesSem, Made, ResFree, ReqFree, ThreadsOK, NamesOK
<1>5. CASE SendTakes(g) /\ UNCHANGED <<recv, accept>>
  BY <1>5, AllNames DEF SendTakes, Ends, Made, ResFree, ReqFree, ThreadsOK, NamesOK
<1>6. CASE SendEnds(g) /\ UNCHANGED <<recv, accept>>
  BY <1>6, AllNames DEF SendEnds, Ends, Made, ResFree, ReqFree, ThreadsOK, NamesOK
<1>7. CASE RecvOpens(g) /\ UNCHANGED <<send, accept>>
  BY <1>7 DEF RecvOpens, Made, ResFree, ReqFree, ThreadsOK, NamesOK
<1>8. CASE RecvTakes(g) /\ UNCHANGED <<send, accept>>
  BY <1>8, AllNames DEF RecvTakes, Made, ResFree, ReqFree, ThreadsOK, NamesOK
<1>9. CASE GivesBack(g) /\ UNCHANGED <<send, accept>>
  BY <1>9 DEF GivesBack, Made, ResFree, ReqFree, ThreadsOK, NamesOK
<1> QED
  BY <1>1, <1>2, <1>3, <1>4, <1>5, <1>6, <1>7, <1>8, <1>9 DEF Server

(* A thread of a connection that has made its names, or an older one.      *)
LEMMA OldThreadOwned ==
  ASSUME ConnectionsOK, BegunOK, Owned, NEW g \in Links, Server(g), g # link \/ Started(g)
  PROVE  Owned'
<1> USE DEF ConnectionsOK
<1>1. UNCHANGED <<pc, link, server, handles, unlink, client, by>> /\ by[g] # 0
  BY DEF Server, Serving, programVars
<1>2. Past(g)
  BY DEF Owned, ReachedOK
<1>3. /\ \A n \in Names : names'[n] \in {0, names[n]}
      /\ \A h \in Links : h # g => /\ value'[<<"res", h>>] = value[<<"res", h>>]
                                   /\ send'[h] = send[h] /\ recv'[h] = recv[h] /\ accept'[h] = accept[h]
      /\ Past(g)'
  BY <1>2, ThreadTakesBack
<1>4. (ResFree => ResFree') /\ (ReqFree => ReqFree') /\ names'["sem_res"] \in {0, names["sem_res"]}
      /\ (names["sem_req"] = 0 => names'["sem_req"] = 0)
  BY <1>3, AllNames DEF ResFree, ReqFree
<1>5. /\ \A h : (Started(h)' <=> Started(h)) /\ (Over(h)' <=> Over(h)) /\ (HalfClosed(h)' <=> HalfClosed(h))
      /\ \A v : Running(v)' <=> Running(v)
  BY <1>1 DEF Started, Over, BothAlive, HalfClosed, Running
<1>6. \A h \in Links : opened'[<<"res", h>>] = opened[<<"res", h>>]
  BY DEF Server, Answer, Third, RecvOpens, RecvTakes, GivesBack, OpenedOK
<1>7. \A h \in Links : Past(h) => Past(h)'
  BY <1>3 DEF Past
<1>8. ReachedOK'
  BY <1>1, <1>3, <1>5, <1>6, <1>7, ServerIn DEF Owned, ReachedOK
<1>9. HeldOK' /\ BeginsOK'
  BY <1>1, <1>4 DEF Owned, HeldOK, BeginsOK
<1>10. link \in Links /\ g # link /\ Made(link) => Made(link)'
  BY <1>1, <1>3, <1>4 DEF Made
<1>11. /\ link \in Links /\ g # link /\ Opens => Opens'
       /\ link \in Links /\ g # link /\ GivenUp => GivenUp'
  BY <1>1, <1>3, <1>4, <1>10 DEF Opens, GivenUp
<1>12. pc \in Dialing => link \in Links /\ ~Started(link)
  BY LinkIn DEF ClosingOK, Started
<1>13. OpensOK'
  <2>1. CASE pc = "reply"
    BY <1>1, <1>3, <1>10, <1>12, <2>1 DEF Owned, OpensOK, Dialing
  <2>2. CASE pc \in {"open shm", "open sem"}
    BY <1>1, <1>11, <1>12, <2>2 DEF Owned, OpensOK, Dialing
  <2>3. CASE pc = "close"
    BY <1>1, <1>4, <1>5, <1>11, <2>3, LinkIn DEF Owned, OpensOK
  <2> QED
    BY <1>1, <2>1, <2>2, <2>3 DEF OpensOK
<1>14. RestsOK'
  <2>1. SUFFICES ASSUME pc \notin Dialing \union {"close"} PROVE RestsOK'
    BY <1>1 DEF RestsOK
  <2>2. server # 0 /\ ~Started(server) => GivenUp'
    <3>1. SUFFICES ASSUME server # 0, ~Started(server) PROVE GivenUp'
      OBVIOUS
    <3>2. GivenUp /\ server = link /\ link \in Links
      BY <2>1, <3>1, ServerIn DEF Owned, RestsOK, GivenUp
    <3> QED
      BY <1>11, <3>1, <3>2
  <2> QED
    BY <1>1, <1>4, <1>5, <2>1, <2>2 DEF Owned, RestsOK
<1> QED
  BY <1>8, <1>9, <1>13, <1>14 DEF Owned

(* A thread of the connection that is being opened or was given up.        *)
LEMMA NewThreadOwned ==
  ASSUME ConnectionsOK, BegunOK, DaemonsMet, Owned, NEW g \in Links, Server(g), g = link, ~Started(g)
  PROVE  Owned'
<1> USE DEF ConnectionsOK
<1>1. UNCHANGED <<pc, link, server, handles, unlink, client, by>> /\ by[link] # 0
  BY DEF Server, Serving, programVars
<1>2. /\ \A h : (Started(h)' <=> Started(h)) /\ (Over(h)' <=> Over(h)) /\ (HalfClosed(h)' <=> HalfClosed(h))
      /\ \A v : Running(v)' <=> Running(v)
  BY <1>1 DEF Started, Over, BothAlive, HalfClosed, Running
<1>3. \A h \in Links : opened'[<<"res", h>>] = opened[<<"res", h>>]
  BY DEF Server, Answer, Third, RecvOpens, RecvTakes, GivesBack, OpenedOK
<1>4. link # 0
  BY ClientAssumption DEF Links
<1>5. pc = "reply" \/ server = link
  BY <1>1, <1>4 DEF Owned, ReachedOK
<1>6. /\ Made(link) /\ (accept[link] = "accepted" => send[link] = "none") /\ recv[link] \in {"none", "new", "ended"}
      /\ pc \notin {"reply", "open shm", "open sem", "close"} => GivenUp /\ pc \notin Dialing
  <2>1. CASE pc = "reply"
    BY <2>1 DEF Owned, OpensOK
  <2>2. CASE pc \in {"open shm", "open sem"} \/ pc = "close"
    BY <1>5, <2>2 DEF Owned, OpensOK, Opens
  <2>3. CASE pc \notin {"reply", "open shm", "open sem", "close"}
    <3>1. pc \notin {"shm", "sem", "dial"}
      BY <1>1 DEF DaemonsMet
    <3>2. GivenUp
      BY <1>4, <1>5, <2>3, <3>1 DEF Owned, RestsOK, Dialing
    <3> QED
      BY <2>3, <3>1, <3>2 DEF GivenUp, Dialing
  <2> QED
    BY <2>1, <2>2, <2>3
<1>7. /\ Made(link)' /\ (ReqFree => ReqFree')
      /\ \A h \in Links : h # link => send'[h] = send[h] /\ recv'[h] = recv[h] /\ accept'[h] = accept[h]
      /\ send[link] # "none" => send'[link] # "none"
  <2>1. /\ Made(g)' /\ (ReqFree => ReqFree')
        /\ \A h \in Links : h # g => send'[h] = send[h] /\ recv'[h] = recv[h] /\ accept'[h] = accept[h]
        /\ send[g] # "none" => send'[g] # "none"
    BY <1>6, StaysMade
  <2> QED
    BY <1>1, <2>1
<1>8. ReachedOK'
  <2>1. \A h \in Links : h # link => (Past(h)' <=> Past(h))
    BY <1>7 DEF Past
  <2> QED
    BY <1>1, <1>2, <1>3, <1>7, <2>1, ServerIn DEF Owned, ReachedOK
<1>9. HeldOK' /\ BeginsOK'
  BY <1>1 DEF Owned, HeldOK, BeginsOK, DaemonsMet
<1>10. /\ Third(link) => accept[link] \in {"sent", "reset"} /\ recv'[link] \in {"new", "ended"} /\ accept'[link] = "done"
       /\ Answer(link) => accept[link] = "accepted" /\ accept'[link] = "answered" /\ send'[link] = "new" /\ UNCHANGED recv
       /\ ~Answer(link) /\ ~Third(link) => /\ UNCHANGED accept /\ (recv[link] = "none" => UNCHANGED recv)
                                           /\ (send[link] = "none" => UNCHANGED send)
  BY DEF Server, Third, Answer, CreatesShm, CreatesSem, SendTakes, SendEnds, RecvOpens, RecvTakes, GivesBack, ThreadsOK
<1>11. Opens => Opens'
  BY <1>1, <1>7, <1>10 DEF Opens
<1>12. OpensOK'
  <2>1. CASE pc = "reply"
    BY <1>1, <1>7, <1>10, <2>1 DEF Owned, OpensOK
  <2>2. CASE pc \in {"open shm", "open sem"} \/ pc = "close"
    BY <1>1, <1>2, <1>5, <1>11, <2>2 DEF Owned, OpensOK
  <2> QED
    BY <1>1, <2>1, <2>2 DEF OpensOK
<1>13. RestsOK'
  <2>1. SUFFICES ASSUME pc \notin Dialing \union {"close"} PROVE RestsOK'
    BY <1>1 DEF RestsOK
  <2>2. GivenUp /\ ReqFree /\ server = link
    BY <1>6, <2>1 DEF Dialing, GivenUp
  <2>3. recv'[link] \in {"none", "new", "ended"} /\ (accept'[link] = "done" => recv'[link] # "none")
        /\ accept'[link] \in {"sent", "reset", "done"}
    <3>1. CASE Third(link)
      BY <1>10, <3>1
    <3>2. CASE RecvOpens(link) /\ UNCHANGED accept
      BY <2>2, <3>2 DEF RecvOpens, ReqFree, GivenUp, ThreadsOK
    <3>3. CASE UNCHANGED <<accept, recv>>
      BY <2>2, <3>3 DEF GivenUp
    <3> QED
      BY <2>2, <3>1, <3>2, <3>3 DEF Server, Answer, RecvTakes, GivesBack, GivenUp
  <2>4. GivenUp'
    BY <1>1, <1>7, <2>2, <2>3 DEF GivenUp
  <2>5. server' # 0 /\ ~Started(server)' /\ ~Over(server)'
    BY <1>1, <1>2, <1>4, <2>2 DEF Over
  <2>6. pc \notin {"last", "wait", "disconnect"}
    BY <2>1, <2>2 DEF Owned, RestsOK
  <2> QED
    BY <1>1, <2>4, <2>5, <2>6 DEF RestsOK
<1> QED
  BY <1>8, <1>9, <1>12, <1>13 DEF Owned

------------------------------------------------------------------------------
(* A daemon that ends under no connection takes no thread with it.         *)
LEMMA DaemonOwned ==
  ASSUME ClientInv, Owned, ~Cut', NEW d \in Daemons, Daemon(d)
  PROVE  UNCHANGED clientVars
<1> USE DEF ClientInv, ConnectionsOK
<1>1. \A g \in Links : ~(by[g] = d /\ proc'[d] = "ended")
  <2>1. SUFFICES ASSUME NEW g \in Links, by[g] = d, proc'[d] = "ended" PROVE Cut'
    OBVIOUS
  <2>2. by'[g] = d /\ d # 0
    BY <2>1, ManagerAssumption DEF Daemon, Daemons
  <2> QED
    BY <2>1, <2>2 DEF Cut, Alive
<1>2. send' = [g \in Links |-> send[g]] /\ recv' = [g \in Links |-> recv[g]]
  BY <1>1 DEF Daemon
<1> QED
  BY <1>2 DEF Daemon, clientVars, serverVars, programVars, ThreadsOK

LEMMA QuietOwned == Owned /\ UNCHANGED clientVars => Owned'
<1> SUFFICES ASSUME Owned, UNCHANGED clientVars PROVE Owned'
  OBVIOUS
<1>1. UNCHANGED <<pc, link, server, handles, unlink, client, names, value, opened, by, accept, send, recv>>
  BY DEF clientVars, programVars, serverVars
<1>2. ReachedOK' /\ HeldOK'
  BY <1>1 DEF Owned, ReachedOK, HeldOK, Past, Started, Over, BothAlive, Running
<1>3. BeginsOK' /\ OpensOK'
  BY <1>1 DEF Owned, BeginsOK, OpensOK, Opens, Made, ResFree, ReqFree, Started
<1>4. RestsOK'
  BY <1>1 DEF Owned, RestsOK, GivenUp, Made, ResFree, ReqFree, Started, Over, BothAlive, HalfClosed
<1> QED
  BY <1>2, <1>3, <1>4 DEF Owned

LEMMA OwnedInductive == ClientInv /\ OwnedInv /\ [Next]_allVars => OwnedInv'
<1> SUFFICES ASSUME ClientInv, OwnedInv, [Next]_allVars PROVE OwnedInv'
  OBVIOUS
<1> USE DEF ClientInv, OwnedInv
<1>1. DaemonsMet' /\ BegunOK' /\ PairedOK'
  BY StaysCut, Begun, Paired
<1>2. ASSUME ~Cut' PROVE Owned'
  <2>1. ~Cut /\ Owned
    BY <1>2, StaysCut
  <2>2. CASE Program /\ UNCHANGED managerVars
    BY <2>1, <2>2, ProgramOwned
  <2>3. ASSUME NEW g \in Links, Client(g) \/ ClientTakes(g) PROVE Owned'
    BY <2>1, <2>3, ProcessOwned
  <2>4. ASSUME NEW g \in Links, Server(g) PROVE Owned'
    BY <2>1, <2>4, OldThreadOwned, NewThreadOwned
  <2>5. ASSUME NEW d \in Daemons, Daemon(d) PROVE Owned'
    BY <1>2, <2>1, <2>5, DaemonOwned, QuietOwned
  <2>6. CASE UNCHANGED clientVars
    BY <2>1, <2>6, QuietOwned
  <2> QED
    BY <2>2, <2>3, <2>4, <2>5, <2>6 DEF Next, allVars
<1> QED
  BY <1>1, <1>2

(* What is left at the end is dead, or was given up and has unlinked all.  *)
LEMMA OwnedReleases == ClientInv /\ OwnedInv => NamesReleased
<1> SUFFICES ASSUME ClientInv, OwnedInv, pc = "exited", Settled, ~Cut PROVE ResFree /\ ReqFree
  BY AllNames DEF NamesReleased, ResFree, ReqFree
<1> USE DEF ClientInv, ConnectionsOK
<1>1. Owned /\ RestsOK
  BY DEF OwnedInv, Owned
<1>2. CASE server = 0
  BY <1>1, <1>2 DEF RestsOK, Dialing
<1>3. CASE server \in Links /\ Started(server)
  <2>1. client[Sender(server)] # "none" /\ ~Running(Sender(server))
    BY <1>1, <1>3, Apart DEF Owned, ReachedOK, Started, Sender
  <2>2. client[Sender(server)] = "dead"
    BY <1>3, <2>1 DEF Settled, ProcessRests, Running
  <2>3. Over(server)
    BY <1>3, <2>2 DEF Over, BothAlive, Sender
  <2> QED
    BY <1>1, <2>3 DEF RestsOK, Dialing
<1>4. CASE server \in Links /\ ~Started(server)
  <2>1. GivenUp /\ server = link /\ link \in Links
    BY <1>1, <1>4, ClientAssumption DEF RestsOK, Dialing, Links, GivenUp
  <2>2. Serving(link)
    <3>1. accept[link] # "none"
      BY <2>1 DEF GivenUp
    <3> QED
      BY <1>1, <2>1, <3>1 DEF Owned, ReachedOK, Serving, Cut
  <2>3. ThreadsRest(link)
    BY <2>1, <2>2 DEF Settled
  <2>4. recv[link] = "ended"
    BY <2>1, <2>3 DEF GivenUp, ThreadsRest
  <2>5. send[link] = "ended"
    BY <2>1, <2>3, <2>4 DEF GivenUp, ThreadsRest, Made, ThreadsOK
  <2> QED
    BY <2>1, <2>5 DEF GivenUp, Made
<1> QED
  BY <1>2, <1>3, <1>4, ServerIn

(* NamesReleased, for any number of connections: when the program has      *)
(* ended and what is left of its connections has come to rest, nothing     *)
(* keeps a name of shared memory or of a semaphore, unless a daemon was    *)
(* terminated under a connection.                                          *)
THEOREM NamesGoBack == Spec => []NamesReleased
<1>1. ClientInit => BoxInv /\ ClientInv /\ OwnedInv
  BY InitBoxes, InitTyped, InitOwned DEF ClientInit
<1> QED
  BY <1>1, BoxesKept, ClientInvInductive, OwnedInductive, OwnedReleases, PTL DEF Spec
------------------------------------------------------------------------------
(* The wait of a connect: its thread in the server is about to answer, or  *)
(* has answered.                                                           *)
WaitOK == pc = "reply" => accept[link] \in {"accepted", "answered"}

LEMMA Answered == ConnectionsOK /\ BegunOK /\ WaitOK /\ [Next]_allVars => WaitOK'
<1> SUFFICES ASSUME ConnectionsOK, BegunOK, WaitOK, [Next]_allVars PROVE WaitOK'
  OBVIOUS
<1> USE DEF ConnectionsOK
<1>1. CASE Program
  <2>1. CASE Connect \/ Request \/ Disconnect \/ Exit
    BY <2>1 DEF Connect, Request, Disconnect, Exit, WaitOK
  <2>2. CASE Dial /\ UNCHANGED link
    BY <2>2, LinkIn DEF Dial, Close, WaitOK, Dialing, ThreadsOK
  <2>3. CASE Continue /\ ~Dial
    BY <2>3 DEF Continue, Expire, CreateShm, CreateSem, Reply, OpenShm, OpenSem, Last, ProgramCloses, Close, WaitOK
  <2> QED
    BY <1>1, <2>1, <2>2, <2>3 DEF Program
<1>2. ASSUME NEW g \in Links, Server(g) PROVE WaitOK'
  <2>1. SUFFICES ASSUME pc = "reply" PROVE accept'[link] \in {"accepted", "answered"}
    BY <1>2 DEF WaitOK, Server, programVars
  <2>2. link \in Links /\ accept[link] \in {"accepted", "answered"}
    BY <2>1, LinkIn DEF WaitOK, Dialing
  <2> QED
    BY <1>2, <2>2 DEF Server, Answer, Third, ThreadsOK
<1>3. CASE UNCHANGED <<pc, link, accept>>
  BY <1>3 DEF WaitOK
<1> QED
  BY <1>1, <1>2, <1>3 DEF Next, Daemon, Client, ClientTakes, allVars, clientVars, programVars, serverVars

(* The one step of connect that waits for the daemon, handshake-II: as     *)
(* long as the daemon process is there, its thread has answered or has not *)
(* come to rest yet, whatever other connections and commands do.           *)
THEOREM AnswerComes == Spec => [](pc = "reply" /\ Serving(link) => accept[link] = "answered" \/ ~Settled)
<1>1. ClientInit => BoxInv /\ ClientInv /\ OwnedInv /\ WaitOK
  BY InitBoxes, InitTyped, InitOwned DEF ClientInit, WaitOK
<1>2. ClientInv /\ OwnedInv /\ WaitOK => (pc = "reply" /\ Serving(link) => accept[link] = "answered" \/ ~Settled)
  <2>1. SUFFICES ASSUME ClientInv, OwnedInv, WaitOK, pc = "reply", Serving(link), Settled PROVE accept[link] = "answered"
    OBVIOUS
  <2>2. link \in Links
    BY <2>1, LinkIn DEF ClientInv, ConnectionsOK, OwnedInv, Dialing
  <2>3. ThreadsRest(link)
    BY <2>1, <2>2 DEF Settled
  <2> QED
    BY <2>1, <2>3 DEF ThreadsRest, WaitOK
<1>3. ClientInv /\ OwnedInv /\ WaitOK /\ [Next]_allVars => WaitOK'
  BY Answered DEF ClientInv, OwnedInv
<1> QED
  BY <1>1, <1>2, <1>3, BoxesKept, ClientInvInductive, OwnedInductive, PTL DEF Spec
==============================================================================
