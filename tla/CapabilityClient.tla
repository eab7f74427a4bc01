--------------------------- MODULE CapabilityClient ---------------------------
(***************************************************************************)
(* interface/CapabilityLibrary.py: one CapabilityLibrary object of a       *)
(* program, the two processes it starts at each connection, and the        *)
(* threads with which the daemon answers (ipc.rs, shmem.rs).  They meet in *)
(* four names of shared memory and semaphores, which each side creates,    *)
(* opens and unlinks on its own.                                           *)
(*                                                                         *)
(* ShmContext.__enter__ takes the semaphore and then calls                 *)
(* self.test_mark(x), a function of one parameter that gets two: it always *)
(* raises.  Neither process comes to a request or a response, and what     *)
(* would follow is left out here; CapabilityServer has the server's side   *)
(* of it for clients that do speak.                                        *)
(***************************************************************************)
EXTENDS CapabilityManager, Sequences

CONSTANT MaxConnect   \* bound: connections begun

ASSUME ClientAssumption == MaxConnect \in Nat

Links == 1..MaxConnect
Order == <<{"shm_res", "sem_res"}, {"shm_req", "sem_req"}>>   \* as close unlinks them
Names == Order[1] \union Order[2]
Process2 == {"send", "recv"} \X Links
Self == <<"program", 0>>

VARIABLES
    pc,       \* where the program is in its call, "idle" between calls
    link,     \* connections begun
    server,   \* CapabilityLibrary.__server: the connection, or 0
    handles,  \* names of which a ShmManager of the program holds the object
    closed,   \* has the send_process of the server been close()d?
    unlink,   \* close() in the program and in each process: the next of
              \* Order to unlink, or 0
    client,   \* processes: "none", "starting", "ready", "closing", "dead"
    names,    \* the connection whose object a name is, or 0
    value,    \* the value of each connection's two semaphores
    opened,   \* the connection whose sem_res (client), sem_req (server) was opened
    by,       \* the daemon process a connection reached
    accept,   \* try_connect: "none", "accepted", "answered", "sent", "reset", "done"
    send,     \* _send_loop: "none", "new", "shm", "ready", "waits", "ended"
    recv      \* _recv_loop: "none", "new", "waits", "holds", "ended"

programVars == <<pc, link, server, handles, closed>>
serverVars == <<by, accept, send, recv>>
clientVars == <<programVars, unlink, client, names, value, opened, serverVars>>
allVars == <<managerVars, clientVars>>

ClientInit ==
    /\ ManagerInit
    /\ pc = "idle" /\ link = 0 /\ server = 0
    /\ handles = [g \in Links |-> {}] /\ closed = FALSE
    /\ unlink = [w \in {Self} \union Process2 |-> 0]
    /\ client = [w \in Process2 |-> "none"]
    /\ names = [n \in Names |-> 0]
    /\ value = [w \in {"res", "req"} \X Links |-> 0]
    /\ opened = [w \in {"res", "req"} \X Links |-> 0]
    /\ by = [g \in Links |-> 0] /\ accept = [g \in Links |-> "none"]
    /\ send = [g \in Links |-> "none"] /\ recv = [g \in Links |-> "none"]

Serving(g) == by[g] # 0 /\ Alive(by[g])
Started(g) == g # 0 /\ client[<<"send", g>>] # "none"
BothAlive(g) == \A x \in {"send", "recv"} : client[<<x, g>>] # "dead"

------------------------------------------------------------------------------
(* The calls of the program *)

(* connect.  Of a library that has a connection, is_alive raises if start  *)
(* failed or the send process was closed, and otherwise waits for ALIVE if *)
(* both processes are alive.                                               *)
Connect ==
    /\ pc = "idle" /\ program = "client" /\ link < MaxConnect
    /\ \A d \in Daemons : proc[d] \in {"none", "running", "ended"}   \* bound
    /\ \/ server = 0
       \/ Started(server) /\ ~closed /\ ~BothAlive(server)
    /\ pc' = "shm" /\ link' = link + 1
    /\ UNCHANGED <<server, handles, closed, unlink, names, value, opened, accept, by>>

(* A request of is_alive or getCapability: no response comes, and          *)
(* get_response raises at its timeout.                                     *)
Request ==
    /\ pc = "idle" /\ Started(server)
    /\ pc' = "wait"
    /\ UNCHANGED <<link, server, handles, closed, unlink, names, value, opened, accept, by>>

ExpireIfDead == pc = "wait" /\ ~BothAlive(server) /\ pc' = "idle"
Expire == pc = "wait" /\ pc' = "idle"

(* ShmManager(): O_CREX; it raises outside the try, leaving what it made.  *)
CreateShm ==
    /\ pc = "shm"
    /\ IF names["shm_req"] # 0
       THEN pc' = "idle" /\ UNCHANGED <<handles, names>>
       ELSE /\ pc' = "sem" /\ names' = [names EXCEPT !["shm_req"] = link]
            /\ handles' = [handles EXCEPT ![link] = {"shm_req"}]
CreateSem ==
    /\ pc = "sem"
    /\ IF names["sem_req"] # 0
       THEN pc' = "idle" /\ handles' = [handles EXCEPT ![link] = {}] /\ UNCHANGED names
       ELSE /\ pc' = "dial" /\ names' = [names EXCEPT !["sem_req"] = link]
            /\ handles' = [handles EXCEPT ![link] = @ \union {"sem_req"}]

(* send_process.close() raises unless the process has ended; is_alive of a *)
(* closed process raises.                                                  *)
ClosesSender == closed' = (closed \/ client[<<"send", server>>] = "dead")

(* close, of the object of this connect.                                   *)
Close == pc' = "close" /\ unlink' = [unlink EXCEPT ![Self] = 1]

Dial ==   \* handshake-I
    /\ pc = "dial"
    /\ \/ port # 0 /\ pc' = "reply" /\ UNCHANGED unlink
          /\ by' = [by EXCEPT ![link] = port] /\ accept' = [accept EXCEPT ![link] = "accepted"]
       \/ port = 0 /\ Close /\ UNCHANGED <<by, accept>>

(* The object becomes the server; the one before is let go.                *)
Reply ==   \* handshake-II
    /\ pc = "reply"
    /\ \/ /\ accept[link] = "answered" /\ pc' = "open shm" /\ UNCHANGED unlink
          /\ server' = link /\ closed' = FALSE
          /\ handles' = [g \in Links |-> IF g = link THEN handles[g] ELSE {}]
       \/ ~Serving(link) /\ Close /\ UNCHANGED <<server, closed, handles>>

(* start opens what the thread of the server may not have created yet.     *)
OpenShm ==
    /\ pc = "open shm"
    /\ \/ names["shm_res"] = 0 /\ Close /\ UNCHANGED handles
       \/ /\ names["shm_res"] # 0 /\ pc' = "open sem" /\ UNCHANGED unlink
          /\ handles' = [handles EXCEPT ![link] = @ \union {"shm_res"}]
OpenSem ==
    /\ pc = "open sem"
    /\ \/ names["sem_res"] = 0 /\ Close /\ UNCHANGED <<handles, opened, client>>
       \/ /\ names["sem_res"] # 0 /\ pc' = "last" /\ UNCHANGED unlink
          /\ handles' = [handles EXCEPT ![link] = @ \union {"sem_res"}]
          /\ opened' = [opened EXCEPT ![<<"res", link>>] = names["sem_res"]]
          /\ client' = [client EXCEPT ![<<"send", link>>] = "starting", ![<<"recv", link>>] = "ready"]

Last ==   \* handshake-III
    /\ pc = "last"
    /\ \/ pc' = "idle" /\ accept' = [accept EXCEPT ![link] = "sent"] /\ UNCHANGED <<unlink, closed>>
       \/ ~Serving(link) /\ Close /\ ClosesSender /\ UNCHANGED accept

(* disconnect, of a connection that is not alive.                          *)
Disconnect ==
    /\ pc = "idle" /\ Started(server) /\ ~closed /\ ~BothAlive(server)
    /\ pc' = "disconnect" /\ unlink' = [unlink EXCEPT ![Self] = 1] /\ ClosesSender
    /\ UNCHANGED <<link, server, handles, names, value, opened, accept, by, client>>

(* close: each name of which w has the object is unlinked, whosever it is  *)
(* by now; the two of a direction in one step.  Failures are swallowed one *)
(* by one.                                                                 *)
UnlinkTillFailure(w, held) ==
    LET own == Order[unlink[w]] \intersect held
    IN  /\ names' = [n \in Names |-> IF n \in own THEN 0 ELSE names[n]]
        /\ unlink' = [unlink EXCEPT ![w] = IF @ < Len(Order) /\ own # {} THEN @ + 1 ELSE 0]
Unlink(w, held) ==
    LET own == Order[unlink[w]] \intersect held
    IN  /\ names' = [n \in Names |-> IF n \in own THEN 0 ELSE names[n]]
        /\ unlink' = [unlink EXCEPT ![w] = IF @ < Len(Order) THEN @ + 1 ELSE 0]

(* The socket of connect is closed after that: the server reads its end or *)
(* an error.  The object forgets shm_req, and is dropped if it never became*)
(* the server.                                                             *)
ProgramCloses ==
    LET g == IF pc = "close" THEN link ELSE server
    IN  /\ pc \in {"close", "disconnect"}
        /\ Unlink(Self, handles[g])
        /\ IF unlink'[Self] # 0 THEN UNCHANGED <<pc, handles, accept>>
           ELSE /\ pc' = "idle"
                /\ handles' = [handles EXCEPT ![g] = IF g = server THEN @ \ {"shm_req"} ELSE {}]
                /\ \E end \in {"sent", "reset"} :
                       accept' = IF accept[g] \in {"accepted", "answered"}
                                 THEN [accept EXCEPT ![g] = end] ELSE accept

(* The program ends: what runs of its processes is sent SIGTERM, and the   *)
(* handler they inherited calls close.                                     *)
Running(w) == client[w] \in {"starting", "ready"}
Exit ==
    /\ pc = "idle" /\ program = "client" /\ pc' = "exited"
    /\ client' = [w \in Process2 |-> IF Running(w) THEN "closing" ELSE client[w]]
    /\ unlink' = [w \in DOMAIN unlink |-> IF w # Self /\ Running(w) THEN 1 ELSE unlink[w]]
    /\ UNCHANGED <<link, server, handles, closed, names, value, opened, accept, by>>

Continue ==
    \/ Expire /\ UNCHANGED <<server, handles, closed, unlink, names, opened, accept, by, client>>
    \/ (CreateShm \/ CreateSem) /\ UNCHANGED <<server, closed, unlink, opened, accept, by, client>>
    \/ Dial /\ UNCHANGED <<server, handles, closed, names, opened, client>>
    \/ Reply /\ UNCHANGED <<names, opened, accept, by, client>>
    \/ OpenShm /\ UNCHANGED <<server, closed, names, opened, accept, by, client>>
    \/ OpenSem /\ UNCHANGED <<server, closed, names, accept, by>>
    \/ Last /\ UNCHANGED <<server, handles, names, opened, by, client>>
    \/ ProgramCloses /\ UNCHANGED <<server, closed, opened, by, client>>

Program ==
    /\ \/ (Connect \/ Request) /\ UNCHANGED client
       \/ Disconnect \/ Exit
       \/ Continue /\ UNCHANGED <<link, value>>
    /\ UNCHANGED <<send, recv>>

------------------------------------------------------------------------------
(* The processes of a connection *)

Sender(g) == <<"send", g>>
Receiver(g) == <<"recv", g>>
Dying(w) == client' = [client EXCEPT ![w] = "closing"] /\ unlink' = [unlink EXCEPT ![w] = 1]

Releases(g) ==   \* send: ready to write
    /\ client[Sender(g)] = "starting" /\ client' = [client EXCEPT ![Sender(g)] = "ready"]
    /\ value' = [value EXCEPT ![<<"req", g>>] = 1]
    /\ UNCHANGED <<unlink, names>>

SenderTakes(g) ==
    /\ client[Sender(g)] = "ready" /\ value[<<"req", g>>] = 1
    /\ value' = [value EXCEPT ![<<"req", g>>] = 0]
    /\ Dying(Sender(g)) /\ UNCHANGED names

ReceiverTakes(g) ==
    LET r == <<"res", opened[<<"res", g>>]>>
    IN  /\ client[Receiver(g)] = "ready" /\ value[r] = 1
        /\ value' = [value EXCEPT ![r] = 0]
        /\ Dying(Receiver(g)) /\ UNCHANGED names

ProcessCloses(w) ==
    /\ client[w] = "closing"
    /\ Unlink(w, Names)
    /\ client' = [client EXCEPT ![w] = IF unlink'[w] = 0 THEN "dead" ELSE @]
    /\ UNCHANGED value

Client(g) ==
    /\ Releases(g) \/ ReceiverTakes(g) \/ ProcessCloses(Sender(g)) \/ ProcessCloses(Receiver(g))
    /\ UNCHANGED <<programVars, opened, serverVars>>

ClientTakes(g) == SenderTakes(g) /\ UNCHANGED <<programVars, opened, serverVars>>

------------------------------------------------------------------------------
(* The daemon's side of a connection *)

Answer(g) ==   \* try_connect, to handshake-II
    /\ accept[g] = "accepted"
    /\ accept' = [accept EXCEPT ![g] = "answered"] /\ send' = [send EXCEPT ![g] = "new"]
    /\ UNCHANGED <<names, value, opened, recv>>

(* The end of the stream passes for handshake-III.  After an error no      *)
(* receive thread is started, and nobody has the channel.                  *)
Third(g) ==
    /\ \/ accept[g] = "sent" /\ recv' = [recv EXCEPT ![g] = "new"]
       \/ accept[g] = "reset" /\ recv' = [recv EXCEPT ![g] = "ended"]
    /\ send[g] # "none"
    /\ accept' = [accept EXCEPT ![g] = "done"]
    /\ UNCHANGED <<names, value, opened, send>>

CreatesShm(g) ==
    /\ send[g] = "new"
    /\ IF names["shm_res"] = 0
       THEN send' = [send EXCEPT ![g] = "shm"] /\ names' = [names EXCEPT !["shm_res"] = g]
       ELSE send' = [send EXCEPT ![g] = "ended"] /\ UNCHANGED names
    /\ UNCHANGED value

CreatesSem(g) ==   \* and posts it; unwrap panics if it exists, dropping the memory
    /\ send[g] = "shm"
    /\ IF names["sem_res"] = 0
       THEN /\ send' = [send EXCEPT ![g] = "ready"] /\ names' = [names EXCEPT !["sem_res"] = g]
            /\ value' = [value EXCEPT ![<<"res", g>>] = 1]
       ELSE /\ send' = [send EXCEPT ![g] = "ended"] /\ names' = [names EXCEPT !["shm_res"] = 0]
            /\ UNCHANGED value

Ends(g) ==   \* _close, and the drop of shm_res
    /\ send' = [send EXCEPT ![g] = "ended"]
    /\ names' = [names EXCEPT !["shm_res"] = 0, !["sem_res"] = 0]

SendTakes(g) ==
    /\ send[g] = "ready" /\ value[<<"res", g>>] = 1
    /\ value' = [value EXCEPT ![<<"res", g>>] = 0]
    /\ \/ names["shm_res"] = 0 /\ Ends(g)
       \/ names["shm_res"] # 0 /\ send' = [send EXCEPT ![g] = "waits"] /\ UNCHANGED names

SendEnds(g) ==   \* rx.recv: every sender is gone
    /\ send[g] = "waits" /\ recv[g] = "ended"
    /\ Ends(g) /\ UNCHANGED value

RecvOpens(g) ==   \* unwrap panics if the name is gone
    /\ recv[g] = "new"
    /\ IF names["sem_req"] = 0
       THEN recv' = [recv EXCEPT ![g] = "ended"] /\ UNCHANGED opened
       ELSE /\ recv' = [recv EXCEPT ![g] = "waits"]
            /\ opened' = [opened EXCEPT ![<<"req", g>>] = names["sem_req"]]
    /\ UNCHANGED <<names, value>>

(* acquire_lock: as long as no request is marked it gives the semaphore    *)
(* back; without the memory it ends, and keeps the semaphore.              *)
RecvTakes(g) ==
    LET r == <<"req", opened[<<"req", g>>]>>
    IN  /\ recv[g] = "waits" /\ value[r] = 1
        /\ value' = [value EXCEPT ![r] = 0]
        /\ IF names["shm_req"] = 0
           THEN recv' = [recv EXCEPT ![g] = "ended"] /\ names' = [names EXCEPT !["sem_req"] = 0]
           ELSE recv' = [recv EXCEPT ![g] = "holds"] /\ UNCHANGED names
        /\ UNCHANGED opened

GivesBack(g) ==
    /\ recv[g] = "holds" /\ recv' = [recv EXCEPT ![g] = "waits"]
    /\ value' = [value EXCEPT ![<<"req", opened[<<"req", g>>]>>] = 1]
    /\ UNCHANGED <<names, opened>>

Server(g) ==
    /\ Serving(g)
    /\ \/ Answer(g) \/ Third(g)
       \/ (CreatesShm(g) \/ CreatesSem(g) \/ SendTakes(g) \/ SendEnds(g)) /\ UNCHANGED <<opened, recv, accept>>
       \/ (RecvOpens(g) \/ RecvTakes(g) \/ GivesBack(g)) /\ UNCHANGED <<send, accept>>
    /\ UNCHANGED <<programVars, unlink, client, by>>

------------------------------------------------------------------------------
(* A daemon process that ends takes its threads with it.                   *)
Daemon(d) ==
    /\ Process(d) /\ UNCHANGED tabVars
    /\ LET gone == {g \in Links : by[g] = d /\ proc'[d] = "ended"}
       IN  /\ send' = [g \in Links |-> IF g \in gone THEN "ended" ELSE send[g]]
           /\ recv' = [g \in Links |-> IF g \in gone THEN "ended" ELSE recv[g]]
    /\ UNCHANGED <<programVars, unlink, client, names, value, opened, by, accept>>

(* A command that runs beside a client looks and acts without a step of    *)
(* the client in between: neither reads what the other writes meanwhile.   *)
Next ==
    \/ \E d \in Daemons : Daemon(d)
    \/ /\ CommandSteps /\ UNCHANGED clientVars
       /\ program = "client" /\ job["cli"] = None => link < MaxConnect   \* bound
    \/ TabSteps /\ UNCHANGED clientVars
    \/ /\ Program \/ \E g \in Links : Client(g) \/ ClientTakes(g) \/ Server(g)
       /\ job["cli"] = None
       /\ UNCHANGED managerVars

(* A daemon process that is starting or told to end goes on.               *)
Fairness == \A d \in Daemons : WF_allVars(Daemon(d))

Spec == ClientInit /\ [][Next]_allVars /\ Fairness

------------------------------------------------------------------------------
(* Properties *)

ClientTypeOK ==
    /\ ManagerTypeOK
    /\ pc \in {"idle", "wait", "shm", "sem", "dial", "reply", "open shm", "open sem", "last", "close", "disconnect", "exited"}
    /\ link \in 0..MaxConnect /\ server \in 0..link /\ closed \in BOOLEAN
    /\ handles \in [Links -> SUBSET Names]
    /\ unlink \in [{Self} \union Process2 -> 0..Len(Order)]
    /\ pc \in {"close", "disconnect"} <=> unlink[Self] # 0
    /\ client \in [Process2 -> {"none", "starting", "ready", "closing", "dead"}]
    /\ \A w \in Process2 : client[w] = "closing" <=> unlink[w] # 0
    /\ names \in [Names -> 0..link]
    /\ value \in [{"res", "req"} \X Links -> {0, 1}]
    /\ by \in [Links -> 0..MaxDaemon]
    /\ accept \in [Links -> {"none", "accepted", "answered", "sent", "reset", "done"}]
    /\ send \in [Links -> {"none", "new", "shm", "ready", "waits", "ended"}]
    /\ recv \in [Links -> {"none", "new", "waits", "holds", "ended"}]
    /\ \A g \in Links : send[g] # "none" \/ recv[g] # "none" => by[g] # 0
    /\ \A g \in Links : client[Receiver(g)] # "none" => opened[<<"res", g>>] \in Links
    /\ \A g \in Links : recv[g] \in {"waits", "holds"} => opened[<<"req", g>>] \in Links

(* What is left of the connections has nothing more to do: a process waits *)
(* for a semaphore that nobody gives, or is gone, and so for the threads.  *)
ProcessRests(w, awaited) == client[w] \in {"none", "dead"} \/ (client[w] = "ready" /\ value[awaited] = 0)
ThreadsRest(g) ==
    /\ accept[g] # "accepted"
    /\ accept[g] \in {"sent", "reset"} => send[g] = "none"
    /\ send[g] \notin {"new", "shm"} /\ recv[g] \notin {"new", "holds"}
    /\ send[g] = "ready" => value[<<"res", g>>] = 0
    /\ send[g] = "waits" => recv[g] # "ended"
    /\ recv[g] = "waits" => value[<<"req", opened[<<"req", g>>]>>] = 0
Settled ==
    \A g \in Links :
        /\ ProcessRests(Sender(g), <<"req", g>>)
        /\ ProcessRests(Receiver(g), <<"res", opened[<<"res", g>>]>>)
        /\ Serving(g) => ThreadsRest(g)

(* connect, disconnect, is_alive and getCapability return, with a result   *)
(* or an exception: a call never waits for processes and threads that are  *)
(* all stuck or gone, whoever is started, stopped, killed or cut off.      *)
CallsGoOn == pc \notin {"idle", "exited"} => ENABLED Continue \/ ~Settled

Cut == \E g \in Links : by[g] # 0 /\ ~Alive(by[g])

(* However the handshake, the processes and the threads of the server      *)
(* interleave, panic, raise or meet those of an earlier connection, nothing*)
(* keeps its name when the program has ended, unless a daemon was          *)
(* terminated under a connection.                                          *)
NamesReleased == pc = "exited" /\ Settled /\ ~Cut => \A n \in Names : names[n] = 0
==============================================================================
