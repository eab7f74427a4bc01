-------------------------- MODULE CapabilityServer --------------------------
(***************************************************************************)
(* The capability daemon: the TCP server that accepts clients (ipc.rs),    *)
(* the two threads that serve a client over shared memory (shmem.rs), and  *)
(* the one FFIManager all of them share behind a mutex.                    *)
(*                                                                         *)
(* A handler of the receive loop that locks the manager is one action; the *)
(* finalization of a receive loop undoes its registrations one by one      *)
(* while it holds the lock.  The transport is the channel it implements: a *)
(* request is handed over whole and a response is delivered whole.  The    *)
(* client numbers its requests 1, 2, 3, ...                                *)
(***************************************************************************)
EXTENDS FFIManager, FiniteSets

CONSTANTS Conn,        \* client connections
          Requests,    \* the kinds of requests the clients make
          Reregister,  \* may a client register a name it has registered?
          MaxReq,      \* bound: requests of one connection
          Silent       \* the tag of a call without a callback

Kinds == {"alive", "register", "unregister", "call", "one_way", "chain_call"}

ASSUME ServerAssumption ==
    /\ Tag = (Conn \X (1..MaxReq)) \union {Silent}
    /\ Silent \notin Conn \X (1..MaxReq)
    /\ Requests \subseteq Kinds
    /\ Reregister \in BOOLEAN
    /\ MaxReq \in Nat
    /\ \A h \in Handle : h # None

VARIABLES
    poisoned,   \* the mutex of the manager: a thread panicked holding it
    handshake,  \* try_connect: "new", "accepted", "id_read", "done", "failed"
    recv,       \* _recv_loop: "none", "running", "stopping", "releasing",
                \* "ended", "panicked"
    send,       \* _send_loop: "none", "waits" (in acquire_write_lock), "running"
                \* (with the slot, in rx.recv()), "ended"
    records,    \* register_records of each receive loop
    asked,      \* the kinds of the requests received so far
    chan,       \* the mpsc channel: numbers of the requests answered
    answers,    \* the request numbers written to the response slot
    lost,       \* calls whose service function panicked
    conns       \* IPCServer.conns

serverVars == <<poisoned, handshake, recv, send, records, asked, chan,
                answers, lost, conns>>
allVars == <<vars, serverVars>>

NoRecords == [n \in Name |-> None]

ServerInit ==
    /\ Init
    /\ poisoned = FALSE
    /\ handshake = [c \in Conn |-> "new"]
    /\ recv = [c \in Conn |-> "none"]
    /\ send = [c \in Conn |-> "none"]
    /\ records = [c \in Conn |-> NoRecords]
    /\ asked = [c \in Conn |-> <<>>]
    /\ chan = [c \in Conn |-> <<>>]
    /\ answers = [c \in Conn |-> <<>>]
    /\ lost = [c \in Conn |-> {}]
    /\ conns = <<>>

------------------------------------------------------------------------------
(* The server accepts clients *)

Sending(c) == send[c] \in {"waits", "running"}   \* the send loop is up

(* is_alive: fewer than two threads of the connection are active. *)
ActiveCount(c) == Cardinality({t \in {"send", "recv"} :
    \/ t = "send" /\ Sending(c)
    \/ t = "recv" /\ recv[c] \in {"running", "stopping", "releasing"}})
IsAlive(c) == ActiveCount(c) < 2

(* daemon: before a client is served, the first connection for which       *)
(* !is_alive() is dropped from the list.                                   *)
DropFirst ==
    \/ (\A i \in 1..Len(conns) : IsAlive(conns[i])) /\ UNCHANGED conns
    \/ \E i \in 1..Len(conns) :
          /\ ~IsAlive(conns[i]) /\ \A j \in 1..(i-1) : IsAlive(conns[j])
          /\ conns' = RemoveAt(conns, i)

Accept(c) ==
    /\ handshake[c] = "new"
    /\ handshake' = [handshake EXCEPT ![c] = "accepted"]
    /\ DropFirst
    /\ UNCHANGED <<vars, poisoned, recv, send, records, asked, chan, answers, lost>>

(* try_connect: the send thread is started after the id is read, the       *)
(* receive thread after the client has answered.                           *)
ReadId(c) ==
    /\ handshake[c] = "accepted"
    /\ handshake' = [handshake EXCEPT ![c] = "id_read"]
    /\ send' = [send EXCEPT ![c] = "waits"]
    /\ UNCHANGED <<vars, poisoned, recv, records, asked, chan, answers, lost, conns>>

Connected(c) ==
    /\ handshake[c] = "id_read"
    /\ handshake' = [handshake EXCEPT ![c] = "done"]
    /\ \E r \in {"running", "panicked"} : recv' = [recv EXCEPT ![c] = r] \* sem_open
    /\ conns' = Append(conns, c)
    /\ UNCHANGED <<vars, poisoned, send, records, asked, chan, answers, lost>>

HandshakeFails(c) ==
    /\ handshake[c] \in {"accepted", "id_read"}
    /\ handshake' = [handshake EXCEPT ![c] = "failed"]
    /\ UNCHANGED <<vars, poisoned, recv, send, records, asked, chan, answers, lost, conns>>

------------------------------------------------------------------------------
(* The receive loop *)

(* ffi.lock() fails once a thread has panicked with the lock; otherwise it *)
(* waits for the finalization that holds it.                               *)
LockRecovers == FALSE
LockFails == poisoned
LockFree == \A c \in Conn : recv[c] # "releasing"

Receive(c, kind) ==
    /\ recv[c] = "running"
    /\ kind \in Requests
    /\ Len(asked[c]) < MaxReq
    /\ asked' = [asked EXCEPT ![c] = Append(@, kind)]
    /\ UNCHANGED <<handshake, send, answers, lost, conns>>

NumberOffByOne(c) == Len(asked[c])
Number(c) == Len(asked[c]) + 1         \* of the request being received

PutNothing(c, n, h) == records
PutOnRecord(c, n, h) == [records EXCEPT ![c][n] = h]

ForgetNothing(c, n) == records
Forget(c, n) == [records EXCEPT ![c][n] = None]

(* tx.send(..)?: once the send loop is gone the receive loop stops. *)
Reply(c) ==
    IF Sending(c)
    THEN chan' = [chan EXCEPT ![c] = Append(@, Number(c))] /\ UNCHANGED recv
    ELSE recv' = [recv EXCEPT ![c] = "stopping"] /\ UNCHANGED chan

Stop(c) == recv' = [recv EXCEPT ![c] = "stopping"] /\ UNCHANGED chan

RecvAlive(c) ==
    /\ Receive(c, "alive")
    /\ Reply(c)
    /\ UNCHANGED <<vars, poisoned, records>>

(* REGISTER: on success the handle is put on record under the name, over   *)
(* an earlier one; a failure or a poisoned lock answers an empty sig.      *)
RecvRegister(c, n) ==
    /\ Receive(c, "register")
    /\ Reregister \/ records[c][n] = None
    /\ Reply(c)
    /\ UNCHANGED poisoned
    /\ \/ /\ LockFree /\ ~LockFails
          /\ \E s \in ServiceSig, u \in UsageSig :
                /\ Register(n, s, u)
                /\ records' = PutOnRecord(c, n, <<s, u>>)
       \/ /\ LockFree /\ ~LockFails
          /\ RegisterFails(n) /\ UNCHANGED records
       \/ /\ LockFails
          /\ UNCHANGED <<vars, records>>

(* UNREGISTER: the recorded handle of the name is given back; no answer. *)
RecvUnregister(c, n) ==
    /\ Receive(c, "unregister")
    /\ UNCHANGED poisoned
    /\ IF LockFails
       THEN Stop(c) /\ UNCHANGED <<vars, records>>
       ELSE /\ LockFree
            /\ UNCHANGED <<recv, chan>>
            /\ IF records[c][n] # None
               THEN /\ Unregister(n, records[c][n])
                    /\ records' = Forget(c, n)
               ELSE UNCHANGED <<vars, records>>

(* CALL and ONE_WAY: the call is queued; its callback answers, or not. *)
AnswersFirst(c, kind) == IF kind = "call" THEN <<c, 1>> ELSE Silent
NeverAnswers(c, kind) == Silent
CallbackTag(c, kind) == IF kind = "call" THEN <<c, Number(c)>> ELSE Silent

RecvCall(c, kind, h) ==
    /\ kind \in {"call", "one_way"}
    /\ Receive(c, kind)
    /\ UNCHANGED <<poisoned, records>>
    /\ IF LockFails
       THEN Stop(c) /\ UNCHANGED vars
       ELSE /\ LockFree
            /\ Execute(h, CallbackTag(c, kind))
            /\ UNCHANGED <<recv, chan>>

(* CHAIN_CALL: chain_execute is unimplemented!(), which panics while the   *)
(* lock is held: the thread is gone without its finalization.              *)
RecvChainCall(c) ==
    /\ Receive(c, "chain_call")
    /\ UNCHANGED vars
    /\ IF LockFails
       THEN Stop(c) /\ UNCHANGED <<poisoned, records>>
       ELSE /\ LockFree
            /\ poisoned' = TRUE
            /\ recv' = [recv EXCEPT ![c] = "panicked"]
            /\ records' = [records EXCEPT ![c] = NoRecords]
            /\ UNCHANGED chan

(* Any other error of the loop ends it: the client removed the shared      *)
(* memory, or sent a request that does not parse.                          *)
RecvFails(c) ==
    /\ recv[c] = "running"
    /\ Stop(c)
    /\ UNCHANGED <<vars, poisoned, handshake, send, records, asked, answers, lost, conns>>

(* Finalization after the loop: with the lock, unless it is poisoned, all  *)
(* recorded registrations are undone.                                      *)
Finalize(c) ==
    /\ recv[c] = "stopping"
    /\ IF LockFails
       THEN /\ recv' = [recv EXCEPT ![c] = "ended"]
            /\ records' = [records EXCEPT ![c] = NoRecords]
       ELSE /\ LockFree
            /\ recv' = [recv EXCEPT ![c] = "releasing"]
            /\ UNCHANGED records
    /\ UNCHANGED <<vars, poisoned, handshake, send, asked, chan, answers, lost, conns>>

ReleaseRecord(c, n) ==
    /\ recv[c] = "releasing"
    /\ records[c][n] # None
    /\ Unregister(n, records[c][n])
    /\ records' = Forget(c, n)
    /\ UNCHANGED <<poisoned, handshake, recv, send, asked, chan, answers, lost, conns>>

Finalized(c) ==
    /\ recv[c] = "releasing"
    /\ records[c] = NoRecords
    /\ recv' = [recv EXCEPT ![c] = "ended"]
    /\ UNCHANGED <<vars, poisoned, handshake, send, records, asked, chan, answers, lost, conns>>

------------------------------------------------------------------------------
(* The pool and the send loop *)

(* A call ends: its callback sends the result to the channel, which is     *)
(* ignored once the send loop is gone; a function that panics takes the    *)
(* callback with it.                                                       *)
FinishCall(i) ==
    /\ Finish(i)
    /\ LET t == pool[i].tag
       IN  IF t = Silent
           THEN UNCHANGED <<chan, lost>>
           ELSE \/ /\ Sending(t[1])
                   /\ chan' = [chan EXCEPT ![t[1]] = Append(@, t[2])]
                   /\ UNCHANGED lost
                \/ /\ ~Sending(t[1])
                   /\ UNCHANGED <<chan, lost>>
                \/ /\ pool[i].service # None
                   /\ lost' = [lost EXCEPT ![t[1]] = @ \union {t[2]}]
                   /\ UNCHANGED chan
    /\ UNCHANGED <<poisoned, handshake, recv, send, records, asked, answers, conns>>

(* acquire_write_lock returns: the client has read the answer before, and  *)
(* does not hold the semaphore.  Until then the send loop spins in it; it  *)
(* is the client on whom this depends.                                     *)
AcquireWriteLock(c) ==
    /\ send[c] = "waits"
    /\ send' = [send EXCEPT ![c] = "running"]
    /\ UNCHANGED <<vars, poisoned, handshake, recv, records, asked, chan, answers, lost, conns>>

(* rx.recv() has an answer: it is written to the slot, which is the        *)
(* client's until it is read.                                              *)
Deliver(c) ==
    /\ send[c] = "running" /\ chan[c] # <<>>
    /\ send' = [send EXCEPT ![c] = "waits"]
    /\ answers' = [answers EXCEPT ![c] = Append(@, Head(chan[c]))]
    /\ chan' = [chan EXCEPT ![c] = Tail(@)]
    /\ UNCHANGED <<vars, poisoned, handshake, recv, records, asked, lost, conns>>

(* rx.recv() fails when the last sender is dropped: the handshake, the     *)
(* receive loop and every pending callback hold one.                       *)
SenderKept(c) == handshake[c] \in {"id_read", "done"}
SenderExists(c) ==
    \/ handshake[c] = "id_read"
    \/ recv[c] \in {"running", "stopping", "releasing"}
    \/ \E i \in 1..Len(pool) : pool[i].tag # Silent /\ pool[i].tag[1] = c

SendEnds(c) ==
    /\ send[c] = "running"
    /\ chan[c] = <<>> /\ ~SenderExists(c)
    /\ send' = [send EXCEPT ![c] = "ended"]
    /\ UNCHANGED <<vars, poisoned, handshake, recv, records, asked, chan, answers, lost, conns>>

(* The client removed the shared memory of the responses. *)
SendFails(c) ==
    /\ Sending(c)
    /\ send' = [send EXCEPT ![c] = "ended"]
    /\ chan' = [chan EXCEPT ![c] = <<>>]
    /\ UNCHANGED <<vars, poisoned, handshake, recv, records, asked, answers, lost, conns>>

Reconfigure(n, v) == SetConfig(n, v) /\ UNCHANGED serverVars

ServerNext ==
    \/ \E c \in Conn :
        \/ Accept(c) \/ ReadId(c) \/ Connected(c) \/ HandshakeFails(c)
        \/ RecvAlive(c) \/ RecvChainCall(c) \/ RecvFails(c)
        \/ \E n \in Name : RecvRegister(c, n) \/ RecvUnregister(c, n)
        \/ \E k \in {"call", "one_way"}, h \in Handle : RecvCall(c, k, h)
        \/ Finalize(c) \/ Finalized(c)
        \/ \E n \in Name : ReleaseRecord(c, n)
        \/ AcquireWriteLock(c) \/ Deliver(c) \/ SendEnds(c) \/ SendFails(c)
    \/ \E i \in 1..MaxJobs : FinishCall(i)
    \/ \E n \in Name, v \in Version \union {None} : Reconfigure(n, v)

ServerSpec == ServerInit /\ [][ServerNext]_allVars

(* Fairness: threads that hold or wait for the mutex run on, a send loop   *)
(* that has the slot takes what comes from the channel, and the oldest     *)
(* call in the pool returns or panics.  That a send loop gets the slot is  *)
(* up to the client, of whom nothing is assumed.                           *)
ServerFairness ==
    /\ \A c \in Conn :
        /\ WF_allVars(Finalize(c)) /\ WF_allVars(Finalized(c))
        /\ \A n \in Name : WF_allVars(ReleaseRecord(c, n))
        /\ WF_allVars(Deliver(c)) /\ WF_allVars(SendEnds(c))
    /\ WF_allVars(FinishCall(1))

FairServerSpec == ServerSpec /\ ServerFairness

------------------------------------------------------------------------------
(* Properties *)

ServerTypeOK ==
    /\ TypeOK
    /\ poisoned \in BOOLEAN
    /\ handshake \in [Conn -> {"new", "accepted", "id_read", "done", "failed"}]
    /\ recv \in [Conn -> {"none", "running", "stopping", "releasing", "ended", "panicked"}]
    /\ send \in [Conn -> {"none", "waits", "running", "ended"}]
    /\ records \in [Conn -> [Name -> {None} \union Handle]]
    /\ asked \in [Conn -> Seq(Kinds)]
    /\ chan \in [Conn -> Seq(1..MaxReq)]
    /\ answers \in [Conn -> Seq(1..MaxReq)]
    /\ lost \in [Conn -> SUBSET (1..MaxReq)]
    /\ conns \in Seq(Conn)

(* A registration on record is in force: whatever the other connections    *)
(* register, give back or drop, and whatever is uninstalled meanwhile, the *)
(* handle a receive loop holds for a name is a usage of the service loaded *)
(* under that name, and no other record holds the same handle.             *)
RecordsInForce ==
    \A c \in Conn, n \in Name : records[c][n] # None =>
        /\ service_map[n] = records[c][n][1]
        /\ records[c][n][2] \in Usages(records[c][n][1])
        /\ \A d \in Conn, m \in Name :
               records[d][m] = records[c][n] => d = c /\ m = n

(* No usage is forgotten: while clients do not register a name twice, and  *)
(* until a thread panics with the lock, every usage in the table is on the *)
(* record of a receive loop, so that the finalizations of all connections  *)
(* unload every service.                                                   *)
UsagesOnRecord ==
    ~poisoned => \A s \in ServiceSig : \A u \in Usages(s) :
        \E c \in Conn, n \in Name : records[c][n] = <<s, u>>

(* The response channel carries no answer to a request that has none       *)
(* (UNREGISTER, ONE_WAY) and at most one answer to any other, whichever of *)
(* the receive thread and the pool's workers produces it.                  *)
AnswersMatchRequests ==
    \A c \in Conn :
        LET all == answers[c] \o chan[c]
        IN  /\ \A i \in 1..Len(all) :
                   /\ all[i] \in 1..Len(asked[c])
                   /\ asked[c][all[i]] \in {"alive", "register", "call"}
            /\ \A i, j \in 1..Len(all) : all[i] = all[j] => i = j

(* After a thread has panicked with the lock, the tables are frozen: no    *)
(* registration, release or finalization changes them ever again.          *)
PoisonFreezesTables == [][poisoned => UNCHANGED <<tables, poisoned>>]_allVars

(* The client of c reads: no answer stays in the slot for ever, so that    *)
(* the send loop always gets out of acquire_write_lock again.              *)
ClientReads(c) == []<>(send[c] # "waits")

(* As long as the client reads what it is sent, a CALL is answered, unless *)
(* its function panics or the send loop of its connection ends: whatever   *)
(* the other connections do, and also after its receive loop has stopped.  *)
CallsAnswered ==
    \A c \in Conn : ClientReads(c) => \A q \in 1..MaxReq :
        (recv[c] = "running" /\ q <= Len(asked[c]) /\ asked[c][q] = "call")
            ~> (\/ \E i \in 1..Len(answers[c]) : answers[c][i] = q
                \/ q \in lost[c]
                \/ send[c] = "ended")

(* A connection whose loop stops gives its registrations back, whether its *)
(* client reads or not: its finalization gets the lock.  Its send thread   *)
(* ends after the last pending answer, as long as the client reads.        *)
StoppedIsFinalized ==
    \A c \in Conn :
        /\ recv[c] = "stopping" ~> recv[c] = "ended"
        /\ ClientReads(c) => (recv[c] = "stopping" ~> send[c] = "ended")

(* shmem.rs: "finalization after connection drop"; ffi.rs: "cleanup if all *)
(* usages gone".  When every receive loop that ran has ended through its   *)
(* finalization, no service stays loaded.                                  *)
DropUnloads ==
    (\A c \in Conn : recv[c] \in {"none", "ended"})
        => \A s \in ServiceSig : services[s] = None
==============================================================================
