------------------------ MODULE CapabilityServerProofs ------------------------
(***************************************************************************)
(* First the manager on its own.  For every set of names, versions and     *)
(* signatures and every pool size the tables of the manager agree, hold no *)
(* idle service, and implement the reference-counted registry of           *)
(* ServiceRegistry.                                                        *)
(*                                                                         *)
(* Then the daemon, for any number of clients and requests: it uses the    *)
(* manager only as FFIManager allows, the registrations on the records of  *)
(* the receive loops are in force and, until a thread panics with the      *)
(* lock, account for every usage; afterwards the tables are frozen.  And   *)
(* the answers: none to a request that has none, at most one to another.   *)
(***************************************************************************)
EXTENDS CapabilityServer, SequenceTheorems, TLAPS

(* A call that leaves the pool leaves a sequence of calls behind. *)
LEMMA RemoveAtType ==
    ASSUME NEW S, NEW q \in Seq(S), NEW i \in 1..Len(q)
    PROVE  RemoveAt(q, i) \in Seq(S)
<1>1. SubSeq(q, 1, i-1) \in Seq(S)
  BY SubSeqProperties
<1>2. SubSeq(q, i+1, Len(q)) \in Seq(S)
  BY SubSeqProperties
<1>. QED BY <1>1, <1>2, ConcatProperties DEF RemoveAt

(* What get_service_by_sig answers is a loaded service or nothing. *)
LEMMA GetServiceBySigType ==
    ASSUME TypeOK, NEW h \in Handle
    PROVE  GetServiceBySig(h) \in {None} \union Service
BY DEF TypeOK, Handle, GetServiceBySig

(* The usages of a signature are a set of usage signatures, and empty when *)
(* and only when nothing is loaded under it.                               *)
LEMMA UsagesType ==
    ASSUME TableInv, NEW s \in ServiceSig
    PROVE  /\ Usages(s) \in SUBSET UsageSig
           /\ Usages(s) = {} <=> usage_map[s] = None
BY NoneAssumption DEF TableInv, TypeOK, NoIdleService, Usages

------------------------------------------------------------------------------
(* The steps that leave the three tables alone keep what is said of them. *)
LEMMA TablesUnchanged ==
    ASSUME TableInv, UNCHANGED tables
    PROVE  MapsAgree' /\ NoIdleService'
BY DEF TableInv, TypeOK, MapsAgree, NoIdleService, tables

LEMMA RegisterKeeps ==
    ASSUME TableInv, NEW n \in Name, NEW s \in ServiceSig, NEW u \in UsageSig,
           Register(n, s, u)
    PROVE  TableInv'
<1>1. /\ Usages(s) \in SUBSET UsageSig
      /\ usage_map' = [usage_map EXCEPT ![s] = Usages(s) \union {u}]
      /\ usage_map'[s] = Usages(s) \union {u}
      /\ usage_map'[s] # None
  BY UsagesType, NoneAssumption DEF Register, TableInv, TypeOK
<1>2. CASE Shares(n, s)
  <2>1. TypeOK'
    BY <1>1, <1>2 DEF TableInv, TypeOK, Register, Shares
  <2>2. MapsAgree' /\ NoIdleService'
    BY <1>1, <1>2, NoneAssumption DEF TableInv, TypeOK, Shares, MapsAgree, NoIdleService
  <2>. QED BY <2>1, <2>2 DEF TableInv
<1>3. CASE Loads(n, s)
  <2>. DEFINE new == [name |-> n, version |-> config[n]]
  <2>1. new \in Service /\ new # None
    BY NoneAssumption DEF Register, HasConfig, FreshUsage, TableInv, TypeOK, Service
  <2>2. TypeOK'
    BY <1>1, <1>3, <2>1 DEF TableInv, TypeOK, Register, Loads
  <2>3. services[s] = None /\ \A m \in Name : service_map[m] # s
    BY <1>3, NoneAssumption DEF TableInv, TypeOK, Loads, MapsAgree
  <2>4. MapsAgree'
    BY <1>1, <1>3, <2>1, <2>3, NoneAssumption DEF TableInv, TypeOK, Loads, MapsAgree
  <2>5. NoIdleService'
    BY <1>1 DEF TableInv, TypeOK, NoIdleService
  <2>. QED BY <2>2, <2>4, <2>5 DEF TableInv
<1>. QED BY <1>2, <1>3 DEF Register

LEMMA UnregisterKeeps ==
    ASSUME TableInv, NEW n \in Name, NEW h \in Handle, Unregister(n, h)
    PROVE  TableInv'
<1>. DEFINE s == h[1]
            rest == Usages(s) \ {h[2]}
<1>1. s \in ServiceSig /\ rest \in SUBSET UsageSig
  BY UsagesType DEF Handle
<1>2. CASE service_map[n] # s
  BY <1>2, TablesUnchanged DEF Unregister, TableInv, TypeOK, tables
<1>3. CASE service_map[n] = s /\ rest = {}
  <2>1. TypeOK'
    BY <1>1, <1>3 DEF TableInv, TypeOK, Unregister, Cleanup
  <2>2. MapsAgree'
    <3>1. /\ services' = [services EXCEPT ![s] = None]
          /\ service_map' = [service_map EXCEPT ![n] = None]
          /\ usage_map' = [usage_map EXCEPT ![s] = None]
      BY <1>3 DEF Unregister, Cleanup
    <3>2. \A t \in ServiceSig : services[t] # None => services[t].name \in Name
      BY DEF TableInv, TypeOK, Service
    <3>3. \A m \in Name \ {n} : service_map[m] # s
      BY <1>1, <1>3, NoneAssumption DEF TableInv, TypeOK, MapsAgree
    <3>. QED BY <1>1, <1>3, <3>1, <3>2, <3>3, NoneAssumption
             DEF TableInv, TypeOK, MapsAgree
  <2>3. NoIdleService'
    BY <1>1, <1>3, NoneAssumption DEF TableInv, TypeOK, Unregister, Cleanup, NoIdleService
  <2>. QED BY <2>1, <2>2, <2>3 DEF TableInv
<1>4. CASE service_map[n] = s /\ rest # {}
  <2>1. TypeOK'
    BY <1>1, <1>4 DEF TableInv, TypeOK, Unregister
  <2>2. MapsAgree'
    BY <1>1, <1>4, NoneAssumption DEF TableInv, TypeOK, Unregister, MapsAgree
  <2>3. NoIdleService'
    BY <1>1, <1>4, NoneAssumption DEF TableInv, TypeOK, Unregister, NoIdleService
  <2>. QED BY <2>1, <2>2, <2>3 DEF TableInv
<1>. QED BY <1>2, <1>3, <1>4

(* No step of the manager disturbs the table invariant. *)
LEMMA TableInvInductive == TableInv /\ [Next]_vars => TableInv'
<1>. SUFFICES ASSUME TableInv, [Next]_vars PROVE TableInv'
  OBVIOUS
<1>1. ASSUME NEW n \in Name, NEW s \in ServiceSig, NEW u \in UsageSig, Register(n, s, u)
      PROVE  TableInv'
  BY <1>1, RegisterKeeps
<1>2. ASSUME NEW n \in Name, NEW h \in Handle, Unregister(n, h)
      PROVE  TableInv'
  BY <1>2, UnregisterKeeps
<1>3. ASSUME NEW h \in Handle, NEW t \in Tag, Execute(h, t)
      PROVE  TableInv'
  <2>1. [tag |-> t, service |-> GetServiceBySig(h)] \in Job
    BY GetServiceBySigType DEF TableInv, Job
  <2>2. TypeOK'
    BY <1>3, <2>1 DEF TableInv, TypeOK, Execute, tables
  <2>. QED BY <1>3, <2>2, TablesUnchanged DEF TableInv, Execute
<1>4. ASSUME NEW i \in 1..MaxJobs, Finish(i)
      PROVE  TableInv'
  <2>1. pool' \in Seq(Job)
    BY <1>4, RemoveAtType DEF TableInv, TypeOK, Finish
  <2>2. TypeOK'
    BY <1>4, <2>1 DEF TableInv, TypeOK, Finish, tables
  <2>. QED BY <1>4, <2>2, TablesUnchanged DEF TableInv, Finish
<1>5. ASSUME NEW n \in Name, NEW v \in Version \union {None}, SetConfig(n, v)
      PROVE  TableInv'
  <2>1. TypeOK'
    BY <1>5 DEF TableInv, TypeOK, SetConfig, tables
  <2>. QED BY <1>5, <2>1, TablesUnchanged DEF TableInv, SetConfig
<1>6. CASE UNCHANGED vars
  BY <1>6 DEF TableInv, TypeOK, MapsAgree, NoIdleService, vars
<1>. QED BY <1>1, <1>2, <1>3, <1>4, <1>5, <1>6 DEF Next, RegisterFails

(* In every reachable state the tables are well typed, agree with each     *)
(* other, and hold no service without a usage.                             *)
THEOREM TablesConsistent == Spec => []TableInv
<1>1. Init => TableInv
  BY NoneAssumption DEF Init, TableInv, TypeOK, MapsAgree, NoIdleService
<1>. QED BY <1>1, TableInvInductive, PTL DEF Spec

(* The tables keep their types whatever is registered, called, installed. *)
THEOREM TypeCorrect == Spec => []TypeOK
<1>1. TableInv => TypeOK
  BY DEF TableInv
<1>. QED BY <1>1, TablesConsistent, PTL

(* The three tables describe the same loaded services at all times. *)
THEOREM TablesAgree == Spec => []MapsAgree
<1>1. TableInv => MapsAgree
  BY DEF TableInv
<1>. QED BY <1>1, TablesConsistent, PTL

(* No library stays loaded without a usage. *)
THEOREM LoadedMeansUsed == Spec => []NoIdleService
<1>1. TableInv => NoIdleService
  BY DEF TableInv
<1>. QED BY <1>1, TablesConsistent, PTL

------------------------------------------------------------------------------
(* A usage of one service is never a usage of another. *)
LEMMA HoldersOf ==
    ASSUME TableInv, NEW m \in Name, NEW s \in ServiceSig, NEW u \in UsageSig
    PROVE  <<s, u>> \in Holders[m] <=> service_map[m] = s /\ u \in Usages(s)
BY NoneAssumption DEF TableInv, TypeOK, MapsAgree, Holders, Usages

(* Registering acquires the handle that is returned. *)
LEMMA RegisterAcquires ==
    ASSUME TableInv, NEW n \in Name, NEW s \in ServiceSig, NEW u \in UsageSig,
           Register(n, s, u)
    PROVE  Registry!Acquire(n, <<s, u>>)
<1>. USE NoneAssumption DEF TableInv
<1>1. TableInv'
  BY RegisterKeeps
<1>2. /\ config[n] # None
      /\ config' = config
      /\ usage_map' = [usage_map EXCEPT ![s] = Usages(s) \union {u}]
      /\ usage_map'[s] = Usages(s) \union {u}
      /\ u \notin Usages(s)
  BY DEF Register, HasConfig, FreshUsage, TypeOK
<1>3. \A m \in Name : <<s, u>> \notin Holders[m]
  BY <1>2, HoldersOf
<1>4. service_map'[n] = s
  BY DEF Register, Shares, Loads, TypeOK
<1>5. \A m \in Name \ {n} : /\ service_map'[m] = service_map[m]
                            /\ service_map[m] # s
  BY <1>1, <1>4 DEF Register, Shares, Loads, TypeOK, MapsAgree
<1>6. \A m \in Name \ {n} : service_map[m] # None =>
          /\ usage_map'[service_map[m]] = usage_map[service_map[m]]
          /\ services'[service_map[m]] = services[service_map[m]]
  BY <1>2, <1>5 DEF Register, Shares, Loads, TypeOK
<1>7. Holders' = [Holders EXCEPT ![n] = @ \union {<<s, u>>}]
  <2>1. \A m \in Name \ {n} : Holders'[m] = Holders[m]
    BY <1>5, <1>6 DEF Holders
  <2>2. Holders[n] = {s} \X Usages(s)
    <3>1. CASE Shares(n, s)
      BY <3>1, UsagesType DEF Shares, Holders, Usages, TypeOK, MapsAgree
    <3>2. CASE Loads(n, s)
      BY <3>2 DEF Loads, Holders, Usages
    <3>. QED BY <3>1, <3>2 DEF Register
  <2>3. Holders'[n] = {s} \X (Usages(s) \union {u})
    BY <1>2, <1>4 DEF Holders
  <2>4. {s} \X (Usages(s) \union {u}) = ({s} \X Usages(s)) \union {<<s, u>>}
    OBVIOUS
  <2>5. Holders'[n] = Holders[n] \union {<<s, u>>}
    BY <2>2, <2>3, <2>4
  <2>. QED BY <2>1, <2>5 DEF Holders
<1>8. Loaded' = [Loaded EXCEPT ![n] = IF Holders[n] = {} THEN config[n] ELSE @]
  <2>1. \A m \in Name \ {n} : Loaded'[m] = Loaded[m]
    BY <1>5, <1>6 DEF Loaded
  <2>2. CASE Shares(n, s)
    <3>1. Holders[n] # {}
      <4>1. PICK x \in UsageSig : x \in usage_map[s]
        BY <2>2 DEF Shares, TypeOK, NoIdleService, MapsAgree
      <4>2. <<s, x>> \in Holders[n]
        BY <2>2, <4>1 DEF Shares, Holders
      <4>. QED BY <4>2
    <3>2. Loaded'[n] = Loaded[n]
      BY <2>2 DEF Shares, Loaded
    <3>. QED BY <2>1, <3>1, <3>2 DEF Loaded
  <2>3. CASE Loads(n, s)
    <3>1. Holders[n] = {}
      BY <2>3 DEF Holders, Loads
    <3>2. Loaded'[n] = config[n]
      BY <1>4, <2>3 DEF Loaded, Loads, TypeOK
    <3>. QED BY <2>1, <3>1, <3>2 DEF Loaded
  <2>. QED BY <2>2, <2>3 DEF Register
<1>. QED BY <1>2, <1>3, <1>7, <1>8 DEF Registry!Acquire

(* Undoing a registration releases its handle, once: a handle that is not  *)
(* in use, or is presented under another name, changes nothing.            *)
LEMMA UnregisterReleases ==
    ASSUME TableInv, NEW n \in Name, NEW h \in Handle, Unregister(n, h)
    PROVE  Registry!Release(n, h) \/ UNCHANGED Registry!vars
<1>. USE NoneAssumption DEF TableInv
<1>. DEFINE s == h[1]
            u == h[2]
            rest == Usages(s) \ {u}
<1>1. s \in ServiceSig /\ u \in UsageSig /\ h = <<s, u>> /\ config' = config
  BY DEF Handle, Unregister
<1>2. CASE service_map[n] # s
  BY <1>2 DEF Unregister, tables, Holders, Loaded, Registry!vars
<1>3. CASE service_map[n] = s /\ u \notin Usages(s)
  <2>1. rest = Usages(s) /\ rest # {} /\ rest = usage_map[s]
    BY <1>1, <1>3, UsagesType DEF Usages, TypeOK, MapsAgree
  <2>2. UNCHANGED tables
    <3>1. usage_map' = [usage_map EXCEPT ![s] = rest]
          /\ UNCHANGED <<services, service_map>>
      BY <1>3, <2>1 DEF Unregister
    <3>2. usage_map' = usage_map
      BY <1>1, <2>1, <3>1 DEF TypeOK
    <3>. QED BY <3>1, <3>2 DEF tables
  <2>. QED BY <1>1, <2>2 DEF tables, Holders, Loaded, Registry!vars
<1>4. CASE service_map[n] = s /\ u \in Usages(s)
  <2>1. \A m \in Name \ {n} : service_map'[m] = service_map[m] /\ service_map[m] # s
    BY <1>1, <1>4 DEF Unregister, Cleanup, TypeOK, MapsAgree
  <2>2. \A m \in Name \ {n} : service_map[m] # None =>
            /\ usage_map'[service_map[m]] = usage_map[service_map[m]]
            /\ services'[service_map[m]] = services[service_map[m]]
    BY <1>4, <2>1 DEF Unregister, Cleanup, TypeOK
  <2>3. \A m \in Name \ {n} : Holders'[m] = Holders[m] /\ Loaded'[m] = Loaded[m]
    BY <2>1, <2>2 DEF Holders, Loaded
  <2>4. Holders[n] = {s} \X Usages(s) /\ h \in Holders[n]
    BY <1>1, <1>4 DEF Holders, Usages, TypeOK
  <2>5. Holders[n] = {h} <=> rest = {}
    <3>1. ASSUME rest = {} PROVE Holders[n] = {h}
      <4>1. Usages(s) = {u}
        BY <1>4, <3>1
      <4>2. {s} \X {u} = {<<s, u>>}
        OBVIOUS
      <4>. QED BY <1>1, <2>4, <4>1, <4>2
    <3>2. ASSUME NEW x \in rest PROVE Holders[n] # {h}
      <4>1. <<s, x>> \in Holders[n] /\ <<s, x>> # h
        BY <1>1, <2>4, <3>2
      <4>. QED BY <4>1
    <3>. QED BY <3>1, <3>2
  <2>6. Holders'[n] = {s} \X rest
    <3>1. CASE rest = {}
      BY <1>1, <1>4, <3>1 DEF Unregister, Cleanup, Holders, TypeOK
    <3>2. CASE rest # {}
      BY <1>1, <1>4, <3>2 DEF Unregister, Holders, TypeOK
    <3>. QED BY <3>1, <3>2
  <2>7. Loaded'[n] = IF rest = {} THEN None ELSE Loaded[n]
    BY <1>1, <1>4 DEF Unregister, Cleanup, Loaded, TypeOK
  <2>8. {s} \X rest = ({s} \X Usages(s)) \ {h}
    BY <1>1
  <2>9. Holders' = [Holders EXCEPT ![n] = @ \ {h}]
    <3>1. Holders'[n] = Holders[n] \ {h}
      BY <2>4, <2>6, <2>8
    <3>2. Holders' = [m \in Name |-> Holders'[m]] /\ Holders = [m \in Name |-> Holders[m]]
      BY DEF Holders
    <3>. QED BY <2>3, <3>1, <3>2
  <2>10. Loaded' = [Loaded EXCEPT ![n] = IF Holders[n] = {h} THEN None ELSE @]
    <3>1. Loaded' = [m \in Name |-> Loaded'[m]] /\ Loaded = [m \in Name |-> Loaded[m]]
      BY DEF Loaded
    <3>2. Loaded'[n] = IF Holders[n] = {h} THEN None ELSE Loaded[n]
      BY <2>5, <2>7
    <3>. QED BY <2>3, <3>1, <3>2
  <2>. QED BY <1>1, <2>4, <2>9, <2>10 DEF Registry!Release
<1>. QED BY <1>2, <1>3, <1>4

(* The manager implements the registry: whatever is registered, undone,    *)
(* called, installed or removed, and in whatever order, a service is held  *)
(* under distinct handles, its version in memory is fixed while it is held *)
(* and it is dropped with its last holder.                                 *)
THEOREM ImplementsRegistry == Spec => RefinesRegistry
<1>1. Init => Registry!Init
  BY DEF Init, Registry!Init, Holders, Loaded
<1>2. TableInv /\ [Next]_vars => [Registry!Next]_(Registry!vars)
  <2>. SUFFICES ASSUME TableInv, [Next]_vars
                PROVE  Registry!Next \/ UNCHANGED Registry!vars
    OBVIOUS
  <2>1. ASSUME NEW n \in Name, NEW s \in ServiceSig, NEW u \in UsageSig, Register(n, s, u)
        PROVE  Registry!Next
    BY <2>1, RegisterAcquires DEF Registry!Next, Handle
  <2>2. ASSUME NEW n \in Name, NEW h \in Handle, Unregister(n, h)
        PROVE  Registry!Next \/ UNCHANGED Registry!vars
    BY <2>2, UnregisterReleases DEF Registry!Next
  <2>3. ASSUME NEW n \in Name, NEW v \in Version \union {None}, SetConfig(n, v)
        PROVE  Registry!Next
    BY <2>3 DEF SetConfig, tables, Holders, Loaded, Registry!Reconfigure, Registry!Next
  <2>4. CASE \/ \E n \in Name : RegisterFails(n)
             \/ \E h \in Handle, t \in Tag : Execute(h, t)
             \/ \E i \in 1..MaxJobs : Finish(i)
             \/ UNCHANGED vars
    BY <2>4 DEF RegisterFails, Execute, Finish, vars, tables, Holders, Loaded,
                Registry!vars
  <2>. QED BY <2>1, <2>2, <2>3, <2>4 DEF Next
<1>. QED BY <1>1, <1>2, TablesConsistent, PTL DEF Spec, RefinesRegistry, Registry!Spec

------------------------------------------------------------------------------
(* The server *)

RecvState == {"none", "running", "stopping", "releasing", "ended", "panicked"}

RecordTypeOK ==
    /\ poisoned \in BOOLEAN
    /\ recv \in [Conn -> RecvState]
    /\ asked \in [Conn -> Seq(Kinds)]
    /\ records \in [Conn -> [Name -> {None} \union Handle]]

(* Nobody holds the lock when a thread panics with it, or after.           *)
PanicIsAlone == poisoned => \A c \in Conn : recv[c] # "releasing"

ServerInv ==
    /\ TableInv /\ RecordTypeOK /\ PanicIsAlone
    /\ RecordsInForce
    /\ ~Reregister => UsagesOnRecord

ConnUnchanged == UNCHANGED <<poisoned, recv, asked, records>>

------------------------------------------------------------------------------
(* What the server does to the manager is a step of the manager. *)

LEMMA NumberInRange ==
  ASSUME RecordTypeOK, NEW c \in Conn, Len(asked[c]) < MaxReq
  PROVE  Number(c) \in 1..MaxReq
<1>1. Len(asked[c]) \in Nat
  BY LenProperties DEF RecordTypeOK
<1> QED
  BY <1>1, ServerAssumption DEF Number

LEMMA ServerStepIsStep ==
  ASSUME RecordTypeOK, ServerNext
  PROVE  [Next]_vars
<1>1. ASSUME NEW c \in Conn,
             \/ Accept(c) \/ ReadId(c) \/ Connected(c) \/ HandshakeFails(c)
             \/ RecvAlive(c) \/ RecvChainCall(c) \/ RecvFails(c)
             \/ Finalize(c) \/ Finalized(c)
             \/ AcquireWriteLock(c) \/ Deliver(c) \/ SendEnds(c) \/ SendFails(c)
      PROVE  UNCHANGED vars
  BY <1>1 DEF Accept, ReadId, Connected, HandshakeFails, RecvAlive, RecvChainCall, RecvFails,
              Finalize, Finalized, AcquireWriteLock, Deliver, SendEnds, SendFails
<1>2. ASSUME NEW c \in Conn, NEW n \in Name, RecvRegister(c, n)
      PROVE  [Next]_vars
  BY <1>2 DEF RecvRegister, Next
<1>3. ASSUME NEW c \in Conn, NEW n \in Name, records[c][n] # None
      PROVE  records[c][n] \in Handle
  BY <1>3 DEF RecordTypeOK
<1>4. ASSUME NEW c \in Conn, NEW n \in Name, RecvUnregister(c, n)
      PROVE  [Next]_vars
  BY <1>3, <1>4 DEF RecvUnregister, Next
<1>5. ASSUME NEW c \in Conn, NEW n \in Name, ReleaseRecord(c, n)
      PROVE  [Next]_vars
  BY <1>3, <1>5 DEF ReleaseRecord, Next
<1>6. ASSUME NEW c \in Conn, NEW k \in {"call", "one_way"}, NEW h \in Handle, RecvCall(c, k, h)
      PROVE  [Next]_vars
  <2>1. Number(c) \in 1..MaxReq
    BY <1>6, NumberInRange DEF RecvCall, Receive
  <2>2. CallbackTag(c, k) \in Tag
    BY <2>1, ServerAssumption DEF CallbackTag
  <2> QED
    BY <1>6, <2>2 DEF RecvCall, Next
<1>7. ASSUME NEW i \in 1..MaxJobs, FinishCall(i)
      PROVE  [Next]_vars
  BY <1>7 DEF FinishCall, Next
<1>8. ASSUME NEW n \in Name, NEW v \in Version \union {None}, Reconfigure(n, v)
      PROVE  [Next]_vars
  BY <1>8 DEF Reconfigure, Next
<1> QED
  BY <1>1, <1>2, <1>4, <1>5, <1>6, <1>7, <1>8 DEF ServerNext

------------------------------------------------------------------------------
(* Registering and giving back *)

(* What it is to be in force, record by record.                            *)
InForce(m, r, v) == service_map[m] = r /\ v \in Usages(r)
Other(d, m, c, n) == d # c \/ m # n

LEMMA RecordIs ==
  ASSUME ServerInv, NEW d \in Conn, NEW m \in Name, records[d][m] # None
  PROVE  \E r \in ServiceSig, v \in UsageSig : records[d][m] = <<r, v>> /\ InForce(m, r, v)
<1>1. records[d][m] \in Handle
  BY DEF ServerInv, RecordTypeOK
<1>2. PICK r \in ServiceSig, v \in UsageSig : records[d][m] = <<r, v>>
  BY <1>1 DEF Handle
<1>3. records[d][m][1] = r /\ records[d][m][2] = v
  BY <1>2
<1>4. service_map[m] = r /\ v \in Usages(r)
  <2>1. service_map[m] = records[d][m][1] /\ records[d][m][2] \in Usages(records[d][m][1])
    BY DEF ServerInv, RecordsInForce
  <2> QED
    BY <1>3, <2>1
<1> QED
  BY <1>2, <1>4 DEF InForce

LEMMA InForceEach ==
  ASSUME \A d \in Conn, m \in Name : records'[d][m] # None =>
             \E r \in ServiceSig, v \in UsageSig : records'[d][m] = <<r, v>> /\ InForce(m, r, v)',
         \A d \in Conn, m \in Name, e \in Conn, l \in Name :
             records'[d][m] # None /\ records'[e][l] = records'[d][m] => ~Other(d, m, e, l)
  PROVE  RecordsInForce'
<1> SUFFICES ASSUME NEW d \in Conn, NEW m \in Name, records'[d][m] # None
             PROVE  (/\ service_map[m] = records[d][m][1]
                     /\ records[d][m][2] \in Usages(records[d][m][1])
                     /\ \A e \in Conn, l \in Name : records[e][l] = records[d][m] => e = d /\ l = m)'
  BY DEF RecordsInForce
<1>1. PICK r \in ServiceSig, v \in UsageSig : records'[d][m] = <<r, v>> /\ InForce(m, r, v)'
  OBVIOUS
<1>2. (records[d][m][1])' = r /\ (records[d][m][2])' = v
  BY <1>1
<1>3. (/\ service_map[m] = records[d][m][1]
       /\ records[d][m][2] \in Usages(records[d][m][1]))'
  BY <1>1, <1>2 DEF InForce, Usages
<1>4. \A e \in Conn, l \in Name : (records[e][l] = records[d][m])' => e = d /\ l = m
  BY DEF Other
<1> QED
  BY <1>3, <1>4

(* A new registration is for a usage nobody has, and the service it is for *)
(* was not loaded anew under an older record.                              *)
LEMMA RegisterKeepsRecords ==
  ASSUME ServerInv, NEW c \in Conn, NEW n \in Name, NEW s \in ServiceSig, NEW u \in UsageSig,
         Register(n, s, u), records' = PutOnRecord(c, n, <<s, u>>)
  PROVE  RecordsInForce'
<1>1. /\ Usages(s) \in SUBSET UsageSig /\ u \notin Usages(s)
      /\ usage_map' = [usage_map EXCEPT ![s] = Usages(s) \union {u}]
      /\ usage_map \in [ServiceSig -> {None} \union SUBSET UsageSig]
  BY UsagesType DEF Register, FreshUsage, ServerInv, TableInv, TypeOK
<1>2. Usages(s)' = Usages(s) \union {u} /\ \A r \in ServiceSig \ {s} : Usages(r)' = Usages(r)
  BY <1>1, NoneAssumption DEF Usages
<1>3. service_map'[n] = s /\ \A m \in Name : service_map[m] # None => service_map'[m] = service_map[m]
  BY DEF Register, Shares, Loads, ServerInv, TableInv, TypeOK
<1>4. /\ records'[c][n] = <<s, u>>
      /\ \A d \in Conn, m \in Name : Other(d, m, c, n) => records'[d][m] = records[d][m]
  BY DEF PutOnRecord, ServerInv, RecordTypeOK, Other
<1>5. ASSUME NEW d \in Conn, NEW m \in Name, Other(d, m, c, n), records'[d][m] # None
      PROVE  \E r \in ServiceSig, v \in UsageSig :
                 records'[d][m] = <<r, v>> /\ <<r, v>> # <<s, u>> /\ InForce(m, r, v)'
  <2>1. PICK r \in ServiceSig, v \in UsageSig : records[d][m] = <<r, v>> /\ InForce(m, r, v)
    BY <1>4, <1>5, RecordIs
  <2>2. InForce(m, r, v)' /\ <<r, v>> # <<s, u>>
    BY <1>1, <1>2, <1>3, <2>1, NoneAssumption DEF InForce
  <2> QED
    BY <1>4, <1>5, <2>1, <2>2
<1>6. InForce(n, s, u)'
  BY <1>2, <1>3 DEF InForce
<1>7. \A d \in Conn, m \in Name : records'[d][m] # None =>
          \E r \in ServiceSig, v \in UsageSig : records'[d][m] = <<r, v>> /\ InForce(m, r, v)'
  BY <1>4, <1>5, <1>6 DEF Other
<1>8. ASSUME NEW d \in Conn, NEW m \in Name, NEW e \in Conn, NEW l \in Name,
             records'[d][m] # None, records'[e][l] = records'[d][m]
      PROVE  ~Other(d, m, e, l)
  <2>1. CASE Other(d, m, c, n) /\ Other(e, l, c, n)
    BY <1>4, <1>8, <2>1 DEF ServerInv, RecordsInForce, Other
  <2>2. CASE ~Other(d, m, c, n) /\ Other(e, l, c, n)
    BY <1>4, <1>5, <1>8, <2>2 DEF Other
  <2>3. CASE Other(d, m, c, n) /\ ~Other(e, l, c, n)
    BY <1>4, <1>5, <1>8, <2>3 DEF Other
  <2>4. CASE ~Other(d, m, c, n) /\ ~Other(e, l, c, n)
    BY <2>4 DEF Other
  <2> QED
    BY <2>1, <2>2, <2>3, <2>4
<1> QED
  BY <1>7, <1>8, InForceEach

LEMMA RegisterKeepsUsages ==
  ASSUME ServerInv, NEW c \in Conn, NEW n \in Name, NEW s \in ServiceSig, NEW u \in UsageSig,
         ~Reregister, records[c][n] = None, UNCHANGED poisoned,
         Register(n, s, u), records' = PutOnRecord(c, n, <<s, u>>)
  PROVE  UsagesOnRecord'
<1>1. /\ usage_map' = [usage_map EXCEPT ![s] = Usages(s) \union {u}]
      /\ Usages(s) \in SUBSET UsageSig
      /\ usage_map \in [ServiceSig -> {None} \union SUBSET UsageSig]
  BY UsagesType DEF Register, ServerInv, TableInv, TypeOK
<1>2. Usages(s)' = Usages(s) \union {u} /\ \A r \in ServiceSig \ {s} : Usages(r)' = Usages(r)
  BY <1>1, NoneAssumption DEF Usages
<1>3. /\ records'[c][n] = <<s, u>>
      /\ \A d \in Conn, m \in Name : Other(d, m, c, n) => records'[d][m] = records[d][m]
  BY DEF PutOnRecord, ServerInv, RecordTypeOK, Other
<1>4. ASSUME ~poisoned', NEW r \in ServiceSig, NEW v, v \in Usages(r)'
      PROVE  \E d \in Conn, m \in Name : records'[d][m] = <<r, v>>
  <2>1. CASE r = s /\ v = u
    BY <1>3, <2>1
  <2>2. CASE v \in Usages(r)
    <3>1. PICK d \in Conn, m \in Name : records[d][m] = <<r, v>>
      BY <1>4, <2>2 DEF ServerInv, UsagesOnRecord
    <3>2. <<r, v>> \in Handle
      BY <1>1, <2>2 DEF Handle, Usages
    <3>3. Other(d, m, c, n)
      BY <3>1, <3>2, ServerAssumption DEF Other
    <3> QED
      BY <1>3, <3>1, <3>3
  <2> QED
    BY <1>2, <1>4, <2>1, <2>2
<1> QED
  BY <1>4 DEF UsagesOnRecord

(* Giving one back takes its own usage away and no other; a service goes   *)
(* only when nobody else has it on record.                                 *)
LEMMA ReleaseKeeps ==
  ASSUME ServerInv, NEW c \in Conn, NEW n \in Name, records[c][n] # None, UNCHANGED poisoned,
         Unregister(n, records[c][n]), records' = Forget(c, n)
  PROVE  RecordsInForce' /\ (~Reregister => UsagesOnRecord')
<1>1. PICK s \in ServiceSig, u \in UsageSig : records[c][n] = <<s, u>> /\ InForce(n, s, u)
  BY RecordIs
<1> DEFINE rest == Usages(s) \ {u}
<1>2. Unregister(n, <<s, u>>) /\ service_map[n] = s /\ u \in Usages(s)
  BY <1>1 DEF InForce
<1>3. /\ usage_map \in [ServiceSig -> {None} \union SUBSET UsageSig]
      /\ service_map \in [Name -> ServiceSig \union {None}]
      /\ rest \in SUBSET UsageSig
  BY UsagesType DEF ServerInv, TableInv, TypeOK
<1>4. /\ usage_map' = [usage_map EXCEPT ![s] = IF rest = {} THEN None ELSE rest]
      /\ service_map' = IF rest = {} THEN [service_map EXCEPT ![n] = None] ELSE service_map
  BY <1>2 DEF Unregister, Cleanup
<1>5. Usages(s)' = rest /\ \A r \in ServiceSig \ {s} : Usages(r)' = Usages(r)
  BY <1>3, <1>4, NoneAssumption DEF Usages
<1>6. \A m \in Name \ {n} : service_map[m] # s /\ service_map'[m] = service_map[m]
  BY <1>2, <1>3, <1>4, NoneAssumption DEF ServerInv, TableInv, MapsAgree
<1>7. /\ records'[c][n] = None
      /\ \A d \in Conn, m \in Name : Other(d, m, c, n) => records'[d][m] = records[d][m]
  BY DEF Forget, ServerInv, RecordTypeOK, Other
<1>8. ASSUME NEW d \in Conn, NEW m \in Name, records'[d][m] # None
      PROVE  \E r \in ServiceSig, v \in UsageSig : records'[d][m] = <<r, v>> /\ InForce(m, r, v)'
  <2>1. Other(d, m, c, n) /\ records'[d][m] = records[d][m]
    BY <1>7, <1>8 DEF Other
  <2>2. PICK r \in ServiceSig, v \in UsageSig : records[d][m] = <<r, v>> /\ InForce(m, r, v)
    BY <1>8, <2>1, RecordIs
  <2>3. <<r, v>> # <<s, u>>
    BY <1>1, <1>8, <2>1, <2>2 DEF ServerInv, RecordsInForce, Other
  <2>4. ASSUME m = n PROVE InForce(m, r, v)'
    <3>1. r = s /\ v # u /\ v \in Usages(s)
      BY <1>2, <2>2, <2>3, <2>4 DEF InForce
    <3>2. v \in rest /\ rest # {}
      BY <3>1
    <3>3. service_map' = service_map /\ v \in Usages(s)'
      BY <1>4, <1>5, <3>2
    <3> QED
      BY <2>2, <3>1, <3>3 DEF InForce, Usages
  <2>5. ASSUME m # n PROVE InForce(m, r, v)'
    <3>1. r # s /\ service_map'[m] = r
      BY <1>6, <2>2, <2>5 DEF InForce
    <3> QED
      BY <1>5, <2>2, <3>1 DEF InForce, Usages
  <2>6. InForce(m, r, v)'
    BY <2>4, <2>5
  <2> QED
    BY <2>1, <2>2, <2>6
<1>9. ASSUME NEW d \in Conn, NEW m \in Name, NEW e \in Conn, NEW l \in Name,
             records'[d][m] # None, records'[e][l] = records'[d][m]
      PROVE  ~Other(d, m, e, l)
  BY <1>7, <1>9 DEF ServerInv, RecordsInForce, Other
<1>10. ASSUME ~Reregister, ~poisoned', NEW r \in ServiceSig, NEW v, v \in Usages(r)'
       PROVE  \E d \in Conn, m \in Name : records'[d][m] = <<r, v>>
  <2>1. v \in Usages(r) /\ ~(r = s /\ v = u)
    BY <1>5, <1>10
  <2>2. PICK d \in Conn, m \in Name : records[d][m] = <<r, v>>
    BY <1>10, <2>1 DEF ServerInv, UsagesOnRecord
  <2>3. Other(d, m, c, n)
    BY <1>1, <2>1, <2>2 DEF Other
  <2> QED
    BY <1>7, <2>2, <2>3
<1>11. RecordsInForce'
  BY <1>8, <1>9, InForceEach
<1> QED
  BY <1>10, <1>11 DEF UsagesOnRecord

------------------------------------------------------------------------------
(* Every step *)

LEMMA TablesKept ==
  ASSUME ServerInv, UNCHANGED <<tables, records, poisoned>>
  PROVE  RecordsInForce' /\ (~Reregister => UsagesOnRecord')
BY DEF ServerInv, RecordsInForce, UsagesOnRecord, Usages, tables

LEMMA RecordsDropped ==
  ASSUME ServerInv, NEW c \in Conn, UNCHANGED tables, poisoned',
         records' = [records EXCEPT ![c] = NoRecords]
  PROVE  RecordsInForce' /\ UsagesOnRecord'
<1>1. \A d \in Conn, m \in Name : records'[d][m] # None => records'[d][m] = records[d][m]
  BY DEF ServerInv, RecordTypeOK, NoRecords
<1> QED
  BY <1>1 DEF ServerInv, RecordsInForce, UsagesOnRecord, Usages, tables

LEMMA RecordType ==
  ASSUME ServerInv, NEW c \in Conn, NEW n \in Name, records[c][n] # None
  PROVE  records[c][n] \in Handle
BY DEF ServerInv, RecordTypeOK

LEMMA ServerStepKeepsRecords ==
  ASSUME ServerInv, ServerNext
  PROVE  RecordsInForce' /\ (~Reregister => UsagesOnRecord')
<1>1. ASSUME NEW c \in Conn,
             \/ Accept(c) \/ ReadId(c) \/ Connected(c) \/ HandshakeFails(c)
             \/ RecvAlive(c) \/ RecvFails(c) \/ Finalized(c)
             \/ AcquireWriteLock(c) \/ Deliver(c) \/ SendEnds(c) \/ SendFails(c)
      PROVE  UNCHANGED <<tables, records, poisoned>>
  BY <1>1 DEF Accept, ReadId, Connected, HandshakeFails, RecvAlive, RecvFails,
              Finalized, AcquireWriteLock, Deliver, SendEnds, SendFails, vars, tables
<1>2. ASSUME NEW c \in Conn, NEW n \in Name, RecvRegister(c, n)
      PROVE  RecordsInForce' /\ (~Reregister => UsagesOnRecord')
  <2>1. ASSUME NEW s \in ServiceSig, NEW u \in UsageSig, Register(n, s, u),
               records' = PutOnRecord(c, n, <<s, u>>)
        PROVE  RecordsInForce' /\ (~Reregister => UsagesOnRecord')
    <3>1. UNCHANGED poisoned /\ (~Reregister => records[c][n] = None)
      BY <1>2 DEF RecvRegister
    <3> QED
      BY <2>1, <3>1, RegisterKeepsRecords, RegisterKeepsUsages
  <2>2. CASE UNCHANGED <<vars, records>>
    BY <1>2, <2>2, TablesKept DEF RecvRegister, vars, tables
  <2> QED
    BY <1>2, <2>1, <2>2 DEF RecvRegister, RegisterFails
<1>3. ASSUME NEW c \in Conn, NEW n \in Name, RecvUnregister(c, n)
      PROVE  RecordsInForce' /\ (~Reregister => UsagesOnRecord')
  <2>1. UNCHANGED poisoned
    BY <1>3 DEF RecvUnregister
  <2>2. CASE UNCHANGED <<vars, records>>
    BY <2>1, <2>2, TablesKept DEF vars, tables
  <2>3. CASE records[c][n] # None /\ Unregister(n, records[c][n]) /\ records' = Forget(c, n)
    BY <2>1, <2>3, ReleaseKeeps
  <2> QED
    BY <1>3, <2>2, <2>3 DEF RecvUnregister
<1>4. ASSUME NEW c \in Conn, NEW n \in Name, ReleaseRecord(c, n)
      PROVE  RecordsInForce' /\ (~Reregister => UsagesOnRecord')
  BY <1>4, ReleaseKeeps DEF ReleaseRecord
<1>5. ASSUME NEW c \in Conn, NEW k \in {"call", "one_way"}, NEW h \in Handle, RecvCall(c, k, h)
      PROVE  UNCHANGED <<tables, records, poisoned>>
  BY <1>5 DEF RecvCall, Execute, vars, tables
<1>6. ASSUME NEW c \in Conn, RecvChainCall(c)
      PROVE  RecordsInForce' /\ (~Reregister => UsagesOnRecord')
  <2>1. CASE UNCHANGED <<tables, records, poisoned>>
    BY <2>1, TablesKept
  <2>2. CASE UNCHANGED tables /\ poisoned' = TRUE /\ records' = [records EXCEPT ![c] = NoRecords]
    BY <2>2, RecordsDropped
  <2> QED
    BY <1>6, <2>1, <2>2 DEF RecvChainCall, vars, tables
<1>7. ASSUME NEW c \in Conn, Finalize(c)
      PROVE  RecordsInForce' /\ (~Reregister => UsagesOnRecord')
  <2>1. UNCHANGED tables /\ UNCHANGED poisoned
    BY <1>7 DEF Finalize, vars, tables
  <2>2. CASE records' = records
    BY <2>1, <2>2, TablesKept
  <2>3. CASE poisoned /\ records' = [records EXCEPT ![c] = NoRecords]
    BY <2>1, <2>3, RecordsDropped
  <2> QED
    BY <1>7, <2>2, <2>3 DEF Finalize, LockFails
<1>8. ASSUME NEW i \in 1..MaxJobs, FinishCall(i)
      PROVE  UNCHANGED <<tables, records, poisoned>>
  BY <1>8 DEF FinishCall, Finish, tables
<1>9. ASSUME NEW n \in Name, NEW v \in Version \union {None}, Reconfigure(n, v)
      PROVE  UNCHANGED <<tables, records, poisoned>>
  BY <1>9 DEF Reconfigure, SetConfig, serverVars
<1> QED
  BY <1>1, <1>2, <1>3, <1>4, <1>5, <1>6, <1>7, <1>8, <1>9, TablesKept DEF ServerNext

(* A request is received by a loop that is running.                        *)
LEMMA ReceiveKeepsTypes ==
  ASSUME ServerInv, NEW c \in Conn, NEW k, Receive(c, k)
  PROVE  asked' \in [Conn -> Seq(Kinds)] /\ recv[c] = "running"
<1>1. k \in Kinds /\ asked[c] \in Seq(Kinds)
  BY ServerAssumption DEF Receive, ServerInv, RecordTypeOK
<1>2. Append(asked[c], k) \in Seq(Kinds)
  BY <1>1, AppendProperties
<1> QED
  BY <1>2 DEF Receive, ServerInv, RecordTypeOK

LEMMA ServerStepKeepsTypes ==
  ASSUME ServerInv, ServerNext
  PROVE  RecordTypeOK' /\ PanicIsAlone'
<1> USE DEF RecvState
<1>1. ASSUME NEW c \in Conn,
             \/ Accept(c) \/ ReadId(c) \/ HandshakeFails(c)
             \/ AcquireWriteLock(c) \/ Deliver(c) \/ SendEnds(c) \/ SendFails(c)
      PROVE  ConnUnchanged
  BY <1>1 DEF Accept, ReadId, HandshakeFails, AcquireWriteLock, Deliver, SendEnds, SendFails, ConnUnchanged
<1>2. ASSUME NEW c \in Conn, Connected(c) \/ RecvFails(c) \/ Finalized(c)
      PROVE  RecordTypeOK' /\ PanicIsAlone'
  <2>1. PICK r \in RecvState \ {"releasing"} : recv' = [recv EXCEPT ![c] = r]
    BY <1>2 DEF Connected, RecvFails, Stop, Finalized
  <2>2. UNCHANGED <<poisoned, asked, records>>
    BY <1>2 DEF Connected, RecvFails, Finalized
  <2> QED
    BY <2>1, <2>2 DEF ServerInv, RecordTypeOK, PanicIsAlone
<1>3. ASSUME NEW c \in Conn, NEW n \in Name, RecvRegister(c, n) \/ RecvUnregister(c, n)
      PROVE  /\ asked' \in [Conn -> Seq(Kinds)] /\ UNCHANGED poisoned
             /\ recv' \in {recv, [recv EXCEPT ![c] = "stopping"]}
  BY <1>3, ReceiveKeepsTypes DEF RecvRegister, RecvUnregister, Reply, Stop
<1>4. ASSUME NEW c \in Conn, NEW n \in Name, RecvRegister(c, n)
      PROVE  records' \in [Conn -> [Name -> {None} \union Handle]]
  <2>1. ASSUME NEW s \in ServiceSig, NEW u \in UsageSig, records' = PutOnRecord(c, n, <<s, u>>)
        PROVE  records' \in [Conn -> [Name -> {None} \union Handle]]
    <3>1. <<s, u>> \in Handle
      BY DEF Handle
    <3> QED
      BY <2>1, <3>1 DEF PutOnRecord, ServerInv, RecordTypeOK
  <2> QED
    BY <1>4, <2>1 DEF RecvRegister, ServerInv, RecordTypeOK
<1>5. ASSUME NEW c \in Conn, NEW n \in Name, RecvRegister(c, n) \/ RecvUnregister(c, n)
      PROVE  RecordTypeOK' /\ PanicIsAlone'
  <2>1. records' \in [Conn -> [Name -> {None} \union Handle]]
    <3>1. CASE RecvRegister(c, n)
      BY <1>4, <3>1
    <3>2. CASE RecvUnregister(c, n)
      <4>1. CASE UNCHANGED <<vars, records>>
        BY <4>1 DEF ServerInv, RecordTypeOK
      <4>2. CASE records' = Forget(c, n)
        BY <4>2 DEF Forget, ServerInv, RecordTypeOK
      <4> QED
        BY <3>2, <4>1, <4>2 DEF RecvUnregister
    <3> QED
      BY <1>5, <3>1, <3>2
  <2> QED
    BY <1>3, <1>5, <2>1 DEF ServerInv, RecordTypeOK, PanicIsAlone
<1>6. ASSUME NEW c \in Conn, RecvChainCall(c)
      PROVE  RecordTypeOK' /\ PanicIsAlone'
  <2>1. asked' \in [Conn -> Seq(Kinds)]
    BY <1>6, ReceiveKeepsTypes DEF RecvChainCall
  <2>2. CASE UNCHANGED <<poisoned, records>> /\ recv' = [recv EXCEPT ![c] = "stopping"]
    BY <2>1, <2>2 DEF ServerInv, RecordTypeOK, PanicIsAlone
  <2>3. CASE /\ LockFree /\ poisoned' = TRUE
             /\ recv' = [recv EXCEPT ![c] = "panicked"]
             /\ records' = [records EXCEPT ![c] = NoRecords]
    BY <2>1, <2>3 DEF LockFree, NoRecords, ServerInv, RecordTypeOK, PanicIsAlone
  <2> QED
    BY <1>6, <2>2, <2>3 DEF RecvChainCall, Stop
<1>7. ASSUME NEW c \in Conn, Finalize(c)
      PROVE  RecordTypeOK' /\ PanicIsAlone'
  <2>1. UNCHANGED <<poisoned, asked>>
    BY <1>7 DEF Finalize
  <2>2. CASE /\ poisoned /\ recv' = [recv EXCEPT ![c] = "ended"]
             /\ records' = [records EXCEPT ![c] = NoRecords]
    BY <2>1, <2>2 DEF NoRecords, ServerInv, RecordTypeOK, PanicIsAlone
  <2>3. CASE ~poisoned /\ recv' = [recv EXCEPT ![c] = "releasing"] /\ UNCHANGED records
    BY <2>1, <2>3 DEF ServerInv, RecordTypeOK, PanicIsAlone
  <2> QED
    BY <1>7, <2>2, <2>3 DEF Finalize, LockFails
<1>8. ASSUME NEW c \in Conn, NEW n \in Name, ReleaseRecord(c, n)
      PROVE  RecordTypeOK' /\ PanicIsAlone'
  BY <1>8 DEF ReleaseRecord, Forget, ServerInv, RecordTypeOK, PanicIsAlone
<1>9. ASSUME NEW i \in 1..MaxJobs, FinishCall(i)
      PROVE  ConnUnchanged
  BY <1>9 DEF FinishCall, ConnUnchanged
<1>10. ASSUME NEW n \in Name, NEW v \in Version \union {None}, Reconfigure(n, v)
       PROVE  ConnUnchanged
  BY <1>10 DEF Reconfigure, serverVars, ConnUnchanged
<1>11. ASSUME ConnUnchanged PROVE RecordTypeOK' /\ PanicIsAlone'
  BY <1>11 DEF ConnUnchanged, ServerInv, RecordTypeOK, PanicIsAlone
<1>12. ASSUME NEW c \in Conn, RecvAlive(c) \/ \E k \in {"call", "one_way"}, h \in Handle : RecvCall(c, k, h)
       PROVE  RecordTypeOK' /\ PanicIsAlone'
  <2>1. /\ asked' \in [Conn -> Seq(Kinds)] /\ UNCHANGED <<poisoned, records>>
        /\ recv' \in {recv, [recv EXCEPT ![c] = "stopping"]}
    BY <1>12, ReceiveKeepsTypes DEF RecvAlive, RecvCall, Reply, Stop
  <2> QED
    BY <2>1 DEF ServerInv, RecordTypeOK, PanicIsAlone
<1> QED
  BY <1>1, <1>2, <1>5, <1>6, <1>7, <1>8, <1>9, <1>10, <1>11, <1>12 DEF ServerNext

LEMMA ServerInvInductive == ServerInv /\ [ServerNext]_allVars => ServerInv'
<1> SUFFICES ASSUME ServerInv, [ServerNext]_allVars PROVE ServerInv'
  OBVIOUS
<1>1. CASE UNCHANGED allVars
  <2>1. UNCHANGED vars /\ ConnUnchanged
    BY <1>1 DEF allVars, serverVars, ConnUnchanged
  <2>2. TableInv'
    BY <2>1, TableInvInductive DEF ServerInv
  <2>3. RecordTypeOK' /\ PanicIsAlone'
    BY <2>1 DEF ConnUnchanged, ServerInv, RecordTypeOK, PanicIsAlone
  <2>4. RecordsInForce' /\ (~Reregister => UsagesOnRecord')
    BY <2>1, TablesKept DEF ConnUnchanged, vars, tables
  <2> QED
    BY <2>2, <2>3, <2>4 DEF ServerInv
<1>2. ASSUME ServerNext PROVE TableInv'
  BY <1>2, ServerStepIsStep, TableInvInductive DEF ServerInv
<1>3. ASSUME ServerNext PROVE RecordTypeOK' /\ PanicIsAlone'
  BY <1>3, ServerStepKeepsTypes
<1>4. ASSUME ServerNext PROVE RecordsInForce' /\ (~Reregister => UsagesOnRecord')
  BY <1>4, ServerStepKeepsRecords
<1> QED
  BY <1>1, <1>2, <1>3, <1>4 DEF ServerInv

LEMMA ServerInitInv == ServerInit => ServerInv
<1> SUFFICES ASSUME ServerInit PROVE ServerInv
  OBVIOUS
<1>1. TableInv
  BY NoneAssumption DEF ServerInit, Init, TableInv, TypeOK, MapsAgree, NoIdleService
<1>2. RecordTypeOK /\ PanicIsAlone
  <2>1. <<>> \in Seq(Kinds)
    BY EmptySeq
  <2> QED
    BY <2>1 DEF ServerInit, RecordTypeOK, PanicIsAlone, RecvState, NoRecords
<1>3. RecordsInForce /\ UsagesOnRecord
  BY DEF ServerInit, Init, NoRecords, RecordsInForce, UsagesOnRecord, Usages
<1> QED
  BY <1>1, <1>2, <1>3 DEF ServerInv

LEMMA ServerSafe == ServerSpec => []ServerInv
  BY ServerInitInv, ServerInvInductive, PTL DEF ServerSpec

------------------------------------------------------------------------------
(* The threads of the server use the manager as FFIManager allows: what    *)
(* is shown above of it holds in the daemon.                               *)
THEOREM ServerUsesManager == ServerSpec => Spec
<1>1. ServerInit => Init
  BY DEF ServerInit
<1>2. ServerInv /\ [ServerNext]_allVars => [Next]_vars
  BY ServerStepIsStep DEF ServerInv, allVars
<1> QED
  BY <1>1, <1>2, ServerSafe, PTL DEF ServerSpec, Spec

(* A registration on the record of any connection is in force.             *)
THEOREM RecordsStayInForce == ServerSpec => []RecordsInForce
<1>1. ServerInv => RecordsInForce
  BY DEF ServerInv
<1> QED
  BY <1>1, ServerSafe, PTL

(* While clients do not register a name twice and no thread has panicked   *)
(* with the lock, every usage is on some record: none is forgotten.        *)
THEOREM NoUsageForgotten ==
  ASSUME ~Reregister
  PROVE  ServerSpec => []UsagesOnRecord
<1>1. ServerInv => UsagesOnRecord
  BY DEF ServerInv
<1> QED
  BY <1>1, ServerSafe, PTL

(* After a panic with the lock no step changes the tables: each that would *)
(* takes the lock first.                                                   *)
THEOREM PanicFreezes == ServerSpec => PoisonFreezesTables
<1>1. ASSUME ServerInv, ServerNext, poisoned
      PROVE  UNCHANGED <<tables, poisoned>>
  BY <1>1 DEF ServerNext, LockFails, ServerInv, PanicIsAlone, vars, tables, serverVars,
              Accept, ReadId, Connected, HandshakeFails, RecvAlive, RecvFails, Finalize, Finalized,
              AcquireWriteLock, Deliver, SendEnds, SendFails,
              RecvRegister, RecvUnregister, RecvCall, RecvChainCall,
              ReleaseRecord, FinishCall, Finish, Reconfigure, SetConfig
<1>2. ServerInv /\ [ServerNext]_allVars => [poisoned => UNCHANGED <<tables, poisoned>>]_allVars
  BY <1>1
<1> QED
  BY <1>2, ServerSafe, PTL DEF ServerSpec, PoisonFreezesTables
------------------------------------------------------------------------------
(* What the transport carries keeps its types.                             *)

TransportTypeOK ==
    /\ handshake \in [Conn -> {"new", "accepted", "id_read", "done", "failed"}]
    /\ send \in [Conn -> {"none", "waits", "running", "ended"}]
    /\ chan \in [Conn -> Seq(1..MaxReq)]
    /\ answers \in [Conn -> Seq(1..MaxReq)]
    /\ lost \in [Conn -> SUBSET (1..MaxReq)]
    /\ conns \in Seq(Conn)

LEMMA ReplyKeepsType ==
  ASSUME TransportTypeOK, RecordTypeOK, NEW c \in Conn, NEW k, Receive(c, k), Reply(c)
  PROVE  chan' \in [Conn -> Seq(1..MaxReq)]
<1>1. Number(c) \in 1..MaxReq
  BY NumberInRange DEF Receive
<1>2. Append(chan[c], Number(c)) \in Seq(1..MaxReq)
  BY <1>1, AppendProperties DEF TransportTypeOK
<1> QED
  BY <1>2 DEF Reply, TransportTypeOK

(* The tag of a call that will answer names a connection and a request.    *)
LEMMA TagOfJob ==
  ASSUME TableInv, NEW i \in 1..Len(pool), pool[i].tag # Silent
  PROVE  \E c \in Conn, q \in 1..MaxReq : pool[i].tag = <<c, q>>
<1>1. pool[i] \in Job
  BY ElementOfSeq DEF TableInv, TypeOK
<1> QED
  BY <1>1, ServerAssumption DEF Job

LEMMA TransportTypeInductive ==
  ASSUME ServerInv, TransportTypeOK, ServerNext
  PROVE  TransportTypeOK'
<1>1. ASSUME NEW c \in Conn, Accept(c)
      PROVE  TransportTypeOK'
  <2>1. conns' \in Seq(Conn)
    BY <1>1, RemoveAtType DEF Accept, DropFirst, TransportTypeOK
  <2> QED
    BY <1>1, <2>1 DEF Accept, TransportTypeOK
<1>2. ASSUME NEW c \in Conn, Connected(c)
      PROVE  TransportTypeOK'
  <2>1. conns' \in Seq(Conn)
    BY <1>2, AppendProperties DEF Connected, TransportTypeOK
  <2> QED
    BY <1>2, <2>1 DEF Connected, TransportTypeOK
<1>3. ASSUME NEW c \in Conn, NEW k, Receive(c, k), Reply(c) \/ Stop(c) \/ UNCHANGED chan
      PROVE  TransportTypeOK'
  <2>1. chan' \in [Conn -> Seq(1..MaxReq)]
    BY <1>3, ReplyKeepsType DEF Stop, ServerInv, TransportTypeOK
  <2> QED
    BY <1>3, <2>1 DEF Receive, TransportTypeOK
<1>4. ASSUME NEW c \in Conn,
             \/ RecvAlive(c) \/ RecvChainCall(c)
             \/ \E n \in Name : RecvRegister(c, n) \/ RecvUnregister(c, n)
             \/ \E k \in {"call", "one_way"}, h \in Handle : RecvCall(c, k, h)
      PROVE  TransportTypeOK'
  <2>1. \E k : Receive(c, k) /\ (Reply(c) \/ Stop(c) \/ UNCHANGED chan)
    BY <1>4 DEF RecvAlive, RecvChainCall, RecvRegister, RecvUnregister, RecvCall
  <2> QED
    BY <1>3, <2>1
<1>5. ASSUME NEW c \in Conn,
             \/ ReadId(c) \/ HandshakeFails(c) \/ RecvFails(c) \/ Finalize(c) \/ Finalized(c)
             \/ \E n \in Name : ReleaseRecord(c, n)
             \/ AcquireWriteLock(c) \/ SendEnds(c)
      PROVE  TransportTypeOK'
  BY <1>5 DEF ReadId, HandshakeFails, RecvFails, Stop, Finalize, Finalized, ReleaseRecord,
              AcquireWriteLock, SendEnds, TransportTypeOK
<1>6. ASSUME NEW c \in Conn, Deliver(c)
      PROVE  TransportTypeOK'
  <2>1. chan[c] \in Seq(1..MaxReq) /\ answers[c] \in Seq(1..MaxReq) /\ chan[c] # <<>>
    BY <1>6 DEF Deliver, TransportTypeOK
  <2>2. Head(chan[c]) \in 1..MaxReq /\ Tail(chan[c]) \in Seq(1..MaxReq)
    BY <2>1, HeadTailProperties
  <2>3. Append(answers[c], Head(chan[c])) \in Seq(1..MaxReq)
    BY <2>1, <2>2, AppendProperties
  <2> QED
    BY <1>6, <2>2, <2>3 DEF Deliver, TransportTypeOK
<1>7. ASSUME NEW c \in Conn, SendFails(c)
      PROVE  TransportTypeOK'
  <2>1. <<>> \in Seq(1..MaxReq)
    BY EmptySeq
  <2> QED
    BY <1>7, <2>1 DEF SendFails, TransportTypeOK
<1>8. ASSUME NEW i \in 1..MaxJobs, FinishCall(i)
      PROVE  TransportTypeOK'
  <2>1. CASE UNCHANGED <<chan, lost>>
    BY <1>8, <2>1 DEF FinishCall, TransportTypeOK
  <2>2. CASE pool[i].tag # Silent
    <3>1. PICK c \in Conn, q \in 1..MaxReq : pool[i].tag = <<c, q>>
      BY <1>8, <2>2, TagOfJob DEF FinishCall, Finish, ServerInv
    <3>2. pool[i].tag[1] = c /\ pool[i].tag[2] = q
      BY <3>1
    <3>3. Append(chan[c], q) \in Seq(1..MaxReq)
      BY AppendProperties DEF TransportTypeOK
    <3>4. /\ chan' \in {chan, [chan EXCEPT ![c] = Append(@, q)]}
          /\ lost' \in {lost, [lost EXCEPT ![c] = @ \union {q}]}
      BY <1>8, <3>2 DEF FinishCall
    <3>5. UNCHANGED <<handshake, send, answers, conns>>
      BY <1>8 DEF FinishCall
    <3>6. chan' \in [Conn -> Seq(1..MaxReq)]
      BY <3>3, <3>4 DEF TransportTypeOK
    <3>7. lost' \in [Conn -> SUBSET (1..MaxReq)]
      <4>1. lost[c] \union {q} \in SUBSET (1..MaxReq)
        BY DEF TransportTypeOK
      <4> QED
        BY <3>4, <4>1 DEF TransportTypeOK
    <3> QED
      BY <3>5, <3>6, <3>7 DEF TransportTypeOK
  <2> QED
    BY <1>8, <2>1, <2>2 DEF FinishCall
<1>9. ASSUME NEW n \in Name, NEW v \in Version \union {None}, Reconfigure(n, v)
      PROVE  TransportTypeOK'
  BY <1>9 DEF Reconfigure, serverVars, TransportTypeOK
<1> QED
  BY <1>1, <1>2, <1>4, <1>5, <1>6, <1>7, <1>8, <1>9 DEF ServerNext

LEMMA TransportSafe == ServerSpec => []TransportTypeOK
<1>1. ServerInit => TransportTypeOK
  <2>1. <<>> \in Seq(1..MaxReq) /\ <<>> \in Seq(Conn)
    BY EmptySeq
  <2> QED
    BY <2>1 DEF ServerInit, TransportTypeOK
<1>2. ServerInv /\ TransportTypeOK /\ [ServerNext]_allVars => TransportTypeOK'
  <2>1. ASSUME TransportTypeOK, UNCHANGED allVars PROVE TransportTypeOK'
    BY <2>1 DEF allVars, serverVars, TransportTypeOK
  <2> QED
    BY <2>1, TransportTypeInductive
<1> QED
  BY <1>1, <1>2, ServerSafe, PTL DEF ServerSpec

(* The daemon keeps its types whatever its clients send and however their  *)
(* connections end.                                                        *)
THEOREM ServerTypeCorrect == ServerSpec => []ServerTypeOK
<1>1. ServerInv /\ TransportTypeOK => ServerTypeOK
  BY DEF ServerInv, TableInv, RecordTypeOK, RecvState, TransportTypeOK, ServerTypeOK
<1> QED
  BY <1>1, ServerSafe, TransportSafe, PTL
------------------------------------------------------------------------------
(* Sequences of request numbers                                            *)

Has(s, q) == \E i \in 1..Len(s) : s[i] = q
Distinct(s) == \A i, j \in 1..Len(s) : s[i] = s[j] => i = j

LEMMA AppendHas ==
  ASSUME NEW S, NEW s \in Seq(S), NEW e \in S, NEW q
  PROVE  Has(Append(s, e), q) <=> Has(s, q) \/ q = e
<1>1. /\ Len(s) \in Nat /\ Len(Append(s, e)) = Len(s) + 1
      /\ \A i \in 1..Len(s) : Append(s, e)[i] = s[i]
      /\ Append(s, e)[Len(s) + 1] = e
  BY AppendProperties, LenProperties
<1> QED
  BY <1>1 DEF Has

LEMMA AppendDistinct ==
  ASSUME NEW S, NEW s \in Seq(S), NEW e \in S, Distinct(s), ~Has(s, e)
  PROVE  Distinct(Append(s, e))
<1>1. /\ Len(s) \in Nat /\ Len(Append(s, e)) = Len(s) + 1
      /\ \A i \in 1..Len(s) : Append(s, e)[i] = s[i]
      /\ Append(s, e)[Len(s) + 1] = e
  BY AppendProperties, LenProperties
<1> QED
  BY <1>1 DEF Has, Distinct

(* An answer sent to the channel follows all that are there.               *)
LEMMA ConcatAppend ==
  ASSUME NEW S, NEW s \in Seq(S), NEW t \in Seq(S), NEW e \in S
  PROVE  s \o Append(t, e) = Append(s \o t, e)
<1>1. <<e>> \in Seq(S) /\ s \o t \in Seq(S)
  BY ConcatProperties
<1>2. Append(t, e) = t \o <<e>> /\ Append(s \o t, e) = (s \o t) \o <<e>>
  BY <1>1, AppendIsConcat
<1> QED
  BY <1>1, <1>2, ConcatAssociative

(* An answer taken from the channel and written keeps its place.           *)
LEMMA ConcatMove ==
  ASSUME NEW S, NEW s \in Seq(S), NEW t \in Seq(S), t # <<>>
  PROVE  Append(s, Head(t)) \o Tail(t) = s \o t
<1>1. /\ Head(t) \in S /\ Tail(t) \in Seq(S) /\ Len(Tail(t)) = Len(t) - 1
      /\ Len(t) \in Nat \ {0} /\ Len(s) \in Nat
      /\ \A i \in 1..Len(Tail(t)) : Tail(t)[i] = t[i + 1]
      /\ Head(t) = t[1]
  BY HeadTailProperties, LenProperties, EmptySeq
<1>2. /\ Append(s, Head(t)) \in Seq(S) /\ Len(Append(s, Head(t))) = Len(s) + 1
      /\ \A i \in 1..Len(s) : Append(s, Head(t))[i] = s[i]
      /\ Append(s, Head(t))[Len(s) + 1] = t[1]
  BY <1>1, AppendProperties
<1> DEFINE l == Append(s, Head(t)) \o Tail(t)
<1>3. /\ l \in Seq(S) /\ Len(l) = Len(s) + Len(t)
      /\ \A i \in 1..(Len(s) + Len(t)) :
            l[i] = IF i <= Len(s) + 1 THEN Append(s, Head(t))[i] ELSE Tail(t)[i - (Len(s) + 1)]
  BY <1>1, <1>2, ConcatProperties
<1>4. /\ s \o t \in Seq(S) /\ Len(s \o t) = Len(s) + Len(t)
      /\ \A i \in 1..(Len(s) + Len(t)) :
            (s \o t)[i] = IF i <= Len(s) THEN s[i] ELSE t[i - Len(s)]
  BY ConcatProperties
<1>5. ASSUME NEW i \in 1..(Len(s) + Len(t)) PROVE l[i] = (s \o t)[i]
  <2>1. CASE i <= Len(s)
    BY <1>1, <1>2, <1>3, <1>4, <2>1
  <2>2. CASE i = Len(s) + 1
    BY <1>1, <1>2, <1>3, <1>4, <2>2
  <2>3. CASE i > Len(s) + 1
    BY <1>1, <1>3, <1>4, <2>3
  <2> QED
    BY <1>1, <2>1, <2>2, <2>3
<1> HIDE DEF l
<1>6. l = s \o t
  BY <1>3, <1>4, <1>5, SeqEqual
<1> QED
  BY <1>6 DEF l

(* Answers left in the channel can be lost without harm to the others.     *)
LEMMA PrefixOf ==
  ASSUME NEW S, NEW s \in Seq(S), NEW t \in Seq(S)
  PROVE  /\ Distinct(s \o t) => Distinct(s \o <<>>)
         /\ \A q : Has(s \o <<>>, q) => Has(s \o t, q)
<1>1. /\ Len(s) \in Nat /\ Len(t) \in Nat /\ Len(s \o t) = Len(s) + Len(t)
      /\ \A i \in 1..(Len(s) + Len(t)) : (s \o t)[i] = IF i <= Len(s) THEN s[i] ELSE t[i - Len(s)]
      /\ s \o <<>> = s
  BY ConcatProperties, ConcatEmptySeq, LenProperties
<1>2. \A i \in 1..Len(s) : i \in 1..Len(s \o t) /\ (s \o t)[i] = s[i]
  BY <1>1
<1> QED
  BY <1>1, <1>2 DEF Has, Distinct

(* What is left after the i-th entry is removed: the others, in order.     *)
LEMMA RemoveAtEach ==
  ASSUME NEW S, NEW s \in Seq(S), NEW i \in 1..Len(s)
  PROVE  /\ Len(RemoveAt(s, i)) = Len(s) - 1
         /\ \A j \in 1..(Len(s) - 1) : RemoveAt(s, i)[j] = IF j < i THEN s[j] ELSE s[j + 1]
<1> DEFINE a == SubSeq(s, 1, i - 1)
           b == SubSeq(s, i + 1, Len(s))
<1>0. Len(s) \in Nat /\ i \in Nat /\ \A j \in 1..Len(s) : s[j] \in S
  BY LenProperties, ElementOfSeq
<1>1. /\ a \in Seq(S) /\ Len(a) = i - 1
      /\ \A j \in 1..(i - 1) : a[j] = s[j]
  <2>1. \A j \in 1..(i - 1) : s[j] \in S
    BY <1>0
  <2>2. /\ a \in Seq(S) /\ Len(a) = IF 1 <= i - 1 THEN i - 1 - 1 + 1 ELSE 0
        /\ \A j \in 1..(i - 1 - 1 + 1) : a[j] = s[1 + j - 1]
    BY <1>0, <2>1, SubSeqProperties
  <2> QED
    BY <1>0, <2>2
<1>2. /\ b \in Seq(S) /\ Len(b) = Len(s) - i
      /\ \A j \in 1..(Len(s) - i) : b[j] = s[i + j]
  <2>1. \A j \in (i + 1)..Len(s) : s[j] \in S
    BY <1>0
  <2>2. /\ b \in Seq(S) /\ Len(b) = IF i + 1 <= Len(s) THEN Len(s) - (i + 1) + 1 ELSE 0
        /\ \A j \in 1..(Len(s) - (i + 1) + 1) : b[j] = s[i + 1 + j - 1]
    BY <1>0, <2>1, SubSeqProperties
  <2> QED
    BY <1>0, <2>2
<1> HIDE DEF a, b
<1>3. /\ Len(a \o b) = Len(a) + Len(b)
      /\ \A j \in 1..(Len(a) + Len(b)) : (a \o b)[j] = IF j <= Len(a) THEN a[j] ELSE b[j - Len(a)]
  BY <1>1, <1>2, ConcatProperties
<1>4. ASSUME NEW j \in 1..(Len(s) - 1)
      PROVE  (a \o b)[j] = IF j < i THEN s[j] ELSE s[j + 1]
  <2>1. j \in 1..(Len(a) + Len(b)) /\ Len(a) = i - 1
    BY <1>0, <1>1, <1>2
  <2>2. CASE j < i
    BY <1>0, <1>1, <1>3, <2>1, <2>2
  <2>3. CASE j >= i
    <3>1. (a \o b)[j] = b[j - (i - 1)] /\ j - (i - 1) \in 1..(Len(s) - i)
      BY <1>0, <1>3, <2>1, <2>3
    <3>2. b[j - (i - 1)] = s[i + (j - (i - 1))] /\ i + (j - (i - 1)) = j + 1
      BY <1>0, <1>2, <3>1
    <3> QED
      BY <1>0, <2>3, <3>1, <3>2
  <2>4. j < i \/ j >= i
    BY <1>0
  <2> QED
    BY <2>2, <2>3, <2>4
<1>5. Len(a \o b) = Len(s) - 1
  BY <1>0, <1>1, <1>2, <1>3
<1> QED
  BY <1>4, <1>5 DEF RemoveAt, a, b
------------------------------------------------------------------------------
(* Requests and their answers                                              *)

Answered(c) == answers[c] \o chan[c]
Due(c, q) == \E i \in 1..Len(pool) : pool[i].tag = <<c, q>>
IsCall(c, q) == q \in 1..Len(asked[c]) /\ asked[c][q] = "call"
HasAnswer(c, q) == q \in 1..Len(asked[c]) /\ asked[c][q] \in {"alive", "register", "call"}

(* An answer that is given was asked for, one that the pool still owes was *)
(* asked for by a CALL and is not given yet.                               *)
Matched(c) ==
    /\ Distinct(Answered(c))
    /\ \A q \in 1..MaxReq : /\ Has(Answered(c), q) => HasAnswer(c, q)
                            /\ Due(c, q) => IsCall(c, q) /\ ~Has(Answered(c), q)

(* No answer is owed twice. *)
OwedOnce == \A i, j \in 1..Len(pool) :
    pool[i].tag # Silent /\ pool[i].tag = pool[j].tag => i = j

AnswerInv == OwedOnce /\ \A c \in Conn : Matched(c)

(* All that the steps below need to know of the state they start in.       *)
ServerState == ServerInv /\ TransportTypeOK /\ AnswerInv

LEMMA AnsweredType ==
  ASSUME ServerState, NEW c \in Conn
  PROVE  /\ answers[c] \in Seq(1..MaxReq) /\ chan[c] \in Seq(1..MaxReq)
         /\ Answered(c) \in Seq(1..MaxReq)
<1>1. answers[c] \in Seq(1..MaxReq) /\ chan[c] \in Seq(1..MaxReq)
  BY DEF ServerState, TransportTypeOK
<1> QED
  BY <1>1, ConcatProperties DEF Answered

(* A connection that asks, owes and answers as before stays matched.       *)
LEMMA MatchedKept ==
  ASSUME NEW c \in Conn, Matched(c), Answered(c)' = Answered(c),
         \A q \in 1..MaxReq : /\ HasAnswer(c, q) => HasAnswer(c, q)'
                              /\ IsCall(c, q) => IsCall(c, q)'
                              /\ Due(c, q)' => Due(c, q)
  PROVE  Matched(c)'
BY DEF Matched

(* The request being received is new, those before it are what they were.  *)
LEMMA ReceiveIsNew ==
  ASSUME ServerState, NEW c \in Conn, NEW k, Receive(c, k)
  PROVE  /\ Number(c) \in 1..MaxReq /\ ~HasAnswer(c, Number(c)) /\ ~IsCall(c, Number(c))
         /\ Number(c) \in 1..Len(asked'[c]) /\ asked'[c][Number(c)] = k
         /\ \A d \in Conn, q \in 1..MaxReq : /\ HasAnswer(d, q) => HasAnswer(d, q)'
                                             /\ IsCall(d, q) => IsCall(d, q)'
<1>1. asked \in [Conn -> Seq(Kinds)] /\ k \in Kinds
  BY ServerAssumption DEF Receive, ServerState, ServerInv, RecordTypeOK
<1>2. /\ Len(asked[c]) \in Nat
      /\ Len(Append(asked[c], k)) = Len(asked[c]) + 1
      /\ \A i \in 1..Len(asked[c]) : Append(asked[c], k)[i] = asked[c][i]
      /\ Append(asked[c], k)[Len(asked[c]) + 1] = k
  BY <1>1, AppendProperties, LenProperties
<1>3. asked'[c] = Append(asked[c], k) /\ \A d \in Conn : d # c => asked'[d] = asked[d]
  BY <1>1 DEF Receive
<1>4. Number(c) \in 1..MaxReq
  BY NumberInRange DEF Receive, ServerState, ServerInv
<1>5. ~HasAnswer(c, Number(c)) /\ ~IsCall(c, Number(c))
  BY <1>2 DEF HasAnswer, IsCall, Number
<1>6. Number(c) \in 1..Len(asked'[c]) /\ asked'[c][Number(c)] = k
  BY <1>2, <1>3 DEF Number
<1>7. ASSUME NEW d \in Conn, NEW q \in 1..MaxReq
      PROVE  (HasAnswer(d, q) => HasAnswer(d, q)') /\ (IsCall(d, q) => IsCall(d, q)')
  <2>1. CASE d # c
    BY <1>3, <2>1 DEF HasAnswer, IsCall
  <2>2. CASE d = c
    BY <1>2, <1>3, <2>2 DEF HasAnswer, IsCall
  <2> QED
    BY <2>1, <2>2
<1> QED
  BY <1>4, <1>5, <1>6, <1>7

(* Steps that leave the pool and the answers of all connections alone.     *)
LEMMA NothingAnswered ==
  ASSUME ServerState, UNCHANGED <<pool, chan, answers>>,
         \A d \in Conn, q \in 1..MaxReq : /\ HasAnswer(d, q) => HasAnswer(d, q)'
                                          /\ IsCall(d, q) => IsCall(d, q)'
  PROVE  AnswerInv'
<1>1. \A d \in Conn : Answered(d)' = Answered(d) /\ \A q \in 1..MaxReq : Due(d, q)' = Due(d, q)
  BY DEF Answered, Due
<1>2. \A d \in Conn : Matched(d)'
  BY <1>1, MatchedKept DEF ServerState, AnswerInv
<1>3. OwedOnce'
  BY DEF ServerState, AnswerInv, OwedOnce
<1> QED
  BY <1>2, <1>3 DEF AnswerInv

(* One answer is sent to the channel: it was asked for and not given.      *)
LEMMA OneAnswered ==
  ASSUME ServerState, NEW c \in Conn, NEW q \in 1..MaxReq,
         UNCHANGED answers, chan' = [chan EXCEPT ![c] = Append(@, q)],
         HasAnswer(c, q)', ~Has(Answered(c), q), ~Due(c, q)',
         \A d \in Conn, r \in 1..MaxReq : /\ HasAnswer(d, r) => HasAnswer(d, r)'
                                          /\ IsCall(d, r) => IsCall(d, r)'
                                          /\ Due(d, r)' => Due(d, r)
  PROVE  \A d \in Conn : Matched(d)'
<1>1. ASSUME NEW d \in Conn, d # c PROVE Matched(d)'
  <2>1. Answered(d)' = Answered(d)
    BY <1>1 DEF Answered, ServerState, TransportTypeOK
  <2> QED
    BY <2>1, MatchedKept DEF ServerState, AnswerInv
<1>2. Answered(c)' = Append(Answered(c), q)
  <2>1. answers[c] \o Append(chan[c], q) = Append(answers[c] \o chan[c], q)
    <3>1. answers[c] \in Seq(1..MaxReq) /\ chan[c] \in Seq(1..MaxReq)
      BY AnsweredType
    <3>2. \A s, t \in Seq(1..MaxReq) : s \o Append(t, q) = Append(s \o t, q)
      BY ConcatAppend
    <3> QED
      BY <3>1, <3>2
  <2>2. chan'[c] = Append(chan[c], q) /\ answers'[c] = answers[c]
    BY DEF ServerState, TransportTypeOK
  <2> QED
    BY <2>1, <2>2 DEF Answered
<1>3. Answered(c) \in Seq(1..MaxReq) /\ Matched(c)
  BY AnsweredType DEF ServerState, AnswerInv
<1>4. Distinct(Answered(c)')
  BY <1>2, <1>3, AppendDistinct DEF Matched
<1>5. \A r \in 1..MaxReq : Has(Answered(c)', r) <=> Has(Answered(c), r) \/ r = q
  <2>1. ASSUME NEW r \in 1..MaxReq PROVE Has(Append(Answered(c), q), r) <=> Has(Answered(c), r) \/ r = q
    BY <1>3, AppendHas, Zenon
  <2> QED
    BY <1>2, <2>1
<1>6. Distinct(Answered(c))'
  BY <1>4 DEF Distinct
<1>7. \A r \in 1..MaxReq : Has(Answered(c), r)' <=> Has(Answered(c), r) \/ r = q
  BY <1>5 DEF Has
<1>8. Matched(c)'
  BY <1>3, <1>6, <1>7 DEF Matched
<1> QED
  BY <1>1, <1>8
(* A pool that takes in no call owes nothing new.                          *)
LEMMA OwesNothingNew ==
  ASSUME ServerState, NEW c \in Conn, NEW k, Receive(c, k), UNCHANGED <<pool, answers>>,
         \/ UNCHANGED chan
         \/ k \in {"alive", "register"} /\ chan' = [chan EXCEPT ![c] = Append(@, Number(c))]
  PROVE  AnswerInv'
<1>1. OwedOnce' /\ \A d \in Conn, q \in 1..MaxReq : Due(d, q)' = Due(d, q)
  BY DEF ServerState, AnswerInv, OwedOnce, Due
<1>2. CASE UNCHANGED chan
  BY <1>2, ReceiveIsNew, NothingAnswered
<1>3. CASE k \in {"alive", "register"} /\ chan' = [chan EXCEPT ![c] = Append(@, Number(c))]
  <2>1. /\ Number(c) \in 1..MaxReq /\ ~HasAnswer(c, Number(c)) /\ ~IsCall(c, Number(c))
        /\ Number(c) \in 1..Len(asked'[c]) /\ asked'[c][Number(c)] = k
        /\ \A d \in Conn, q \in 1..MaxReq : /\ HasAnswer(d, q) => HasAnswer(d, q)'
                                            /\ IsCall(d, q) => IsCall(d, q)'
    BY ReceiveIsNew
  <2>2. PICK q \in 1..MaxReq : q = Number(c)
    BY <2>1
  <2>3. HasAnswer(c, q)'
    BY <1>3, <2>1, <2>2 DEF HasAnswer
  <2>4. ~Has(Answered(c), q) /\ ~Due(c, q)'
    BY <1>1, <2>1, <2>2 DEF ServerState, AnswerInv, Matched
  <2>5. \A d \in Conn : Matched(d)'
    BY <1>1, <1>3, <2>1, <2>2, <2>3, <2>4, OneAnswered
  <2> QED
    BY <1>1, <2>5 DEF AnswerInv
<1> QED
  BY <1>2, <1>3

(* A CALL that is queued is owed from then on, under a number of its own.  *)
LEMMA CallIsOwed ==
  ASSUME ServerState, NEW c \in Conn, NEW k \in {"call", "one_way"}, NEW h \in Handle,
         RecvCall(c, k, h), Execute(h, CallbackTag(c, k))
  PROVE  AnswerInv'
<1> DEFINE t == CallbackTag(c, k)
<1>1. /\ Number(c) \in 1..MaxReq /\ ~HasAnswer(c, Number(c)) /\ ~IsCall(c, Number(c))
      /\ Number(c) \in 1..Len(asked'[c]) /\ asked'[c][Number(c)] = k
      /\ \A d \in Conn, q \in 1..MaxReq : /\ HasAnswer(d, q) => HasAnswer(d, q)'
                                          /\ IsCall(d, q) => IsCall(d, q)'
  BY ReceiveIsNew DEF RecvCall
<1>2. UNCHANGED <<chan, answers>>
  BY DEF RecvCall, Receive, Stop, Execute, vars
<1>3. t \in Tag
  BY <1>1, ServerAssumption DEF CallbackTag
<1>4. [tag |-> t, service |-> GetServiceBySig(h)] \in Job
  BY <1>3, GetServiceBySigType DEF ServerState, ServerInv, TableInv, Job
<1>5. PICK j \in Job : j.tag = t /\ pool' = Append(pool, j)
  BY <1>4 DEF Execute
<1>6. pool \in Seq(Job)
  BY DEF ServerState, ServerInv, TableInv, TypeOK
<1>7. /\ Len(pool) \in Nat /\ Len(pool') = Len(pool) + 1
      /\ \A i \in 1..Len(pool) : pool'[i].tag = pool[i].tag
      /\ pool'[Len(pool) + 1].tag = t
  BY <1>5, <1>6, AppendProperties, LenProperties
<1>8. t # Silent => t = <<c, Number(c)>> /\ k = "call"
  BY DEF CallbackTag
<1> HIDE DEF t
<1>9. ASSUME NEW d \in Conn, NEW q \in 1..MaxReq, Due(d, q)'
      PROVE  Due(d, q) \/ (d = c /\ q = Number(c) /\ k = "call")
  <2>1. PICK i \in 1..Len(pool') : pool'[i].tag = <<d, q>>
    BY <1>9 DEF Due
  <2>2. CASE i \in 1..Len(pool)
    BY <1>7, <2>1, <2>2 DEF Due
  <2>3. CASE i = Len(pool) + 1
    <3>1. t = <<d, q>>
      BY <1>7, <2>1, <2>3
    <3>2. <<d, q>> \in Conn \X (1..MaxReq)
      OBVIOUS
    <3>3. t # Silent
      BY <3>1, <3>2, ServerAssumption
    <3> QED
      BY <1>8, <3>1, <3>3
  <2> QED
    BY <1>7, <2>2, <2>3
<1>10. ASSUME NEW d \in Conn PROVE Matched(d)'
  <2>1. Answered(d)' = Answered(d) /\ Matched(d)
    BY <1>2 DEF Answered, ServerState, AnswerInv
  <2>2. ASSUME NEW q \in 1..MaxReq, Due(d, q)'
        PROVE  IsCall(d, q)' /\ ~Has(Answered(d), q)
    <3>1. CASE Due(d, q)
      BY <1>1, <2>1, <3>1 DEF Matched
    <3>2. CASE d = c /\ q = Number(c) /\ k = "call"
      <4>1. IsCall(d, q)'
        BY <1>1, <3>2 DEF IsCall
      <4> QED
        BY <1>1, <2>1, <3>2, <4>1 DEF Matched
    <3> QED
      BY <1>9, <2>2, <3>1, <3>2
  <2> QED
    BY <1>1, <2>1, <2>2 DEF Matched
<1>11. \A i \in 1..Len(pool) : t # Silent => pool[i].tag # t
  <2>1. ~Due(c, Number(c))
    BY <1>1 DEF ServerState, AnswerInv, Matched
  <2> QED
    BY <1>8, <2>1 DEF Due
<1>12. OwedOnce'
  <2> SUFFICES ASSUME NEW i \in 1..Len(pool'), NEW l \in 1..Len(pool'),
                      pool'[i].tag # Silent, pool'[i].tag = pool'[l].tag
               PROVE  i = l
    BY DEF OwedOnce
  <2>1. CASE i \in 1..Len(pool) /\ l \in 1..Len(pool)
    BY <1>7, <2>1 DEF ServerState, AnswerInv, OwedOnce
  <2> QED
    BY <1>7, <1>11, <2>1
<1> QED
  BY <1>10, <1>12 DEF AnswerInv

(* A call that ends is owed no more; at most its own answer is sent.       *)
LEMMA EndedIsOwedNoMore ==
  ASSUME ServerState, NEW i \in 1..MaxJobs, FinishCall(i)
  PROVE  AnswerInv'
<1>1. /\ i \in 1..Len(pool) /\ pool' = RemoveAt(pool, i) /\ pool \in Seq(Job)
      /\ UNCHANGED <<asked, answers>>
  BY DEF FinishCall, Finish, ServerState, ServerInv, TableInv, TypeOK
<1>2. /\ Len(pool) \in Nat /\ Len(pool') = Len(pool) - 1
      /\ \A j \in 1..(Len(pool) - 1) : pool'[j] = IF j < i THEN pool[j] ELSE pool[j + 1]
  BY <1>1, RemoveAtEach, LenProperties
<1>3. ASSUME NEW l \in 1..Len(pool')
      PROVE  \E j \in 1..Len(pool) \ {i} : pool'[l] = pool[j] /\ j = IF l < i THEN l ELSE l + 1
  BY <1>1, <1>2
<1>4. OwedOnce'
  <2> SUFFICES ASSUME NEW l \in 1..Len(pool'), NEW m \in 1..Len(pool'),
                      pool'[l].tag # Silent, pool'[l].tag = pool'[m].tag
               PROVE  l = m
    BY DEF OwedOnce
  <2>1. PICK j \in 1..Len(pool) : pool'[l] = pool[j] /\ j = IF l < i THEN l ELSE l + 1
    BY <1>3
  <2>2. PICK j2 \in 1..Len(pool) : pool'[m] = pool[j2] /\ j2 = IF m < i THEN m ELSE m + 1
    BY <1>3
  <2>3. j = j2
    BY <2>1, <2>2 DEF ServerState, AnswerInv, OwedOnce
  <2> QED
    BY <1>1, <1>2, <2>1, <2>2, <2>3
<1>5. ASSUME NEW d \in Conn, NEW q \in 1..MaxReq, Due(d, q)'
      PROVE  Due(d, q) /\ pool[i].tag # <<d, q>>
  <2>1. PICK l \in 1..Len(pool') : pool'[l].tag = <<d, q>>
    BY <1>5 DEF Due
  <2>2. PICK j \in 1..Len(pool) \ {i} : pool'[l] = pool[j]
    BY <1>3
  <2>3. <<d, q>> # Silent
    BY ServerAssumption
  <2>4. pool[i].tag # <<d, q>>
    BY <1>1, <2>1, <2>2, <2>3 DEF ServerState, AnswerInv, OwedOnce
  <2> QED
    BY <2>1, <2>2, <2>4 DEF Due
<1>6. \A d \in Conn, q \in 1..MaxReq : /\ HasAnswer(d, q) => HasAnswer(d, q)'
                                       /\ IsCall(d, q) => IsCall(d, q)'
  BY <1>1 DEF HasAnswer, IsCall
<1>7. CASE UNCHANGED chan
  <2>1. \A d \in Conn : Answered(d)' = Answered(d)
    BY <1>1, <1>7 DEF Answered
  <2>2. \A d \in Conn : Matched(d)'
    BY <1>5, <1>6, <2>1, MatchedKept DEF ServerState, AnswerInv
  <2> QED
    BY <1>4, <2>2 DEF AnswerInv
<1>8. CASE pool[i].tag # Silent /\ chan' # chan
  <2>1. PICK c \in Conn, q \in 1..MaxReq : pool[i].tag = <<c, q>>
    BY <1>1, <1>8, TagOfJob DEF ServerState, ServerInv
  <2>2. pool[i].tag[1] = c /\ pool[i].tag[2] = q
    BY <2>1
  <2>3. chan' = [chan EXCEPT ![c] = Append(@, q)]
    BY <1>8, <2>2 DEF FinishCall
  <2>4. Due(c, q) /\ ~Due(c, q)'
    BY <1>1, <1>5, <2>1 DEF Due
  <2>5. HasAnswer(c, q)' /\ ~Has(Answered(c), q)
    BY <1>1, <2>4 DEF ServerState, AnswerInv, Matched, IsCall, HasAnswer
  <2>6. \A d \in Conn : Matched(d)'
    BY <1>1, <1>5, <1>6, <2>3, <2>4, <2>5, OneAnswered
  <2> QED
    BY <1>4, <2>6 DEF AnswerInv
<1> QED
  BY <1>7, <1>8 DEF FinishCall

(* Delivering an answer keeps what was answered; a send loop that fails    *)
(* loses the answers still in its channel.                                 *)
LEMMA DeliverKeeps ==
  ASSUME ServerState, NEW c \in Conn, Deliver(c) \/ SendFails(c)
  PROVE  AnswerInv'
<1>1. UNCHANGED <<pool, asked>>
  BY DEF Deliver, SendFails, vars
<1>2. \A d \in Conn, q \in 1..MaxReq : /\ HasAnswer(d, q)' = HasAnswer(d, q)
                                       /\ IsCall(d, q)' = IsCall(d, q)
                                       /\ Due(d, q)' = Due(d, q)
  BY <1>1 DEF HasAnswer, IsCall, Due
<1>3. ASSUME NEW d \in Conn, d # c PROVE Matched(d)'
  <2>1. Answered(d)' = Answered(d)
    BY <1>3 DEF Answered, Deliver, SendFails, ServerState, TransportTypeOK
  <2> QED
    BY <1>2, <2>1, MatchedKept DEF ServerState, AnswerInv
<1>4. answers[c] \in Seq(1..MaxReq) /\ chan[c] \in Seq(1..MaxReq) /\ Matched(c)
  BY AnsweredType DEF ServerState, AnswerInv
<1>5. ASSUME Deliver(c) PROVE Matched(c)'
  <2>1. answers'[c] = Append(answers[c], Head(chan[c])) /\ chan'[c] = Tail(chan[c])
    BY <1>5 DEF Deliver, ServerState, TransportTypeOK
  <2>2. Append(answers[c], Head(chan[c])) \o Tail(chan[c]) = answers[c] \o chan[c]
    <3>1. chan[c] # <<>>
      BY <1>5 DEF Deliver
    <3>2. \A s, t \in Seq(1..MaxReq) : t # <<>> => Append(s, Head(t)) \o Tail(t) = s \o t
      BY ConcatMove
    <3> QED
      BY <1>4, <3>1, <3>2
  <2>3. Answered(c)' = Answered(c)
    BY <2>1, <2>2 DEF Answered
  <2> QED
    BY <1>2, <1>4, <2>3, MatchedKept
<1>6. ASSUME SendFails(c) PROVE Matched(c)'
  <2>1. answers'[c] = answers[c] /\ chan'[c] = <<>>
    BY <1>6 DEF SendFails, ServerState, TransportTypeOK
  <2>2. PICK l : l = answers[c] \o <<>>
    OBVIOUS
  <2>3. (Distinct(Answered(c)) => Distinct(l)) /\ \A q : Has(l, q) => Has(Answered(c), q)
    BY <1>4, <2>2, PrefixOf DEF Answered
  <2>4. Answered(c)' = l
    BY <2>1, <2>2 DEF Answered
  <2>5. Distinct(Answered(c))' /\ \A q \in 1..MaxReq : Has(Answered(c), q)' => Has(Answered(c), q)
    <3>1. Distinct(Answered(c))' = Distinct(l)
      BY <2>4 DEF Distinct
    <3>2. \A q \in 1..MaxReq : Has(Answered(c), q)' = Has(l, q)
      BY <2>4 DEF Has
    <3> QED
      BY <1>4, <2>3, <3>1, <3>2 DEF Matched
  <2> QED
    BY <1>2, <1>4, <2>5 DEF Matched
<1>7. OwedOnce'
  BY <1>1 DEF ServerState, AnswerInv, OwedOnce
<1> QED
  BY <1>3, <1>5, <1>6, <1>7 DEF AnswerInv

LEMMA AnswerInvInductive ==
  ASSUME ServerState, ServerNext
  PROVE  AnswerInv'
<1>1. ASSUME NEW c \in Conn,
             \/ Accept(c) \/ ReadId(c) \/ Connected(c) \/ HandshakeFails(c)
             \/ RecvFails(c) \/ Finalize(c) \/ Finalized(c)
             \/ AcquireWriteLock(c) \/ SendEnds(c)
             \/ \E n \in Name : ReleaseRecord(c, n)
      PROVE  AnswerInv'
  <2>1. UNCHANGED <<pool, chan, answers, asked>>
    BY <1>1 DEF Accept, ReadId, Connected, HandshakeFails, RecvFails, Stop, Finalize, Finalized,
                AcquireWriteLock, SendEnds, ReleaseRecord, Unregister, vars
  <2>2. \A d \in Conn, q \in 1..MaxReq : /\ HasAnswer(d, q) => HasAnswer(d, q)'
                                         /\ IsCall(d, q) => IsCall(d, q)'
    BY <2>1 DEF HasAnswer, IsCall
  <2> QED
    BY <2>1, <2>2, NothingAnswered
<1>2. ASSUME NEW c \in Conn,
             RecvAlive(c) \/ RecvChainCall(c) \/ \E n \in Name : RecvRegister(c, n) \/ RecvUnregister(c, n)
      PROVE  AnswerInv'
  <2>1. UNCHANGED <<pool, answers>>
    BY <1>2 DEF RecvAlive, RecvChainCall, RecvRegister, RecvUnregister, Receive, Register,
                RegisterFails, Unregister, vars
  <2>2. PICK k : /\ Receive(c, k)
                 /\ \/ UNCHANGED chan
                    \/ k \in {"alive", "register"} /\ chan' = [chan EXCEPT ![c] = Append(@, Number(c))]
    BY <1>2 DEF RecvAlive, RecvChainCall, RecvRegister, RecvUnregister, Reply, Stop
  <2> QED
    BY <2>1, <2>2, OwesNothingNew
<1>3. ASSUME NEW c \in Conn, NEW k \in {"call", "one_way"}, NEW h \in Handle, RecvCall(c, k, h)
      PROVE  AnswerInv'
  <2>1. CASE LockFails
    <3>1. Receive(c, k) /\ UNCHANGED <<pool, answers, chan>>
      BY <1>3, <2>1 DEF RecvCall, Receive, Stop, vars
    <3> QED
      BY <3>1, OwesNothingNew
  <2>2. CASE ~LockFails
    BY <1>3, <2>2, CallIsOwed DEF RecvCall
  <2> QED
    BY <2>1, <2>2
<1>4. ASSUME NEW n \in Name, NEW v \in Version \union {None}, Reconfigure(n, v)
      PROVE  AnswerInv'
  <2>1. UNCHANGED <<pool, chan, answers, asked>>
    BY <1>4 DEF Reconfigure, SetConfig, serverVars
  <2>2. \A d \in Conn, q \in 1..MaxReq : /\ HasAnswer(d, q) => HasAnswer(d, q)'
                                         /\ IsCall(d, q) => IsCall(d, q)'
    BY <2>1 DEF HasAnswer, IsCall
  <2> QED
    BY <2>1, <2>2, NothingAnswered
<1> QED
  BY <1>1, <1>2, <1>3, <1>4, EndedIsOwedNoMore, DeliverKeeps DEF ServerNext

(* Whatever order the receive thread and the workers of the pool answer    *)
(* in, and wherever the send loop fails: no request is answered twice, and *)
(* none that has no answer is answered.                                    *)
THEOREM AnswersMatch == ServerSpec => []AnswersMatchRequests
<1>1. ServerInit => AnswerInv
  <2> SUFFICES ASSUME ServerInit PROVE AnswerInv
    OBVIOUS
  <2>1. Len(<<>>) = 0 /\ <<>> \o <<>> = <<>>
    OBVIOUS
  <2>2. \A c \in Conn : Answered(c) = <<>>
    BY <2>1 DEF ServerInit, Answered
  <2> QED
    BY <2>1, <2>2 DEF ServerInit, Init, AnswerInv, OwedOnce, Matched, Has, Distinct, Due
<1>2. ServerInv /\ TransportTypeOK /\ AnswerInv /\ [ServerNext]_allVars => AnswerInv'
  <2>1. ASSUME ServerState, UNCHANGED allVars PROVE AnswerInv'
    <3>1. UNCHANGED <<pool, chan, answers, asked>>
      BY <2>1 DEF allVars, serverVars, vars
    <3>2. \A d \in Conn, q \in 1..MaxReq : /\ HasAnswer(d, q) => HasAnswer(d, q)'
                                           /\ IsCall(d, q) => IsCall(d, q)'
      BY <3>1 DEF HasAnswer, IsCall
    <3> QED
      BY <2>1, <3>1, <3>2, NothingAnswered
  <2> QED
    BY <2>1, AnswerInvInductive DEF ServerState
<1>3. ServerInv /\ TransportTypeOK /\ AnswerInv => AnswersMatchRequests
  <2> SUFFICES ASSUME ServerState, NEW c \in Conn
               PROVE  /\ \A i \in 1..Len(Answered(c)) :
                            /\ Answered(c)[i] \in 1..Len(asked[c])
                            /\ asked[c][Answered(c)[i]] \in {"alive", "register", "call"}
                      /\ Distinct(Answered(c))
    BY DEF ServerState, AnswersMatchRequests, Answered, Distinct
  <2>1. Answered(c) \in Seq(1..MaxReq) /\ Matched(c)
    BY AnsweredType DEF ServerState, AnswerInv
  <2>2. \A i \in 1..Len(Answered(c)) : Answered(c)[i] \in 1..MaxReq
    BY <2>1, ElementOfSeq
  <2> QED
    BY <2>1, <2>2 DEF Matched, Has, HasAnswer
<1> QED
  BY <1>1, <1>2, <1>3, ServerSafe, TransportSafe, PTL DEF ServerSpec
==============================================================================
