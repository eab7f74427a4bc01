----------------------------- MODULE FFIManager -----------------------------
(***************************************************************************)
(* The service table of the capability daemon (serde-ipc/src/core/ffi.rs): *)
(* services are loaded when first registered, shared by all later          *)
(* registrations, called through a thread pool, and dropped when the last  *)
(* registration is undone.  The object sits behind one mutex, so each      *)
(* public method is one action; the thread pool and the configuration      *)
(* files on disk change outside it.                                        *)
(*                                                                         *)
(* A Rust map from K to V is a function [K -> V \union {None}]; None is    *)
(* what get() answers for a missing key.                                   *)
(***************************************************************************)
EXTENDS Naturals, Sequences, SequencesExt

CONSTANTS Name,        \* names of capability services
          Version,     \* versions of a service (its entry file and its spec)
          ServiceSig,  \* the u32 signatures of loaded services
          UsageSig,    \* the u32 signatures of the usages of one service
          Tag,         \* what a queued call's callback will answer to
          Workers,     \* threads of the pool: num_cpus::get()
          MaxJobs,     \* bound: calls in the pool at a time
          None

ASSUME NoneAssumption ==
    /\ None \notin Version
    /\ None \notin ServiceSig
    /\ \A service \in [name : Name, version : Version] : service # None
    /\ \A usages \in SUBSET UsageSig : usages # None
ASSUME BoundAssumption == Workers \in Nat \ {0} /\ MaxJobs \in Nat

VARIABLES
    config,       \* root/<name>/.conf: the version its metadata describes
    services,     \* services: the loaded library, by service signature
    service_map,  \* service_map: the signature under which a name is loaded
    usage_map,    \* usage_map: the usages of each loaded service
    pool          \* ThreadPool: submitted calls, oldest first; the first
                  \* Workers of them are running

vars == <<config, services, service_map, usage_map, pool>>
tables == <<services, service_map, usage_map>>

Service == [name : Name, version : Version]
Handle == ServiceSig \X UsageSig       \* (service_sig << 32) + usage_sig
Job == [tag : Tag, service : {None} \union Service]

Init ==
    /\ config \in [Name -> Version \union {None}]
    /\ services = [s \in ServiceSig |-> None]
    /\ service_map = [n \in Name |-> None]
    /\ usage_map = [s \in ServiceSig |-> None]
    /\ pool = <<>>

------------------------------------------------------------------------------
(* Registration *)

(* register: without a usable .conf it answers None.  A name that is       *)
(* already loaded gets one more usage of the same library, whatever the    *)
(* .conf says by now; otherwise the library is loaded (which may fail, and *)
(* then nothing has changed) under a signature not in use.                 *)
HasConfig(n) == config[n] # None

SharesReloads(n, s) ==
    /\ service_map[n] = s
    /\ services' = [services EXCEPT ![s] = [name |-> n, version |-> config[n]]]
    /\ UNCHANGED service_map
Shares(n, s) == service_map[n] = s /\ UNCHANGED <<services, service_map>>

Loads(n, s) ==
    /\ service_map[n] = None
    /\ usage_map[s] = None
    /\ services' = [services EXCEPT ![s] = [name |-> n, version |-> config[n]]]
    /\ service_map' = [service_map EXCEPT ![n] = s]

Usages(s) == IF usage_map[s] = None THEN {} ELSE usage_map[s]

FreshUsage(s, u) == u \notin Usages(s)

Register(n, s, u) ==
    /\ HasConfig(n)
    /\ Shares(n, s) \/ Loads(n, s)
    /\ FreshUsage(s, u)
    /\ usage_map' = [usage_map EXCEPT ![s] = Usages(s) \union {u}]
    /\ UNCHANGED <<config, pool>>

RegisterFails(n) ==
    /\ ~HasConfig(n) \/ service_map[n] = None
    /\ UNCHANGED vars

(* cleanup: a service without a usage is dropped from the three tables.    *)
CleanupKeepsName(n, s) ==
    /\ usage_map' = [usage_map EXCEPT ![s] = None]
    /\ services' = [services EXCEPT ![s] = None]
    /\ UNCHANGED service_map
CleanupNever(n, s) ==
    /\ usage_map' = [usage_map EXCEPT ![s] = {}]
    /\ UNCHANGED <<services, service_map>>
Cleanup(n, s) ==
    /\ usage_map' = [usage_map EXCEPT ![s] = None]
    /\ service_map' = [service_map EXCEPT ![n] = None]
    /\ services' = [services EXCEPT ![s] = None]

(* unregister: ignored unless the name is loaded under the handle's        *)
(* service signature; the service goes with its last usage.                *)
Unregister(n, h) ==
    LET s == h[1]
        rest == Usages(s) \ {h[2]}
    IN  /\ \/ service_map[n] # s /\ UNCHANGED tables
           \/ service_map[n] = s /\ rest = {} /\ Cleanup(n, s)
           \/ /\ service_map[n] = s /\ rest # {}
              /\ usage_map' = [usage_map EXCEPT ![s] = rest]
              /\ UNCHANGED <<services, service_map>>
        /\ UNCHANGED <<config, pool>>

------------------------------------------------------------------------------
(* Calls *)

GetServiceBySig(h) == IF h[2] \in Usages(h[1]) THEN services[h[1]] ELSE None

(* execute: the handle is resolved when the call is submitted; the pool    *)
(* keeps the library alive until the call has run.                         *)
Execute(h, t) ==
    /\ Len(pool) < MaxJobs
    /\ pool' = Append(pool, [tag |-> t, service |-> GetServiceBySig(h)])
    /\ UNCHANGED <<config, tables>>

(* A worker of the pool finishes the i-th call and runs its callback. *)
Finish(i) ==
    /\ i \in 1..Len(pool) /\ i <= Workers
    /\ pool' = RemoveAt(pool, i)
    /\ UNCHANGED <<config, tables>>

(* Installing, upgrading and uninstalling write and remove .conf files;    *)
(* none of them looks at the table of loaded services.                     *)
SetConfig(n, v) ==
    /\ config' = [config EXCEPT ![n] = v]
    /\ UNCHANGED <<tables, pool>>

Next ==
    \/ \E n \in Name : \E s \in ServiceSig, u \in UsageSig : Register(n, s, u)
    \/ \E n \in Name : RegisterFails(n)
    \/ \E n \in Name, h \in Handle : Unregister(n, h)
    \/ \E h \in Handle, t \in Tag : Execute(h, t)
    \/ \E i \in 1..MaxJobs : Finish(i)
    \/ \E n \in Name, v \in Version \union {None} : SetConfig(n, v)

Spec == Init /\ [][Next]_vars

------------------------------------------------------------------------------
(* Properties *)

TypeOK ==
    /\ config \in [Name -> Version \union {None}]
    /\ services \in [ServiceSig -> {None} \union Service]
    /\ service_map \in [Name -> ServiceSig \union {None}]
    /\ usage_map \in [ServiceSig -> {None} \union SUBSET UsageSig]
    /\ pool \in Seq(Job)

(* The three tables of the manager describe the same loaded services: a    *)
(* name points at the service loaded for that name, every loaded service   *)
(* is pointed at by its own name (insert_service, cleanup).                *)
MapsAgree ==
    /\ \A s \in ServiceSig : (services[s] = None) <=> (usage_map[s] = None)
    /\ \A n \in Name : service_map[n] # None =>
           services[service_map[n]] # None /\ services[service_map[n]].name = n
    /\ \A s \in ServiceSig : services[s] # None => service_map[services[s].name] = s

(* Between two calls of the manager no library is loaded without a usage:  *)
(* the register that loads it and the unregister that drops it leave no    *)
(* half-way state behind.                                                  *)
NoIdleService == \A s \in ServiceSig : usage_map[s] # {}

TableInv == TypeOK /\ MapsAgree /\ NoIdleService

(* The manager is a reference-counted table of services: a name is held by *)
(* the usages of the signature it is loaded under, and the version in      *)
(* memory is the one loaded under that signature.                          *)
Holders == [n \in Name |-> IF service_map[n] = None THEN {}
                           ELSE {service_map[n]} \X usage_map[service_map[n]]]
Loaded == [n \in Name |-> IF service_map[n] = None THEN None
                          ELSE services[service_map[n]].version]

Registry == INSTANCE ServiceRegistry
                WITH installed <- config, holders <- Holders, loaded <- Loaded

RefinesRegistry == Registry!Spec
==============================================================================
