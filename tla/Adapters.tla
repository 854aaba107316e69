------------------------------- MODULE Adapters -------------------------------
(***************************************************************************)
(* AdapterRegistry (src/ota_connect/binding/registry.py): threads load one  *)
(* adapter while its factory is registered anew.  load looks into the cache *)
(* under the lock, reads the factory and makes the implementation without   *)
(* it, and takes it again to fill the cache.  Adapters do not share state,  *)
(* so one of them is enough.                                                *)
(***************************************************************************)
EXTENDS Naturals

CONSTANTS
    Loaders,        \* threads that load
    NoImpl,         \* nothing cached, nothing made
    MaxFactories,   \* bound: factories registered
    MaxInstances    \* bound: implementations made

ASSUME AdaptersAssumption ==
    /\ {MaxFactories, MaxInstances} \subseteq Nat
    /\ NoImpl \notin [by : 0..MaxFactories, number : 1..MaxInstances]

VARIABLES
    factory,    \* _factories: the latest one, 0 when the manifest's entrypoint counts
    cached,     \* _cache
    loaderAt,   \* where each thread is
    made,       \* the implementation each thread has made
    handed,     \* what each thread's last load has returned
    instances,  \* implementations made
    \* History, for the properties only:
    early,      \* the loads that were under way when the factory was registered
    overtaken   \* such a load has filled the cache since

registryVars == <<factory, cached, loaderAt, made, handed, instances, early, overtaken>>

\* An implementation: the factory that made it, and its number.
Impls == [by : 0..MaxFactories, number : 1..MaxInstances]

AdaptersInit ==
    /\ factory = 0
    /\ cached = NoImpl
    /\ loaderAt = [t \in Loaders |-> "out"]
    /\ made = [t \in Loaders |-> NoImpl]
    /\ handed = [t \in Loaders |-> NoImpl]
    /\ instances = 0
    /\ early = {}
    /\ overtaken = FALSE

UnderWay == {t \in Loaders : loaderAt[t] # "out"}

\* Faulty variant: the cache keeps what it has.
CacheKept == cached

\* The cache after a registration: the implementation in it is dropped.
CacheAfterRegistration == NoImpl

RegisterFactory ==
    /\ factory < MaxFactories
    /\ factory' = factory + 1
    /\ cached' = CacheAfterRegistration
    /\ early' = UnderWay
    /\ overtaken' = FALSE
    /\ UNCHANGED <<loaderAt, made, handed, instances>>

ResetCache ==
    /\ cached # NoImpl
    /\ cached' = NoImpl
    /\ overtaken' = FALSE
    /\ UNCHANGED <<factory, loaderAt, made, handed, instances, early>>

\* The first locked part of load.
LoadLooks(t) ==
    /\ loaderAt[t] = "out"
    /\ \/ /\ cached # NoImpl
          /\ handed' = [handed EXCEPT ![t] = cached]
          /\ UNCHANGED loaderAt
       \/ /\ cached = NoImpl
          /\ loaderAt' = [loaderAt EXCEPT ![t] = "making"]
          /\ UNCHANGED handed
    /\ UNCHANGED <<factory, cached, made, instances, early, overtaken>>

\* get_bundle and _instantiate: the factory is read without the lock.
LoadMakes(t) ==
    /\ loaderAt[t] = "making"
    /\ instances < MaxInstances
    /\ instances' = instances + 1
    /\ made' = [made EXCEPT ![t] = [by |-> factory, number |-> instances + 1]]
    /\ loaderAt' = [loaderAt EXCEPT ![t] = "made"]
    /\ UNCHANGED <<factory, cached, handed, early, overtaken>>

\* The manifest is gone or the factory raises: nothing is cached.
LoadFails(t) ==
    /\ loaderAt[t] = "making"
    /\ loaderAt' = [loaderAt EXCEPT ![t] = "out"]
    /\ early' = early \ {t}
    /\ UNCHANGED <<factory, cached, made, handed, instances, overtaken>>

\* The second locked part: what another thread has cached meanwhile is replaced.
LoadStores(t) ==
    /\ loaderAt[t] = "made"
    /\ cached' = made[t]
    /\ handed' = [handed EXCEPT ![t] = made[t]]
    /\ made' = [made EXCEPT ![t] = NoImpl]
    /\ loaderAt' = [loaderAt EXCEPT ![t] = "out"]
    /\ overtaken' = (t \in early)
    /\ early' = early \ {t}
    /\ UNCHANGED <<factory, instances>>

AdaptersNext ==
    \/ RegisterFactory \/ ResetCache
    \/ \E t \in Loaders : LoadLooks(t) \/ LoadMakes(t) \/ LoadFails(t) \/ LoadStores(t)

AdaptersSpec == AdaptersInit /\ [][AdaptersNext]_registryVars

-----------------------------------------------------------------------------
(* Properties. *)

\* Every variable has its type.
AdaptersTypeOK ==
    /\ factory \in 0..MaxFactories
    /\ cached \in Impls \cup {NoImpl}
    /\ loaderAt \in [Loaders -> {"out", "making", "made"}]
    /\ {made, handed} \subseteq [Loaders -> Impls \cup {NoImpl}]
    /\ instances \in 0..MaxInstances
    /\ early \subseteq Loaders
    /\ overtaken \in BOOLEAN

\* The cached implementation is one of the factory registered last, unless a load
\* that was under way at its registration stored its own afterwards; and no
\* implementation is cached while its maker still works on it.
AdapterFresh ==
    /\ cached # NoImpl => cached.by = factory \/ overtaken
    /\ \A t \in Loaders : made[t] # NoImpl => cached # made[t]
                                              /\ (made[t].by = factory \/ t \in early)

=============================================================================
