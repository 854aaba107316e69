---------------------------- MODULE ServicesProofs ---------------------------
(***************************************************************************)
(* Proofs about what a verb call reaches: the secrets store, the OAuth      *)
(* tokens in it and the HTTP client, for any number of threads, tasks, keys, *)
(* tokens and requests and any rates; and that the runs of MCServices are   *)
(* runs of these components.                                                *)
(***************************************************************************)
EXTENDS MCServices, TLAPS

-----------------------------------------------------------------------------
(* Proofs about Secrets for any number of threads, keys and credentials:    *)
(* its types, that the file is always whole, what survives of a write, and  *)
(* that the provider implements SecretsMap.                                 *)
(*                                                                          *)
(* The inductive invariant says who holds the lock (the thread between the  *)
(* change of memory and the return), that memory still has the value that   *)
(* thread put there, and what the temporary file and the store hold before  *)
(* and after the replacement.                                               *)

Locked == Writing \cup {"chmod"}

\* What the holder of the lock knows.
LockInv ==
    \A t \in Threads :
        /\ lock = t <=> pc[t] \in Locked
        /\ pc[t] \in Locked => job[t] \in Jobs /\ mem[job[t].key] = job[t].new
        /\ pc[t] = "read" => job[t] \in Jobs
        /\ pc[t] = "replace" => tmp = mem
        /\ pc[t] = "chmod" => file = mem

SecretsInv == SecretsTypeOK /\ LockInv /\ FileWhole /\ AckedSurvives

-----------------------------------------------------------------------------
(* Maps and files. *)

\* A whole file is loaded as a map, and a map as itself.
LEMMA LoadedMap ==
    ASSUME NEW f \in Map \cup {NoFile}
    PROVE  Loaded(f) \in Map /\ (f \in Map => Loaded(f) = f)
BY SecretsAssumption DEF Loaded, Map, Empty

\* The key that fetch answers from is a key.
LEMMA LookupKey ==
    ASSUME NEW m \in Map, NEW k \in Keys
    PROVE  Lookup(m, k) \in Keys
BY SecretsAssumption DEF Lookup

-----------------------------------------------------------------------------
(* The steps preserve the invariant. *)

LEMMA InitInv == SecretsInit => SecretsInv
<1> SUFFICES ASSUME SecretsInit PROVE SecretsInv
  OBVIOUS
<1>1. file \in Map \cup {NoFile} /\ file # Partial
  <2>1. CASE file = NoFile
    BY <2>1, SecretsAssumption
  <2>2. CASE file # NoFile
    <3>1. PICK v \in Values : file = [Empty EXCEPT ![Shared] = v]
      BY <2>2 DEF SecretsInit
    <3>2. file \in Map
      BY <3>1, SecretsAssumption DEF Map, Empty
    <3> QED BY <3>2, SecretsAssumption DEF Map
  <2> QED BY <2>1, <2>2
<1>2. mem \in Map /\ mem = Loaded(file)
  BY <1>1, LoadedMap DEF SecretsInit
<1>3. SecretsTypeOK
  BY <1>1, <1>2, SecretsAssumption DEF SecretsInit, SecretsTypeOK, Steps
<1>4. LockInv
  BY SecretsAssumption DEF SecretsInit, LockInv, Locked, Writing
<1>5. AckedSurvives
  BY <1>2 DEF SecretsInit, AckedSurvives
<1> QED BY <1>1, <1>3, <1>4, <1>5 DEF SecretsInv, FileWhole

LEMMA ChangeInv ==
    ASSUME SecretsInv, NEW t \in Threads, NEW k \in Keys, NEW v \in Values \cup {None},
           Change(t, k, v)
    PROVE  SecretsInv'
<1>0. SecretsTypeOK /\ LockInv /\ FileWhole /\ AckedSurvives
  BY DEF SecretsInv
<1>1. mem \in Map /\ mem' \in Map /\ mem'[k] = v /\ \A o \in Keys \ {k} : mem'[o] = mem[o]
  <2>1. mem \in Map /\ mem' = [mem EXCEPT ![k] = v]
    BY <1>0 DEF Change, SecretsTypeOK
  <2> QED BY <2>1 DEF Map
<1>2. lock = None /\ lock' = t /\ t # None /\ pc' = [pc EXCEPT ![t] = "persist"]
  BY SecretsAssumption DEF Change
<1>3. [key |-> k, new |-> v, old |-> mem[k]] \in Jobs
  BY <1>1 DEF Jobs, Map
<1>4. SecretsTypeOK'
  BY <1>0, <1>1, <1>2, <1>3, SecretsAssumption
  DEF SecretsTypeOK, Change, Idle, Called, Steps, Writing
<1>5. LockInv'
  <2>1. \A u \in Threads : pc[u] \notin Locked
    BY <1>0, <1>2, SecretsAssumption DEF LockInv
  <2>2. \A u \in Threads \ {t} : pc'[u] = pc[u] /\ job'[u] = job[u]
    BY <1>0 DEF Change, SecretsTypeOK
  <2>3. pc'[t] = "persist" /\ job'[t] = [key |-> k, new |-> v, old |-> mem[k]]
    BY <1>0 DEF Change, SecretsTypeOK
  <2> QED BY <1>0, <1>1, <1>2, <1>3, <2>1, <2>2, <2>3 DEF LockInv, Locked, Writing
<1>6. AckedSurvives'
  <2>1. unsure' = [unsure EXCEPT ![k] = @ \cup {v}] /\ acked' = acked /\ file' = file
    BY DEF Change
  <2>2. \A o \in Keys : unsure[o] \subseteq unsure'[o]
    BY <1>0, <2>1 DEF SecretsTypeOK
  <2>3. v \in unsure'[k]
    BY <1>0, <2>1 DEF SecretsTypeOK
  <2> QED BY <1>0, <1>1, <2>1, <2>2, <2>3 DEF AckedSurvives, Loaded
<1> QED BY <1>0, <1>4, <1>5, <1>6 DEF SecretsInv, FileWhole, Change

LEMMA OpenTmpInv ==
    ASSUME SecretsInv, NEW t \in Threads, OpenTmp(t)
    PROVE  SecretsInv'
<1>0. SecretsTypeOK /\ LockInv /\ FileWhole /\ AckedSurvives
  BY DEF SecretsInv
<1>1. SecretsTypeOK'
  BY <1>0 DEF OpenTmp, SecretsTypeOK, secretHistory, Steps, Writing
<1>2. LockInv'
  <2>1. \A u \in Threads \ {t} : pc'[u] = pc[u] /\ pc[u] \notin Locked
    BY <1>0 DEF OpenTmp, SecretsTypeOK, LockInv, Locked, Writing
  <2>2. pc[t] = "persist" /\ pc'[t] = "write" /\ lock = t
    BY <1>0 DEF OpenTmp, SecretsTypeOK, LockInv, Locked, Writing
  <2> QED BY <1>0, <2>1, <2>2 DEF OpenTmp, LockInv, Locked, Writing
<1> QED BY <1>0, <1>1, <1>2 DEF SecretsInv, FileWhole, AckedSurvives, OpenTmp, secretHistory

LEMMA WriteTmpInv ==
    ASSUME SecretsInv, NEW t \in Threads, WriteTmp(t)
    PROVE  SecretsInv'
<1>0. SecretsTypeOK /\ LockInv /\ FileWhole /\ AckedSurvives
  BY DEF SecretsInv
<1>1. SecretsTypeOK'
  BY <1>0 DEF WriteTmp, SecretsTypeOK, secretHistory, Steps, Writing
<1>2. LockInv'
  <2>1. \A u \in Threads \ {t} : pc'[u] = pc[u] /\ pc[u] \notin Locked
    BY <1>0 DEF WriteTmp, SecretsTypeOK, LockInv, Locked, Writing
  <2>2. pc[t] = "write" /\ pc'[t] = "replace" /\ lock = t
    BY <1>0 DEF WriteTmp, SecretsTypeOK, LockInv, Locked, Writing
  <2> QED BY <1>0, <2>1, <2>2 DEF WriteTmp, LockInv, Locked, Writing
<1> QED BY <1>0, <1>1, <1>2 DEF SecretsInv, FileWhole, AckedSurvives, WriteTmp, secretHistory

LEMMA ReplaceInv ==
    ASSUME SecretsInv, NEW t \in Threads, Replace(t)
    PROVE  SecretsInv'
<1>0. SecretsTypeOK /\ LockInv /\ FileWhole /\ AckedSurvives
  BY DEF SecretsInv
<1>1. file' = mem /\ mem \in Map /\ mem' = mem /\ mem # Partial /\ lock = t
  BY <1>0, SecretsAssumption DEF Replace, LockInv, Locked, Writing, SecretsTypeOK, Map
<1>2. SecretsTypeOK'
  BY <1>0, <1>1 DEF Replace, SecretsTypeOK, secretHistory, Steps, Writing
<1>3. LockInv'
  <2>1. \A u \in Threads \ {t} : pc'[u] = pc[u] /\ pc[u] \notin Locked
    BY <1>0, <1>1 DEF Replace, SecretsTypeOK, LockInv
  <2>2. pc[t] = "replace" /\ pc'[t] = "chmod"
    BY <1>0 DEF Replace, SecretsTypeOK
  <2> QED BY <1>0, <1>1, <2>1, <2>2 DEF Replace, LockInv, Locked, Writing
<1>4. AckedSurvives'
  <2>1. Loaded(file') = mem
    BY <1>1, LoadedMap
  <2> QED BY <1>0, <1>1, <2>1 DEF AckedSurvives, Replace, secretHistory, Loaded
<1> QED BY <1>1, <1>2, <1>3, <1>4 DEF SecretsInv, FileWhole

LEMMA FinishInv ==
    ASSUME SecretsInv, NEW t \in Threads, Finish(t)
    PROVE  SecretsInv'
<1>0. SecretsTypeOK /\ LockInv /\ FileWhole /\ AckedSurvives
  BY DEF SecretsInv
<1> DEFINE k == job[t].key
           v == job[t].new
<1>1. /\ pc[t] = "chmod" /\ lock = t /\ lock' = None /\ t # None
      /\ k \in Keys /\ v \in Values \cup {None} /\ mem[k] = v /\ file = mem /\ mem \in Map
  BY <1>0, SecretsAssumption DEF Finish, LockInv, Locked, SecretsTypeOK, Jobs
<1>2. SecretsTypeOK'
  BY <1>0, <1>1
  DEF Finish, Answered, SecretsTypeOK, Steps, Writing, Answers, Map
<1>3. LockInv'
  <2>1. \A u \in Threads \ {t} : pc'[u] = pc[u] /\ pc[u] \notin Locked /\ job'[u] = job[u]
    BY <1>0, <1>1 DEF Finish, SecretsTypeOK, LockInv
  <2>2. pc'[t] = "idle"
    BY <1>0 DEF Finish, SecretsTypeOK
  <2> QED BY <1>0, <1>1, <2>1, <2>2, SecretsAssumption DEF Finish, LockInv, Locked, Writing
<1>4. AckedSurvives'
  <2>1. Loaded(file) = mem
    BY <1>1, LoadedMap
  <2>2. /\ acked'[k] = v
        /\ \A o \in Keys \ {k} : acked'[o] = acked[o] /\ unsure'[o] = unsure[o]
    BY <1>0, <1>1 DEF Finish, SecretsTypeOK, Map
  <2> QED BY <1>0, <1>1, <2>1, <2>2 DEF AckedSurvives, Finish, Loaded
<1> QED BY <1>0, <1>2, <1>3, <1>4 DEF SecretsInv, FileWhole, Finish

LEMMA FailInv ==
    ASSUME SecretsInv, NEW t \in Threads, Fail(t)
    PROVE  SecretsInv'
<1>0. SecretsTypeOK /\ LockInv /\ FileWhole /\ AckedSurvives
  BY DEF SecretsInv
<1>1. pc[t] \in Locked /\ lock = t /\ lock' = None /\ t # None
  BY <1>0, SecretsAssumption DEF Fail, LockInv, Locked
<1>2. SecretsTypeOK'
  BY <1>0, <1>1 DEF Fail, Answered, SecretsTypeOK, secretHistory, Steps, Writing, Answers
<1>3. LockInv'
  <2>1. \A u \in Threads \ {t} : pc'[u] = pc[u] /\ pc[u] \notin Locked /\ job'[u] = job[u]
    BY <1>0, <1>1 DEF Fail, SecretsTypeOK, LockInv
  <2>2. pc'[t] = "idle"
    BY <1>0 DEF Fail, SecretsTypeOK
  <2> QED BY <1>0, <1>1, <2>1, <2>2, SecretsAssumption DEF Fail, LockInv, Locked, Writing
<1> QED BY <1>0, <1>2, <1>3 DEF SecretsInv, FileWhole, AckedSurvives, Fail, secretHistory

\* RotateMissing, Fetch and FetchChecks change neither memory nor files.
LEMMA ReadersInv ==
    ASSUME SecretsInv, NEW t \in Threads, NEW k \in Keys,
           NEW requested \in SUBSET Scopes, NEW late \in BOOLEAN,
           RotateMissing(t, k) \/ Fetch(t, k) \/ FetchChecks(t, requested, late)
    PROVE  SecretsInv'
<1>0. SecretsTypeOK /\ LockInv /\ FileWhole /\ AckedSurvives
  BY DEF SecretsInv
<1>1. UNCHANGED <<mem, lock, file, tmp, acked, unsure>>
  BY DEF RotateMissing, Fetch, FetchChecks, secretHistory
<1>2. SecretsTypeOK'
  <2>1. CASE RotateMissing(t, k)
    BY <1>0, <1>1, <2>1, SecretsAssumption
    DEF RotateMissing, Answered, Called, Idle, SecretsTypeOK, Answers
  <2>2. CASE Fetch(t, k)
    <3>1. [key |-> Lookup(mem, k), new |-> mem[Lookup(mem, k)], old |-> mem[Lookup(mem, k)]]
            \in Jobs
      BY <1>0, LookupKey DEF SecretsTypeOK, Jobs, Map
    <3> QED BY <1>0, <1>1, <2>2, <3>1, SecretsAssumption
        DEF Fetch, Answered, Called, Idle, SecretsTypeOK, Answers, Steps, Writing
  <2>3. CASE FetchChecks(t, requested, late)
    BY <1>0, <1>1, <2>3
    DEF FetchChecks, FetchResult, Answered, SecretsTypeOK, Answers, Steps, Writing
  <2> QED BY <2>1, <2>2, <2>3
<1>3. \A u \in Threads \ {t} : pc'[u] = pc[u] /\ job'[u] = job[u]
  BY <1>0 DEF RotateMissing, Fetch, FetchChecks, SecretsTypeOK
<1>4. \/ pc'[t] = pc[t] /\ job'[t] = job[t]
      \/ pc[t] \in {"idle", "read"} /\ pc'[t] = "idle"
      \/ pc[t] \in {"idle", "read"} /\ pc'[t] = "read" /\ job'[t] \in Jobs
  <2>1. CASE RotateMissing(t, k)
    BY <2>1 DEF RotateMissing
  <2>2. CASE Fetch(t, k)
    <3>1. [key |-> Lookup(mem, k), new |-> mem[Lookup(mem, k)], old |-> mem[Lookup(mem, k)]]
            \in Jobs
      BY <1>0, LookupKey DEF SecretsTypeOK, Jobs, Map
    <3> QED BY <1>0, <2>2, <3>1 DEF Fetch, Idle, SecretsTypeOK
  <2>3. CASE FetchChecks(t, requested, late)
    BY <1>0, <2>3 DEF FetchChecks, SecretsTypeOK
  <2> QED BY <2>1, <2>2, <2>3
<1>5. LockInv'
  BY <1>0, <1>1, <1>3, <1>4 DEF LockInv, Locked, Writing
<1> QED BY <1>0, <1>1, <1>2, <1>5 DEF SecretsInv, FileWhole, AckedSurvives, Loaded

\* What a restart finds is in memory afterwards.
LEMMA RestartInv ==
    ASSUME SecretsInv, (\E t \in Threads : Reload(t)) \/ Crash
    PROVE  SecretsInv'
<1>0. SecretsTypeOK /\ LockInv /\ FileWhole /\ AckedSurvives
  BY DEF SecretsInv
<1>1. /\ mem' = Loaded(file) /\ file' = file /\ tmp' = tmp /\ lock' = None /\ acked' = acked
      /\ unsure' = [k \in Keys |-> Forget(k)]
  BY DEF Reload, Crash
<1>2. Loaded(file) \in Map
  BY <1>0, LoadedMap DEF SecretsTypeOK, FileWhole
<1>3. \A t \in Threads : pc'[t] \notin Locked
                         /\ pc'[t] \in Steps
                         /\ (pc'[t] = "read" => job'[t] \in Jobs)
  <2>1. CASE \E t \in Threads : Reload(t)
    BY <1>0, <2>1, SecretsAssumption DEF Reload, LockInv, SecretsTypeOK
  <2>2. CASE Crash
    BY <2>2 DEF Crash, Locked, Writing, Steps
  <2> QED BY <2>1, <2>2
<1>4. SecretsTypeOK'
  <2>1. \A k \in Keys : Forget(k) \subseteq Values \cup {None}
    BY <1>2 DEF Forget, Map
  <2>2. unsure' \in [Keys -> SUBSET (Values \cup {None})]
    BY <1>1, <2>1
  <2>3. /\ pc' \in [Threads -> Steps] /\ job' \in [Threads -> Jobs \cup {None}]
        /\ answer' \in [Threads -> Answers \cup {None}] /\ calls' \in 0..MaxCalls
    <3>1. CASE \E t \in Threads : Reload(t)
      BY <1>0, <3>1, SecretsAssumption DEF Reload, Idle, Called, SecretsTypeOK
    <3>2. CASE Crash
      BY <1>0, <3>2 DEF Crash, Steps, Writing, SecretsTypeOK
    <3> QED BY <3>1, <3>2
  <2> QED BY <1>0, <1>1, <1>2, <2>2, <2>3 DEF SecretsTypeOK
<1>5. LockInv'
  BY <1>1, <1>3, SecretsAssumption DEF LockInv, Locked, Writing
<1>6. AckedSurvives'
  BY <1>1 DEF AckedSurvives, Forget, Loaded, Empty
<1> QED BY <1>0, <1>1, <1>4, <1>5, <1>6 DEF SecretsInv, FileWhole

\* A step in which the provider does nothing.
LEMMA StutterInv == SecretsInv /\ UNCHANGED secretsVars => SecretsInv'
BY DEF SecretsInv, SecretsTypeOK, LockInv, FileWhole, AckedSurvives, Loaded, secretsVars

LEMMA NextInv ==
    ASSUME SecretsInv, SecretsNext
    PROVE  SecretsInv'
<1>1. CASE Crash
  BY <1>1, RestartInv
<1>2. ASSUME NEW t \in Threads, NEW k \in Keys,
             \/ \E v \in Values : Store(t, k, v) \/ Rotate(t, k, v)
             \/ Revoke(t, k)
      PROVE  SecretsInv'
  <2>1. PICK v \in Values \cup {None} : Change(t, k, v)
    BY <1>2 DEF Store, Rotate, Revoke
  <2> QED BY <2>1, ChangeInv
<1>3. ASSUME NEW t \in Threads, NEW k \in Keys, RotateMissing(t, k) \/ Fetch(t, k)
      PROVE  SecretsInv'
  <2>1. {} \in SUBSET Scopes /\ TRUE \in BOOLEAN
    OBVIOUS
  <2> QED BY <1>3, <2>1, ReadersInv
<1>4. ASSUME NEW t \in Threads, Work(t)
      PROVE  SecretsInv'
  <2>1. CASE OpenTmp(t) BY <2>1, OpenTmpInv
  <2>2. CASE WriteTmp(t) BY <2>2, WriteTmpInv
  <2>3. CASE Replace(t) BY <2>3, ReplaceInv
  <2>4. CASE Finish(t) BY <2>4, FinishInv
  <2>5. CASE Fail(t) BY <2>5, FailInv
  <2>6. CASE \E requested \in SUBSET Scopes, late \in BOOLEAN :
                FetchChecks(t, requested, late)
    <3>1. Shared \in Keys
      BY SecretsAssumption
    <3> QED BY <2>6, <3>1, ReadersInv
  <2> QED BY <1>4, <2>1, <2>2, <2>3, <2>4, <2>5, <2>6 DEF Work
<1>5. ASSUME NEW t \in Threads, Reload(t)
      PROVE  SecretsInv'
  BY <1>5, RestartInv
<1> QED BY <1>1, <1>2, <1>3, <1>4, <1>5 DEF SecretsNext

\* The invariant holds in every behaviour.
THEOREM SecretsInvariant == SecretsSpec => []SecretsInv
<1>1. SecretsInit => SecretsInv
  BY InitInv
<1>2. SecretsInv /\ [SecretsNext]_secretsVars => SecretsInv'
  BY NextInv, StutterInv
<1> QED BY <1>1, <1>2, PTL DEF SecretsSpec

\* Every variable has its type.
THEOREM SecretsTypes == SecretsSpec => []SecretsTypeOK
BY SecretsInvariant, PTL DEF SecretsInv

\* The file at the store's path is never incomplete: no interleaving of threads,
\* failed operation or crash leaves one that cannot be loaded.
THEOREM FileIsWhole == SecretsSpec => []FileWhole
BY SecretsInvariant, PTL DEF SecretsInv

\* A write that was answered survives until another write of its key.
THEOREM AckedWritesSurvive == SecretsSpec => []AckedSurvives
BY SecretsInvariant, PTL DEF SecretsInv

-----------------------------------------------------------------------------
(* The refinement. *)

\* Outside the lock, and once the file is replaced, memory is what the map holds.
LEMMA VisibleOutside ==
    ASSUME lock = None \/ pc[lock] \notin Writing
    PROVE  VisibleMem = mem
BY DEF VisibleMem

LEMMA RefineInit == SecretsInit => AbstractMap!MapInit
<1> SUFFICES ASSUME SecretsInit PROVE AbstractMap!MapInit
  OBVIOUS
<1>1. SecretsInv
  BY InitInv
<1>2. VisibleMem = Loaded(file)
  BY VisibleOutside DEF SecretsInit
<1>3. Loaded(file) \in Map
  BY <1>1, LoadedMap DEF SecretsInv, SecretsTypeOK, FileWhole
<1> QED BY <1>2, <1>3 DEF AbstractMap!MapInit, AbstractMap!Contents, Map

\* A change of memory is not seen while its thread holds the lock.
LEMMA RefineChange ==
    ASSUME SecretsInv, NEW t \in Threads, NEW k \in Keys, NEW v \in Values \cup {None},
           Change(t, k, v)
    PROVE  VisibleMem' = VisibleMem /\ Loaded(file)' = Loaded(file)
<1>1. mem \in Map /\ pc \in [Threads -> Steps] /\ job \in [Threads -> Jobs \cup {None}]
  BY DEF SecretsInv, SecretsTypeOK
<1>2. VisibleMem = mem
  BY VisibleOutside DEF Change
<1>3. /\ lock' = t /\ t # None /\ pc'[t] = "persist" /\ mem' = [mem EXCEPT ![k] = v]
      /\ job'[t].key = k /\ job'[t].old = mem[k]
  BY <1>1, SecretsAssumption DEF Change
<1>4. VisibleMem' = [mem' EXCEPT ![k] = mem[k]]
  BY <1>3 DEF VisibleMem, Writing
<1>5. VisibleMem' = mem
  BY <1>1, <1>3, <1>4 DEF Map
<1> QED BY <1>2, <1>5 DEF Change, Loaded, Empty

\* Writing the temporary file is not seen either.
LEMMA RefineTmp ==
    ASSUME SecretsInv, NEW t \in Threads, OpenTmp(t) \/ WriteTmp(t)
    PROVE  VisibleMem' = VisibleMem /\ Loaded(file)' = Loaded(file)
<1>1. pc[t] \in Writing /\ pc'[t] \in Writing /\ lock = t /\ t # None
  BY SecretsAssumption
  DEF OpenTmp, WriteTmp, SecretsInv, SecretsTypeOK, LockInv, Locked, Writing
<1>2. lock' = lock /\ mem' = mem /\ job' = job /\ file' = file
  BY DEF OpenTmp, WriteTmp
<1> QED BY <1>1, <1>2 DEF VisibleMem, Loaded, Empty

\* The replacement is the write of the map.
LEMMA RefineReplace ==
    ASSUME SecretsInv, NEW t \in Threads, Replace(t)
    PROVE  AbstractMap!Write(job[t].key, job[t].new)
<1>1. /\ pc[t] = "replace" /\ lock = t /\ t # None /\ file' = mem /\ mem' = mem /\ mem \in Map
      /\ job[t] \in Jobs /\ mem[job[t].key] = job[t].new /\ lock' = t /\ pc'[t] = "chmod"
  BY SecretsAssumption DEF Replace, SecretsInv, SecretsTypeOK, LockInv, Locked, Writing
<1>2. VisibleMem = [mem EXCEPT ![job[t].key] = job[t].old]
  BY <1>1 DEF VisibleMem, Writing
<1>3. VisibleMem' = mem
  BY <1>1 DEF VisibleMem, Writing
<1>4. Loaded(file)' = mem
  BY <1>1, LoadedMap DEF Loaded, Empty
<1>5. mem = [VisibleMem EXCEPT ![job[t].key] = job[t].new]
  BY <1>1, <1>2 DEF Map, Jobs
<1> QED BY <1>3, <1>4, <1>5 DEF AbstractMap!Write

\* A failure before the replacement is a refused write, one after it is not seen.
LEMMA RefineFail ==
    ASSUME SecretsInv, NEW t \in Threads, Fail(t)
    PROVE  \/ AbstractMap!WriteFails(job[t].key, job[t].new)
           \/ VisibleMem' = VisibleMem /\ Loaded(file)' = Loaded(file)
<1>1. /\ pc[t] \in Locked /\ lock = t /\ t # None /\ mem' = mem /\ mem \in Map /\ file' = file
      /\ job[t] \in Jobs /\ mem[job[t].key] = job[t].new /\ lock' = None
  BY SecretsAssumption DEF Fail, SecretsInv, SecretsTypeOK, LockInv, Locked
<1>2. VisibleMem' = mem
  BY <1>1 DEF VisibleMem
<1>3. Loaded(file)' = Loaded(file)
  BY <1>1 DEF Loaded, Empty
<1>4. CASE pc[t] = "chmod"
  <2>1. VisibleMem = mem
    BY <1>1, <1>4 DEF VisibleMem, Writing
  <2> QED BY <1>2, <1>3, <2>1
<1>5. CASE pc[t] \in Writing
  <2>1. VisibleMem = [mem EXCEPT ![job[t].key] = job[t].old]
    BY <1>1, <1>5 DEF VisibleMem
  <2>2. mem = [VisibleMem EXCEPT ![job[t].key] = job[t].new]
    BY <1>1, <2>1 DEF Map, Jobs
  <2> QED BY <1>2, <1>3, <2>2 DEF AbstractMap!WriteFails
<1> QED BY <1>1, <1>4, <1>5 DEF Locked

\* The return of a writer, and readers, are not seen.
LEMMA RefineQuiet ==
    ASSUME SecretsInv, NEW t \in Threads, NEW k \in Keys,
           NEW requested \in SUBSET Scopes, NEW late \in BOOLEAN,
           \/ Finish(t) \/ RotateMissing(t, k) \/ Fetch(t, k)
           \/ FetchChecks(t, requested, late)
    PROVE  VisibleMem' = VisibleMem /\ Loaded(file)' = Loaded(file)
<1>1. mem' = mem /\ file' = file
  BY DEF Finish, RotateMissing, Fetch, FetchChecks
<1>2. CASE Finish(t)
  <2>1. lock = t /\ pc[t] = "chmod" /\ lock' = None
    BY <1>2 DEF Finish, SecretsInv, LockInv, Locked
  <2> QED BY <1>1, <2>1 DEF VisibleMem, Writing, Loaded, Empty
<1>3. CASE RotateMissing(t, k) \/ Fetch(t, k)
  BY <1>1, <1>3 DEF RotateMissing, Fetch, VisibleMem, Loaded, Empty
<1>4. CASE FetchChecks(t, requested, late)
  <2>1. lock' = lock /\ (lock # None => lock \in Threads /\ lock # t)
    BY <1>4 DEF FetchChecks, SecretsInv, SecretsTypeOK, LockInv, Locked, Writing
  <2>2. lock # None => pc'[lock] = pc[lock] /\ job'[lock] = job[lock]
    BY <1>4, <2>1 DEF FetchChecks, SecretsInv, SecretsTypeOK
  <2> QED BY <1>1, <2>1, <2>2 DEF VisibleMem, Loaded, Empty
<1> QED BY <1>2, <1>3, <1>4

LEMMA RefineRestart ==
    ASSUME (\E t \in Threads : Reload(t)) \/ Crash
    PROVE  AbstractMap!Restart
<1>1. mem' = Loaded(file) /\ file' = file /\ lock' = None
  BY DEF Reload, Crash
<1>2. VisibleMem' = Loaded(file)
  BY <1>1 DEF VisibleMem
<1>3. Loaded(file)' = Loaded(file)
  BY <1>1 DEF Loaded, Empty
<1> QED BY <1>2, <1>3 DEF AbstractMap!Restart

\* Every step of the provider is a step of the map or none.
LEMMA RefineNext ==
    ASSUME SecretsInv, SecretsNext
    PROVE  AbstractMap!MapNext \/ UNCHANGED AbstractMap!mapVars
<1>1. CASE Crash
  BY <1>1, RefineRestart DEF AbstractMap!MapNext
<1>2. ASSUME NEW t \in Threads, NEW k \in Keys,
             \/ \E v \in Values : Store(t, k, v) \/ Rotate(t, k, v)
             \/ Revoke(t, k)
      PROVE  UNCHANGED AbstractMap!mapVars
  <2>1. PICK v \in Values \cup {None} : Change(t, k, v)
    BY <1>2 DEF Store, Rotate, Revoke
  <2> QED BY <2>1, RefineChange DEF AbstractMap!mapVars
<1>3. ASSUME NEW t \in Threads, NEW k \in Keys, RotateMissing(t, k) \/ Fetch(t, k)
      PROVE  UNCHANGED AbstractMap!mapVars
  <2>1. {} \in SUBSET Scopes /\ TRUE \in BOOLEAN
    OBVIOUS
  <2> QED BY <1>3, <2>1, RefineQuiet DEF AbstractMap!mapVars
<1>4. ASSUME NEW t \in Threads, Work(t)
      PROVE  AbstractMap!MapNext \/ UNCHANGED AbstractMap!mapVars
  <2>0. pc[t] \in Locked => job[t].key \in Keys /\ job[t].new \in Values \cup {None}
    BY DEF SecretsInv, LockInv, Jobs
  <2>1. CASE OpenTmp(t) \/ WriteTmp(t)
    BY <2>1, RefineTmp DEF AbstractMap!mapVars
  <2>2. CASE Replace(t)
    <3>1. AbstractMap!Write(job[t].key, job[t].new)
      BY <2>2, RefineReplace
    <3> QED BY <2>0, <2>2, <3>1 DEF AbstractMap!MapNext, Replace, Locked, Writing
  <2>3. CASE Fail(t)
    <3>1. \/ AbstractMap!WriteFails(job[t].key, job[t].new)
          \/ VisibleMem' = VisibleMem /\ Loaded(file)' = Loaded(file)
      BY <2>3, RefineFail
    <3> QED BY <2>0, <2>3, <3>1 DEF AbstractMap!MapNext, AbstractMap!mapVars, Fail, Locked
  <2>4. CASE Finish(t) \/ \E requested \in SUBSET Scopes, late \in BOOLEAN :
                            FetchChecks(t, requested, late)
    <3>1. {} \in SUBSET Scopes /\ TRUE \in BOOLEAN /\ Shared \in Keys
      BY SecretsAssumption
    <3> QED BY <2>4, <3>1, RefineQuiet DEF AbstractMap!mapVars
  <2> QED BY <1>4, <2>1, <2>2, <2>3, <2>4 DEF Work
<1>5. ASSUME NEW t \in Threads, Reload(t)
      PROVE  AbstractMap!MapNext
  BY <1>5, RefineRestart DEF AbstractMap!MapNext
<1> QED BY <1>1, <1>2, <1>3, <1>4, <1>5 DEF SecretsNext

\* The encrypted file behind its lock implements the map whose writes are atomic:
\* every store, rotation, revocation, failure, reload and crash is one step of
\* SecretsMap or is not seen.
THEOREM ProviderImplementsMap == SecretsSpec => ImplementsMap
<1>1. SecretsInit => AbstractMap!MapInit
  BY RefineInit
<1>2. SecretsInv /\ [SecretsNext]_secretsVars
        => [AbstractMap!MapNext]_AbstractMap!mapVars
  <2>1. UNCHANGED secretsVars => UNCHANGED AbstractMap!mapVars
    BY DEF secretsVars, AbstractMap!mapVars, VisibleMem, Loaded, Empty
  <2> QED BY <2>1, RefineNext
<1> QED BY <1>1, <1>2, SecretsInvariant, PTL DEF SecretsSpec, ImplementsMap, AbstractMap!MapSpec

-----------------------------------------------------------------------------
(* Proofs about Tokens for any number of tasks, keys and tokens: its types, *)
(* that only a lost answer or a moved credential strands a refresh token,   *)
(* and that an answer without a refresh token keeps the one on file.        *)
(*                                                                          *)
(* That a refresh token on file is one the provider accepts is not          *)
(* inductive: a request in flight replaces it at the provider first and on  *)
(* file afterwards, perhaps under a key that others write.  The invariant   *)
(* says that a refresh token is on file under one key, that every request   *)
(* that was sent with it was read from that key, and that a token granted   *)
(* and not yet stored is known to its own request only.                     *)

\* The refresh token r is on file under the key k, in memory or after a restart.
Bears(k, r) == \E record \in {creds[k], durable[k]} : record # Absent /\ record.refresh = r

\* The task t has a request in flight that was sent with r ...
Asks(t, r) == call[t] # Absent /\ call[t].read # Absent /\ call[t].read.refresh = r

\* ... or was granted r, which it has not stored.
Gets(t, r) == call[t] # Absent /\ call[t].grant # Absent /\ call[t].grant.refresh = r

CallInv ==
    \A t \in Tasks : call[t] # Absent =>
        /\ call[t].read # Absent => call[t].read.refresh # 0
        /\ call[t].read # Absent /\ call[t].grant # Absent =>
            (rotates <=> call[t].grant.refresh # 0)

FileInv ==
    \A k \in TokenKeys, r \in TokenIds : Bears(k, r) =>
        /\ r <= issued
        /\ r \in valid \/ (rotates /\ BeingReplaced(r))
        /\ \A j \in TokenKeys : Bears(j, r) => j = k

ReadInv ==
    \A t \in Tasks, r \in TokenIds : Asks(t, r) =>
        /\ r <= issued
        /\ ~rotates => r \in valid
        /\ \A k \in TokenKeys : Bears(k, r) => k = call[t].from
        /\ \A u \in Tasks : Asks(u, r) => call[u].from = call[t].from

GrantInv ==
    \A t \in Tasks, r \in TokenIds : Gets(t, r) =>
        /\ r <= issued /\ r \in valid
        /\ \A k \in TokenKeys : ~Bears(k, r)
        /\ \A u \in Tasks : ~Asks(u, r) /\ (Gets(u, r) => u = t)

StoreInv == FileInv /\ ReadInv /\ GrantInv

TokensInv == TokensTypeOK /\ CallInv /\ (lost \/ forked \/ StoreInv)

-----------------------------------------------------------------------------
(* Records and requests. *)

LEMMA RecordFields ==
    ASSUME NEW record \in TokenRecords
    PROVE  /\ record.access \in TokenIds
           /\ record.refresh \in Nat
           /\ record.refresh # 0 => record.refresh \in TokenIds
           /\ record # Absent
BY TokensAssumption, TokensAbsentAssumption DEF TokenRecords, TokenIds

LEMMA CallFields ==
    ASSUME TokensTypeOK, NEW t \in Tasks, call[t] # Absent
    PROVE  /\ call[t] \in Calls
           /\ call[t].key \in TokenKeys /\ call[t].from \in TokenKeys
           /\ call[t].read \in TokenRecords \cup {Absent}
           /\ call[t].grant \in TokenRecords \cup {Absent}
BY DEF TokensTypeOK, Calls

LEMMA StoredRecords ==
    ASSUME TokensTypeOK, NEW k \in TokenKeys
    PROVE  /\ creds[k] \in TokenRecords \cup {Absent}
           /\ durable[k] \in TokenRecords \cup {Absent}
           /\ Found(k) \in TokenKeys
           /\ RecordAt(k) \in TokenRecords \cup {Absent}
BY TokensAssumption DEF TokensTypeOK, TokenMap!Contents, Found, RecordAt

LEMMA FoundBears ==
    ASSUME TokensTypeOK, NEW k \in TokenKeys, RecordAt(k) # Absent
    PROVE  Bears(Found(k), RecordAt(k).refresh)
BY DEF Bears, RecordAt

LEMMA TokensInitInv == TokensInit => TokensInv
<1> SUFFICES ASSUME TokensInit PROVE TokensInv
  OBVIOUS
<1>1. TokensTypeOK
  <2>1. durable \in TokenMap!Contents /\ creds \in TokenMap!Contents
    BY DEF TokensInit, TokenMap!Contents
  <2>2. age \in [TokenIds -> Ages] /\ call \in [Tasks -> Calls \cup {Absent}]
    BY DEF TokensInit, Ages
  <2>3. issued \in 0..MaxTokens /\ valid \in SUBSET TokenIds /\ outcome \in Outcomes
    BY TokensAssumption DEF TokensInit, Outcomes
  <2>4. rotates \in BOOLEAN /\ lost \in BOOLEAN /\ forked \in BOOLEAN
    BY Zenon DEF TokensInit
  <2> QED BY <2>1, <2>2, <2>3, <2>4 DEF TokensTypeOK
<1>2. CallInv
  BY DEF TokensInit, CallInv
<1>3. StoreInv
  BY DEF TokensInit, StoreInv, FileInv, ReadInv, GrantInv, Bears, Asks, Gets
<1> QED BY <1>1, <1>2, <1>3 DEF TokensInv

-----------------------------------------------------------------------------
(* Steps that only send requests or give them up. *)

\* A task leaves its request as it is, gives up one that was not granted, or sends
\* one with a record that is on file.
CallKept(t) == call'[t] = call[t]
CallDropped(t) == call'[t] = Absent /\ call[t] # Absent /\ call[t].grant = Absent
CallSent(t) ==
    /\ call[t] = Absent /\ call'[t] # Absent
    /\ call'[t].grant = Absent
    /\ call'[t].read # Absent =>
        call'[t].read.refresh # 0 /\ Bears(call'[t].from, call'[t].read.refresh)

LEMMA CallsOnly ==
    ASSUME TokensInv, UNCHANGED <<creds, durable, issued, rotates, valid, lost, forked>>,
           TokensTypeOK', \A t \in Tasks : CallKept(t) \/ CallDropped(t) \/ CallSent(t)
    PROVE  TokensInv'
<1>1. CallInv'
  BY DEF TokensInv, CallInv, CallKept, CallDropped, CallSent
<1>2. ASSUME StoreInv PROVE StoreInv'
  <2>1. \A k, r : Bears(k, r)' <=> Bears(k, r)
    BY DEF Bears
  <2>2. ASSUME NEW t \in Tasks, NEW r, Asks(t, r)'
        PROVE  \/ Asks(t, r) /\ call'[t].from = call[t].from
               \/ Bears(call'[t].from, r)
    BY <2>2 DEF CallKept, CallDropped, CallSent, Asks
  <2>3. ASSUME NEW t \in Tasks, NEW r, Gets(t, r)'
        PROVE  Gets(t, r)
    BY <2>3 DEF CallKept, CallDropped, CallSent, Gets
  <2>4. \A r : BeingReplaced(r) => BeingReplaced(r)'
    BY DEF CallKept, CallDropped, CallSent, BeingReplaced
  <2>5. FileInv'
    BY <1>2, <2>1, <2>4 DEF StoreInv, FileInv
  <2>6. ASSUME NEW t \in Tasks, call'[t] # Absent PROVE call'[t].from \in TokenKeys
    BY <2>6 DEF TokensTypeOK, Calls
  <2>7. ReadInv'
    <3> SUFFICES ASSUME NEW t \in Tasks, NEW r \in TokenIds, Asks(t, r)'
                 PROVE  /\ r <= issued
                        /\ ~rotates => r \in valid
                        /\ \A k \in TokenKeys : Bears(k, r) => k = call'[t].from
                        /\ \A u \in Tasks : Asks(u, r)' => call'[u].from = call'[t].from
      BY <2>1 DEF ReadInv
    <3>1. call'[t].from \in TokenKeys
      BY <2>6 DEF Asks
    <3>2. \A u \in Tasks : Asks(u, r)' => call'[u].from \in TokenKeys
      BY <2>6 DEF Asks
    <3>3. CASE Asks(t, r) /\ call'[t].from = call[t].from
      BY <1>2, <2>2, <3>1, <3>2, <3>3 DEF StoreInv, ReadInv
    <3>4. CASE Bears(call'[t].from, r)
      BY <1>2, <2>2, <3>1, <3>2, <3>4 DEF StoreInv, ReadInv, FileInv
    <3> QED BY <2>2, <3>3, <3>4
  <2>8. GrantInv'
    <3> SUFFICES ASSUME NEW t \in Tasks, NEW r \in TokenIds, Gets(t, r)'
                 PROVE  /\ r <= issued /\ r \in valid
                        /\ \A k \in TokenKeys : ~Bears(k, r)
                        /\ \A u \in Tasks : ~Asks(u, r)' /\ (Gets(u, r)' => u = t)
      BY <2>1 DEF GrantInv
    <3>1. Gets(t, r)
      BY <2>3
    <3>2. ASSUME NEW u \in Tasks PROVE ~Asks(u, r)'
      <4>1. Asks(u, r)' => call'[u].from \in TokenKeys
        BY <2>6 DEF Asks
      <4> QED BY <1>2, <2>2, <3>1, <4>1 DEF StoreInv, GrantInv
    <3> QED BY <1>2, <2>3, <3>1, <3>2 DEF StoreInv, GrantInv
  <2> QED BY <2>5, <2>7, <2>8 DEF StoreInv
<1> QED BY <1>1, <1>2 DEF TokensInv

\* The request that Posts puts in flight.
LEMMA PostsSent ==
    ASSUME TokensInv, NEW t \in Tasks, NEW k \in TokenKeys, NEW read \in TokenRecords \cup {Absent},
           call[t] = Absent, Posts(t, k, read),
           read # Absent => read = RecordAt(k) /\ read.refresh # 0
    PROVE  /\ call' \in [Tasks -> Calls \cup {Absent}]
           /\ \A u \in Tasks : CallKept(u) \/ CallSent(u)
<1> DEFINE c == [key |-> k, from |-> Found(k), read |-> read, grant |-> Absent]
<1>1. c \in Calls /\ c # Absent
  BY StoredRecords, TokensAbsentAssumption DEF TokensInv, Calls
<1>2. call \in [Tasks -> Calls \cup {Absent}] /\ call' = [call EXCEPT ![t] = c]
  BY DEF TokensInv, TokensTypeOK, Posts
<1>3. c.read # Absent => c.read.refresh # 0 /\ Bears(c.from, c.read.refresh)
  BY FoundBears DEF TokensInv
<1>4. c.grant = Absent
  OBVIOUS
<1> HIDE DEF c
<1> QED BY <1>1, <1>2, <1>3, <1>4 DEF CallKept, CallSent

LEMMA AskingInv ==
    ASSUME TokensInv, NEW t \in Tasks, NEW k \in TokenKeys,
           AccessToken(t, k) \/ Refresh(t, k) \/ ExchangeCode(t, k)
    PROVE  TokensInv'
<1>1. /\ UNCHANGED <<creds, durable, age, issued, rotates, valid, lost, forked>>
      /\ call[t] = Absent /\ outcome' \in Outcomes
      /\ \/ call' = call
         \/ \E read \in TokenRecords \cup {Absent} :
               Posts(t, k, read) /\ (read # Absent => read = RecordAt(k) /\ read.refresh # 0)
  <2>1. RecordAt(k) \in TokenRecords \cup {Absent}
    BY StoredRecords DEF TokensInv
  <2>2. CASE AccessToken(t, k)
    BY <2>1, <2>2 DEF AccessToken, Refused, Readable, RefreshFrom, Ends, GoesOn, Outcomes, tokenHistory
  <2>3. CASE Refresh(t, k)
    BY <2>1, <2>3 DEF Refresh, Refused, Readable, RefreshFrom, Ends, GoesOn, Outcomes, tokenHistory
  <2>4. CASE ExchangeCode(t, k)
    BY <2>4 DEF ExchangeCode, GoesOn, Outcomes, tokenHistory
  <2> QED BY <2>2, <2>3, <2>4
<1>2. /\ call' \in [Tasks -> Calls \cup {Absent}]
      /\ \A u \in Tasks : CallKept(u) \/ CallSent(u)
  <2>1. CASE call' = call
    BY <2>1 DEF TokensInv, TokensTypeOK, CallKept
  <2>2. CASE call' # call
    <3>1. PICK read \in TokenRecords \cup {Absent} :
              Posts(t, k, read) /\ (read # Absent => read = RecordAt(k) /\ read.refresh # 0)
      BY <1>1, <2>2
    <3> QED BY <1>1, <3>1, PostsSent
  <2> QED BY <2>1, <2>2
<1>3. TokensTypeOK'
  BY <1>1, <1>2 DEF TokensInv, TokensTypeOK, TokenMap!Contents
<1> QED BY <1>1, <1>2, <1>3, CallsOnly

LEMMA RefuseInv ==
    ASSUME TokensInv, NEW t \in Tasks, Refuse(t)
    PROVE  TokensInv'
<1>1. UNCHANGED <<creds, durable, age, issued, rotates, valid, lost, forked>>
      /\ outcome' \in Outcomes /\ call' = [call EXCEPT ![t] = Absent]
      /\ call[t] # Absent /\ call[t].grant = Absent
  BY DEF Refuse, Ends, Outcomes, tokenHistory
<1>2. call \in [Tasks -> Calls \cup {Absent}]
  BY DEF TokensInv, TokensTypeOK
<1>3. TokensTypeOK'
  BY <1>1, <1>2 DEF TokensInv, TokensTypeOK, TokenMap!Contents
<1>4. \A u \in Tasks : CallKept(u) \/ CallDropped(u)
  BY <1>1, <1>2 DEF CallKept, CallDropped
<1> QED BY <1>1, <1>3, <1>4, CallsOnly

LEMMA AgeInv ==
    ASSUME TokensInv, NEW n \in TokenIds, Age(n)
    PROVE  TokensInv'
<1>1. UNCHANGED <<creds, durable, issued, rotates, valid, call, lost, forked>>
      /\ outcome' \in Outcomes
  BY DEF Age, GoesOn, Outcomes, tokenHistory
<1>2. age' \in [TokenIds -> Ages]
  BY DEF TokensInv, TokensTypeOK, Age, Older, Ages
<1>3. TokensTypeOK'
  BY <1>1, <1>2 DEF TokensInv, TokensTypeOK, TokenMap!Contents
<1>4. \A u \in Tasks : CallKept(u)
  BY <1>1 DEF CallKept
<1> QED BY <1>1, <1>3, <1>4, CallsOnly

\* Once an answer is lost or a credential moved only the types are left to show.
LEMMA LoseInv ==
    ASSUME TokensInv, NEW t \in Tasks, Lose(t)
    PROVE  TokensInv'
<1>1. UNCHANGED <<creds, durable, age, issued, rotates, valid, forked>>
      /\ outcome' \in Outcomes /\ call' = [call EXCEPT ![t] = Absent] /\ lost'
  BY DEF Lose, Ends, Outcomes
<1>2. call \in [Tasks -> Calls \cup {Absent}]
  BY DEF TokensInv, TokensTypeOK
<1>3. TokensTypeOK'
  BY <1>1, <1>2 DEF TokensInv, TokensTypeOK, TokenMap!Contents, Lose
<1>4. CallInv'
  BY <1>1, <1>2 DEF TokensInv, CallInv
<1> QED BY <1>1, <1>3, <1>4 DEF TokensInv

-----------------------------------------------------------------------------
(* The endpoint grants a request. *)

LEMMA HandleInv ==
    ASSUME TokensInv, NEW t \in Tasks, Handle(t)
    PROVE  TokensInv'
<1> DEFINE c == call[t]
           n == issued + 1
<1>1. /\ c # Absent /\ c.grant = Absent /\ issued < MaxTokens /\ issued' = n
      /\ UNCHANGED <<creds, durable, age, rotates, lost, forked>> /\ outcome' \in Outcomes
  BY DEF Handle, GoesOn, Outcomes, tokenHistory
<1>2. PICK g \in Grants(c) :
        /\ call' = [call EXCEPT ![t] = [c EXCEPT !.grant = g]]
        /\ valid' = IF g.refresh = 0 THEN valid
                    ELSE (IF c.read = Absent THEN valid
                          ELSE valid \ {c.read.refresh}) \cup {g.refresh}
  BY DEF Handle
<1>3. c \in Calls /\ c.read \in TokenRecords \cup {Absent} /\ call \in [Tasks -> Calls \cup {Absent}]
      /\ c.from \in TokenKeys
  BY <1>1, CallFields DEF TokensInv, TokensTypeOK
<1>4. n \in TokenIds /\ n \in Nat /\ n # 0 /\ issued \in Nat /\ n \in 0..MaxTokens
  BY <1>1, TokensAssumption DEF TokensInv, TokensTypeOK, TokenIds
<1>5. g \in TokenRecords /\ g # Absent /\ g.refresh \in {0, n}
      /\ (c.read # Absent => (rotates <=> g.refresh # 0))
  <2>1. rotates \in BOOLEAN
    BY DEF TokensInv, TokensTypeOK
  <2>2. CASE c.read = Absent
    <3>1. PICK r \in {0, n} : g = [access |-> n, refresh |-> r]
      BY <2>2 DEF Grants
    <3>2. r \in 0..MaxTokens
      BY <1>4, TokensAssumption
    <3> QED BY <1>4, <2>2, <3>1, <3>2, TokensAbsentAssumption DEF TokenRecords
  <2>3. CASE c.read # Absent
    <3>1. g = [access |-> n, refresh |-> IF rotates THEN n ELSE 0]
      BY <2>3 DEF Grants
    <3>2. 0 \in 0..MaxTokens
      BY TokensAssumption
    <3> QED BY <1>4, <2>1, <2>3, <3>1, <3>2, TokensAbsentAssumption DEF TokenRecords
  <2> QED BY <2>2, <2>3
<1> DEFINE d == [c EXCEPT !.grant = g]
<1>6. d \in Calls /\ d # Absent /\ d.grant # Absent /\ d.grant = g
      /\ d.read = c.read /\ d.from = c.from
  <2>1. d = [key |-> c.key, from |-> c.from, read |-> c.read, grant |-> g]
    BY <1>3 DEF Calls
  <2>2. d \in Calls
    BY <1>3, <1>5, <2>1 DEF Calls
  <2> HIDE DEF d
  <2> QED BY <1>5, <2>1, <2>2, TokensAbsentAssumption
<1>7. call'[t] = d /\ \A u \in Tasks : u # t => call'[u] = call[u]
  BY <1>2, <1>3
<1>8. TokensTypeOK'
  <2>1. call' \in [Tasks -> Calls \cup {Absent}]
    <3>1. call' = [call EXCEPT ![t] = d]
      BY <1>2
    <3> HIDE DEF d
    <3> QED BY <1>3, <1>6, <3>1
  <2>2. valid' \in SUBSET TokenIds
    BY <1>2, <1>4, <1>5 DEF TokensInv, TokensTypeOK
  <2> QED BY <1>1, <1>4, <2>1, <2>2 DEF TokensInv, TokensTypeOK, TokenMap!Contents
<1>9. CallInv'
  <2> SUFFICES ASSUME NEW u \in Tasks, call'[u] # Absent
               PROVE  /\ call'[u].read # Absent => call'[u].read.refresh # 0
                      /\ call'[u].read # Absent /\ call'[u].grant # Absent =>
                            (rotates <=> call'[u].grant.refresh # 0)
    BY <1>1 DEF CallInv
  <2>1. CASE u # t
    BY <1>7, <2>1 DEF TokensInv, CallInv
  <2>2. CASE u = t
    <3>1. c.read # Absent => c.read.refresh # 0
      BY <1>1 DEF TokensInv, CallInv
    <3> HIDE DEF d
    <3> QED BY <1>5, <1>6, <1>7, <2>2, <3>1
  <2> QED BY <2>1, <2>2
<1>10. ASSUME StoreInv PROVE StoreInv'
  <2>1. \A k, r : Bears(k, r)' <=> Bears(k, r)
    BY <1>1 DEF Bears
  <2>2. \A u \in Tasks : \A r : /\ Asks(u, r)' <=> Asks(u, r)
                                /\ Asks(u, r) => call'[u].from = call[u].from
    <3> HIDE DEF d
    <3> QED BY <1>1, <1>6, <1>7 DEF Asks
  <2>3. \A u \in Tasks : \A r \in TokenIds : Gets(u, r)' => Gets(u, r) \/ (u = t /\ r = n)
    <3>1. 0 \notin TokenIds
      BY DEF TokenIds
    <3> HIDE DEF d, n
    <3> QED BY <1>5, <1>6, <1>7, <3>1 DEF Gets
  <2>4. \A r : BeingReplaced(r) => BeingReplaced(r)'
    BY <1>1, <1>7 DEF BeingReplaced
  <2>5. \A r \in valid : \/ r \in valid'
                         \/ Asks(t, r) /\ rotates /\ BeingReplaced(r)'
    <3> SUFFICES ASSUME NEW r \in valid, r \notin valid'
                 PROVE  Asks(t, r) /\ rotates /\ BeingReplaced(r)'
      OBVIOUS
    <3>1. g.refresh # 0 /\ c.read # Absent /\ c.read.refresh = r
      BY <1>2
    <3>2. Asks(t, r) /\ rotates
      BY <1>1, <1>5, <3>1 DEF Asks
    <3>3. BeingReplaced(r)'
      <4> HIDE DEF d
      <4> QED BY <1>6, <1>7, <3>1 DEF BeingReplaced
    <3> QED BY <3>2, <3>3
  <2>6. \A r \in TokenIds : r <= issued => r <= n /\ r # n
    BY <1>4 DEF TokenIds
  <2> HIDE DEF d, n
  <2>7. FileInv'
    BY <1>1, <1>10, <2>1, <2>4, <2>5, <2>6 DEF StoreInv, FileInv
  <2>8. ReadInv'
    <3> SUFFICES ASSUME NEW u \in Tasks, NEW r \in TokenIds, Asks(u, r)'
                 PROVE  /\ r <= n
                        /\ ~rotates => r \in valid'
                        /\ \A k \in TokenKeys : Bears(k, r) => k = call'[u].from
                        /\ \A v \in Tasks : Asks(v, r)' => call'[v].from = call'[u].from
      BY <1>1, <2>1 DEF ReadInv
    <3>1. Asks(u, r)
      BY <2>2
    <3> QED BY <1>10, <2>2, <2>5, <2>6, <3>1 DEF StoreInv, ReadInv
  <2>9. GrantInv'
    <3> SUFFICES ASSUME NEW u \in Tasks, NEW r \in TokenIds, Gets(u, r)'
                 PROVE  /\ r <= n /\ r \in valid'
                        /\ \A k \in TokenKeys : ~Bears(k, r)
                        /\ \A v \in Tasks : ~Asks(v, r) /\ (Gets(v, r)' => v = u)
      BY <1>1, <2>1, <2>2 DEF GrantInv
    <3>1. CASE Gets(u, r)
      <4>1. r <= issued /\ r \in valid /\ ~Asks(t, r)
        BY <1>10, <3>1 DEF StoreInv, GrantInv
      <4>2. r # n /\ r <= n /\ r \in valid'
        BY <2>5, <2>6, <4>1
      <4> QED BY <1>10, <2>3, <3>1, <4>2 DEF StoreInv, GrantInv
    <3>2. CASE ~Gets(u, r)
      <4>1. u = t /\ r = n
        BY <2>3, <3>2
      <4>2. ~(r <= issued) /\ r <= n
        BY <1>4, <2>6, <4>1 DEF TokenIds, n
      <4>3. n \in valid'
        <5>1. d.grant.refresh = n
          BY <1>6, <1>7, <4>1 DEF Gets
        <5> QED BY <1>2, <1>4, <1>6, <5>1 DEF n
      <4>4. \A v \in Tasks : Gets(v, r)' => v = t
        BY <1>10, <2>3, <4>2 DEF StoreInv, GrantInv
      <4> QED BY <1>10, <4>1, <4>2, <4>3, <4>4 DEF StoreInv, FileInv, ReadInv
    <3> QED BY <3>1, <3>2
  <2> QED BY <2>7, <2>8, <2>9 DEF StoreInv
<1> QED BY <1>1, <1>8, <1>9, <1>10 DEF TokensInv

-----------------------------------------------------------------------------
(* The answer is stored. *)

LEMMA MergedRecord ==
    ASSUME TokensInv, NEW t \in Tasks, call[t] # Absent, call[t].grant # Absent
    PROVE  /\ Merged(call[t]) \in TokenRecords
           /\ \/ Merged(call[t]).refresh = call[t].grant.refresh
                 /\ (call[t].grant.refresh # 0 \/ call[t].read = Absent)
              \/ /\ call[t].read # Absent /\ ~rotates
                 /\ Merged(call[t]).refresh = call[t].read.refresh
<1> DEFINE c == call[t]
<1>1. c.grant \in TokenRecords /\ c.read \in TokenRecords \cup {Absent}
  BY CallFields DEF TokensInv
<1>2. CASE c.grant.refresh = 0 /\ c.read # Absent
  <2>1. Merged(c) = [c.grant EXCEPT !.refresh = c.read.refresh]
    BY <1>2 DEF Merged
  <2>2. Merged(c) = [access |-> c.grant.access, refresh |-> c.read.refresh]
    <3> HIDE DEF c
    <3> QED BY <1>1, <2>1 DEF TokenRecords
  <2>3. c.grant.access \in TokenIds /\ c.read.refresh \in 0..MaxTokens
    <3> HIDE DEF c
    <3> QED BY <1>1, <1>2 DEF TokenRecords
  <2>4. Merged(c) \in TokenRecords /\ Merged(c).refresh = c.read.refresh
    <3> HIDE DEF c
    <3> QED BY <2>2, <2>3 DEF TokenRecords
  <2>5. ~rotates
    BY <1>2 DEF TokensInv, CallInv
  <2> QED BY <1>2, <2>4, <2>5
<1>3. CASE ~(c.grant.refresh = 0 /\ c.read # Absent)
  <2>1. Merged(c) = c.grant
    BY <1>3 DEF Merged
  <2> QED BY <1>1, <1>3, <2>1
<1> QED BY <1>2, <1>3

LEMMA PersistInv ==
    ASSUME TokensInv, NEW t \in Tasks, Persist(t)
    PROVE  TokensInv'
<1> DEFINE c == call[t]
           m == Merged(c)
<1>1. /\ c # Absent /\ c.grant # Absent /\ call' = [call EXCEPT ![t] = Absent]
      /\ UNCHANGED <<age, issued, rotates, valid>> /\ outcome' \in Outcomes
      /\ creds' = [creds EXCEPT ![c.key] = m]
      /\ \/ durable' = creds' /\ lost' = lost
         \/ durable' = durable /\ lost'
      /\ forked' = (forked \/ (c.read # Absent /\ c.from # c.key))
  BY DEF Persist, TokenMap!Write, TokenMap!WriteFails, Ends, Outcomes
<1>2. /\ call \in [Tasks -> Calls \cup {Absent}] /\ c.key \in TokenKeys /\ c.from \in TokenKeys
      /\ creds \in [TokenKeys -> TokenRecords \cup {Absent}]
      /\ durable \in [TokenKeys -> TokenRecords \cup {Absent}]
  BY <1>1, CallFields DEF TokensInv, TokensTypeOK, TokenMap!Contents
<1>3. m \in TokenRecords /\ m # Absent
  BY <1>1, MergedRecord, RecordFields
<1>4. TokensTypeOK'
  <2>1. creds' \in TokenMap!Contents /\ durable' \in TokenMap!Contents
    <3> HIDE DEF c, m
    <3> QED BY <1>1, <1>2, <1>3 DEF TokenMap!Contents
  <2>2. call' \in [Tasks -> Calls \cup {Absent}]
    BY <1>1, <1>2
  <2>3. lost' \in BOOLEAN /\ forked' \in BOOLEAN
    BY <1>1 DEF TokensInv, TokensTypeOK
  <2> QED BY <1>1, <2>1, <2>2, <2>3 DEF TokensInv, TokensTypeOK
<1>5. call'[t] = Absent /\ \A u \in Tasks : u # t => call'[u] = call[u]
  BY <1>1, <1>2
<1>6. CallInv'
  BY <1>1, <1>5 DEF TokensInv, CallInv
<1>7. ASSUME ~lost', ~forked', StoreInv PROVE StoreInv'
  <2>1. durable' = creds' /\ (c.read # Absent => c.from = c.key)
    BY <1>1, <1>7
  <2>2. ASSUME NEW k \in TokenKeys, NEW r \in TokenIds, Bears(k, r)'
        PROVE  (k = c.key /\ m.refresh = r) \/ (k # c.key /\ Bears(k, r))
    <3>1. creds'[k] # Absent /\ creds'[k].refresh = r
      BY <2>1, <2>2 DEF Bears
    <3>2. CASE k = c.key
      BY <1>1, <1>2, <3>1, <3>2
    <3>3. CASE k # c.key
      <4>1. creds'[k] = creds[k]
        BY <1>1, <1>2, <3>3
      <4> QED BY <3>1, <3>3, <4>1 DEF Bears
    <3> QED BY <3>2, <3>3
  <2>3. ASSUME NEW u \in Tasks, NEW r
        PROVE  /\ Asks(u, r)' => u # t /\ Asks(u, r) /\ call'[u] = call[u]
               /\ Gets(u, r)' => u # t /\ Gets(u, r)
    BY <1>5 DEF Asks, Gets
  <2>4. ASSUME NEW r \in TokenIds, m.refresh = r
        PROVE  \/ Gets(t, r)
               \/ Asks(t, r) /\ ~rotates /\ c.from = c.key
    <3>1. r # 0
      BY DEF TokenIds
    <3> QED BY <1>1, <2>1, <2>4, <3>1, MergedRecord DEF Gets, Asks
  <2>5. ASSUME NEW r \in TokenIds, BeingReplaced(r)
        PROVE  BeingReplaced(r)' \/ Asks(t, r)
    BY <1>5, <2>5 DEF BeingReplaced, Asks
  <2> HIDE DEF m
  <2>6. FileInv'
    <3> SUFFICES ASSUME NEW k \in TokenKeys, NEW r \in TokenIds, Bears(k, r)'
                 PROVE  /\ r <= issued
                        /\ r \in valid \/ (rotates /\ BeingReplaced(r)')
                        /\ \A j \in TokenKeys : Bears(j, r)' => j = k
      BY <1>1 DEF FileInv
    <3>1. CASE k = c.key /\ m.refresh = r
      <4>1. CASE Gets(t, r)
        BY <1>7, <2>2, <3>1, <4>1 DEF StoreInv, GrantInv
      <4>2. CASE Asks(t, r) /\ ~rotates /\ c.from = c.key
        BY <1>7, <2>2, <3>1, <4>2 DEF StoreInv, ReadInv
      <4> QED BY <2>4, <3>1, <4>1, <4>2
    <3>2. CASE k # c.key /\ Bears(k, r)
      <4>1. ~Asks(t, r)
        BY <1>7, <2>1, <3>2 DEF StoreInv, ReadInv, Asks
      <4>2. r <= issued /\ (r \in valid \/ (rotates /\ BeingReplaced(r)'))
        BY <1>7, <2>5, <3>2, <4>1 DEF StoreInv, FileInv
      <4>3. m.refresh # r
        BY <1>7, <2>4, <3>2, <4>1 DEF StoreInv, GrantInv
      <4>4. \A j \in TokenKeys : Bears(j, r)' => j = k
        BY <1>7, <2>2, <3>2, <4>3 DEF StoreInv, FileInv
      <4> QED BY <4>2, <4>4
    <3> QED BY <2>2, <3>1, <3>2
  <2>7. ReadInv'
    <3> SUFFICES ASSUME NEW u \in Tasks, NEW r \in TokenIds, Asks(u, r)'
                 PROVE  /\ r <= issued
                        /\ ~rotates => r \in valid
                        /\ \A k \in TokenKeys : Bears(k, r)' => k = call'[u].from
                        /\ \A v \in Tasks : Asks(v, r)' => call'[v].from = call'[u].from
      BY <1>1 DEF ReadInv
    <3>1. Asks(u, r) /\ call'[u].from = call[u].from
      BY <2>3
    <3>2. ASSUME NEW k \in TokenKeys, Bears(k, r)' PROVE k = call[u].from
      <4>1. CASE k = c.key /\ m.refresh = r
        BY <1>7, <2>4, <3>1, <4>1 DEF StoreInv, ReadInv, GrantInv
      <4>2. CASE Bears(k, r)
        BY <1>7, <3>1, <4>2 DEF StoreInv, ReadInv
      <4> QED BY <2>2, <3>2, <4>1, <4>2
    <3>3. ASSUME NEW v \in Tasks, Asks(v, r)' PROVE call'[v].from = call[u].from
      BY <1>7, <2>3, <3>1, <3>3 DEF StoreInv, ReadInv
    <3> QED BY <1>7, <3>1, <3>2, <3>3 DEF StoreInv, ReadInv
  <2>8. GrantInv'
    <3> SUFFICES ASSUME NEW u \in Tasks, NEW r \in TokenIds, Gets(u, r)'
                 PROVE  /\ r <= issued /\ r \in valid
                        /\ \A k \in TokenKeys : ~Bears(k, r)'
                        /\ \A v \in Tasks : ~Asks(v, r)' /\ (Gets(v, r)' => v = u)
      BY <1>1 DEF GrantInv
    <3>1. u # t /\ Gets(u, r)
      BY <2>3
    <3>2. m.refresh # r
      BY <1>7, <2>4, <3>1 DEF StoreInv, GrantInv
    <3> QED BY <1>7, <2>2, <2>3, <3>1, <3>2 DEF StoreInv, GrantInv
  <2> QED BY <2>6, <2>7, <2>8 DEF StoreInv
<1>8. lost' \/ forked' \/ StoreInv'
  <2>1. lost => lost'
    <3>1. (lost' = lost) \/ lost'
      BY <1>1
    <3>2. CASE lost' = lost
      BY <3>2
    <3> QED BY <3>1, <3>2
  <2>2. forked => forked'
    <3>1. forked' = (forked \/ (c.read # Absent /\ c.from # c.key))
      BY <1>1
    <3> QED BY <3>1
  <2> QED BY <1>7, <2>1, <2>2, Zenon DEF TokensInv
<1> QED BY <1>4, <1>6, <1>8 DEF TokensInv

-----------------------------------------------------------------------------
(* Records are removed. *)

\* A step after which fewer refresh tokens are on file and no request has changed.
LEMMA FewerOnFile ==
    ASSUME StoreInv, UNCHANGED <<call, issued, rotates, valid>>,
           \A k \in TokenKeys, r \in TokenIds : Bears(k, r)' => Bears(k, r)
    PROVE  StoreInv'
<1>1. \A u, r : (Asks(u, r)' <=> Asks(u, r)) /\ (Gets(u, r)' <=> Gets(u, r))
  BY DEF Asks, Gets
<1>2. \A r : BeingReplaced(r)' <=> BeingReplaced(r)
  BY DEF BeingReplaced
<1> QED BY <1>1, <1>2 DEF StoreInv, FileInv, ReadInv, GrantInv

LEMMA RevokeInv ==
    ASSUME TokensInv, NEW k \in TokenKeys, RevokeToken(k)
    PROVE  TokensInv'
<1>1. /\ creds' = [creds EXCEPT ![k] = Absent] /\ (durable' = creds' \/ durable' = durable)
      /\ UNCHANGED <<age, issued, rotates, valid, call, lost, forked>> /\ outcome' \in Outcomes
  BY DEF RevokeToken, TokenMap!Write, TokenMap!WriteFails, GoesOn, Outcomes, tokenHistory
<1>2. creds \in [TokenKeys -> TokenRecords \cup {Absent}]
      /\ durable \in [TokenKeys -> TokenRecords \cup {Absent}]
  BY DEF TokensInv, TokensTypeOK, TokenMap!Contents
<1>3. TokensTypeOK'
  <2>1. creds' \in TokenMap!Contents /\ durable' \in TokenMap!Contents
    BY <1>1, <1>2 DEF TokenMap!Contents
  <2> QED BY <1>1, <2>1 DEF TokensInv, TokensTypeOK
<1>4. \A j \in TokenKeys, r \in TokenIds : Bears(j, r)' => Bears(j, r)
  <2>1. \A j \in TokenKeys : creds'[j] \in {creds[j], Absent} /\ durable'[j] \in {creds[j], durable[j], Absent}
    BY <1>1, <1>2
  <2> QED BY <2>1 DEF Bears
<1>5. CallInv'
  BY <1>1 DEF TokensInv, CallInv
<1> QED BY <1>1, <1>3, <1>4, <1>5, FewerOnFile DEF TokensInv

LEMMA CrashInv ==
    ASSUME TokensInv, CrashAndRestart
    PROVE  TokensInv'
<1>1. /\ creds' = durable /\ durable' = durable /\ call' = [t \in Tasks |-> Absent]
      /\ UNCHANGED <<age, issued, rotates, valid, forked>> /\ outcome' \in Outcomes
      /\ lost' = (lost \/ \E t \in Tasks : call[t] # Absent /\ call[t].grant # Absent)
  BY DEF CrashAndRestart, TokenMap!Restart, GoesOn, Outcomes
<1>2. TokensTypeOK'
  BY <1>1 DEF TokensInv, TokensTypeOK, TokenMap!Contents
<1>3. CallInv'
  BY <1>1 DEF CallInv
<1>4. ASSUME ~lost', StoreInv PROVE StoreInv'
  <2>1. \A r : ~BeingReplaced(r)
    BY <1>1, <1>4 DEF BeingReplaced
  <2>2. \A u \in Tasks : \A r : ~Asks(u, r)' /\ ~Gets(u, r)'
    BY <1>1 DEF Asks, Gets
  <2>3. \A k, r : Bears(k, r)' => Bears(k, r)
    BY <1>1 DEF Bears
  <2> QED BY <1>1, <1>4, <2>1, <2>2, <2>3 DEF StoreInv, FileInv, ReadInv, GrantInv
<1> QED BY <1>1, <1>2, <1>3, <1>4 DEF TokensInv

-----------------------------------------------------------------------------
(* The theorems. *)

LEMMA TokensStep == TokensInv /\ [TokensNext]_tokenVars => TokensInv'
<1> SUFFICES ASSUME TokensInv, [TokensNext]_tokenVars PROVE TokensInv'
  OBVIOUS
<1>1. CASE UNCHANGED tokenVars
  <2>1. UNCHANGED <<creds, durable, age, issued, rotates, valid, call, outcome, lost, forked>>
    BY <1>1 DEF tokenVars
  <2>2. TokensTypeOK'
    BY <2>1 DEF TokensInv, TokensTypeOK, TokenMap!Contents
  <2>3. \A u \in Tasks : CallKept(u)
    BY <2>1 DEF CallKept
  <2> QED BY <2>1, <2>2, <2>3, CallsOnly
<1>2. CASE TokensNext
  BY <1>2, AskingInv, HandleInv, RefuseInv, PersistInv, LoseInv, RevokeInv, AgeInv, CrashInv
     DEF TokensNext, Answer
<1> QED BY <1>1, <1>2

\* What is on file, what is in flight and what the provider accepts fit together,
\* for any number of tasks, keys and tokens.
THEOREM TokensInvariant == TokensSpec => []TokensInv
BY TokensInitInv, TokensStep, PTL DEF TokensSpec

\* Every variable of Tokens keeps its type.
THEOREM TokensTypes == TokensSpec => []TokensTypeOK
<1>1. TokensInv => TokensTypeOK
  BY DEF TokensInv
<1> QED BY <1>1, TokensInvariant, PTL

\* However refreshes, code exchanges, revocations and crashes interleave, a refresh
\* token on file is refused by the provider only after an answer was lost or a
\* routine has moved the shared credential.
THEOREM OnlyLossStrands == TokensSpec => []StrandedOnlyByLoss
<1>1. TokensInv => StrandedOnlyByLoss
  <2> SUFFICES ASSUME TokensInv, ~lost, ~forked, NEW k \in TokenKeys,
                      NEW record \in {creds[k], durable[k]}, record # Absent, record.refresh # 0
               PROVE  record.refresh \in valid \/ BeingReplaced(record.refresh)
    BY DEF StrandedOnlyByLoss
  <2>1. record.refresh \in TokenIds
    BY StoredRecords, RecordFields DEF TokensInv
  <2>2. Bears(k, record.refresh)
    BY DEF Bears
  <2> QED BY <2>1, <2>2 DEF TokensInv, StoreInv, FileInv
<1> QED BY <1>1, TokensInvariant, PTL

\* An answer that omits the refresh token keeps the one on file.
THEOREM RefreshTokensAreKept == TokensSpec => RefreshTokenKept
<1> DEFINE Kept ==
        \A k \in TokenKeys :
            (/\ creds[k] # Absent /\ creds[k].refresh # 0
             /\ creds'[k] # Absent /\ creds'[k].refresh = 0)
            => CodeStored(k) \/ creds' = durable
<1>1. TokensInv /\ [TokensNext]_tokenVars => [Kept]_tokenVars
  <2> SUFFICES ASSUME TokensInv, TokensNext, NEW k \in TokenKeys,
                      creds[k] # Absent, creds[k].refresh # 0,
                      creds'[k] # Absent, creds'[k].refresh = 0
               PROVE  CodeStored(k) \/ creds' = durable
    OBVIOUS
  <2>1. creds' # creds
    OBVIOUS
  <2>2. CASE CrashAndRestart
    BY <2>2 DEF CrashAndRestart, TokenMap!Restart
  <2>3. ASSUME NEW j \in TokenKeys, RevokeToken(j) PROVE FALSE
    <3>1. creds' = [creds EXCEPT ![j] = Absent]
      BY <2>3 DEF RevokeToken, TokenMap!Write, TokenMap!WriteFails
    <3> QED BY <3>1 DEF TokensInv, TokensTypeOK, TokenMap!Contents
  <2>4. ASSUME NEW t \in Tasks, Persist(t) PROVE CodeStored(k)
    <3>1. /\ call[t] # Absent /\ call[t].grant # Absent /\ call' = [call EXCEPT ![t] = Absent]
          /\ creds' = [creds EXCEPT ![call[t].key] = Merged(call[t])]
      BY <2>4 DEF Persist, TokenMap!Write, TokenMap!WriteFails
    <3>2. k = call[t].key /\ creds'[k] = Merged(call[t])
      BY <3>1 DEF TokensInv, TokensTypeOK, TokenMap!Contents
    <3>3. call[t].read = Absent
      BY <3>1, <3>2, MergedRecord DEF TokensInv, CallInv
    <3>4. call'[t] = Absent
      BY <3>1 DEF TokensInv, TokensTypeOK
    <3> QED BY <3>1, <3>2, <3>3, <3>4 DEF CodeStored
  <2> QED BY <2>1, <2>2, <2>3, <2>4 DEF TokensNext, Answer, AccessToken, Refresh, ExchangeCode,
             Handle, Refuse, Lose, Age
<1> QED BY <1>1, TokensInvariant, PTL DEF TokensSpec, RefreshTokenKept

-----------------------------------------------------------------------------
(* Proofs about Http for any number of requests, any retry limit and any    *)
(* rates and bursts: its types, the rate limit, and what a call that is     *)
(* sent again says of the attempts before it.                               *)
(*                                                                          *)
(* The rate limit needs an account of both buckets: what the attempts of    *)
(* the stretch have taken, with what the bucket would hold if it were       *)
(* refilled now, is within its burst and the stretch's refill.              *)

\* What a bucket would hold after a refill.
Holds(units, burst, period) == Refilled(units, burst, period)

\* The account of one bucket.
Account(units, burst, period) ==
    window.sent * period + Holds(units, burst, period) <= burst * period + window.ticks

RateInv ==
    /\ ~window.open => window.sent = 0 /\ window.ticks = 0
    /\ Account(sec, SecBurst, SecPeriod)
    /\ Account(min, MinBurst, MinPeriod)

\* The three counters of a call as functions of its position and its attempt.
Counted(r) ==
    /\ unanswered[r] = attempt[r] + (IF at[r] \in {"backoff", "failed"} THEN 1 ELSE 0)
    /\ sent[r] = unanswered[r] + (IF at[r] \in {"sending", "answered"} THEN 1 ELSE 0)
    /\ done[r] <= unanswered[r] + (IF at[r] = "answered" THEN 1 ELSE 0)
    /\ at[r] = "backoff" => attempt[r] < MaxRetries
    /\ at[r] = "failed" => attempt[r] = MaxRetries

RetryInv == \A r \in Requests : Counted(r)

\* The types of the proof: those of the model, without the counters' bounds, which
\* follow from RetryInv.
TypeInv ==
    /\ sec \in 0..SecBurst * SecPeriod
    /\ min \in 0..MinBurst * MinPeriod
    /\ idle \in 0..Full
    /\ sleep \in 0..Later(SecPeriod, MinPeriod)
    /\ waiters \in Seq(Requests)
    /\ at \in [Requests -> Positions]
    /\ attempt \in [Requests -> 0..MaxRetries]
    /\ allowed \in BOOLEAN
    /\ sent \in [Requests -> Nat]
    /\ done \in [Requests -> Nat]
    /\ unanswered \in [Requests -> Nat]
    /\ window \in [open : BOOLEAN, ticks : 0..MaxWindow, sent : Nat]

HttpInv == TypeInv /\ RateInv /\ RetryInv

-----------------------------------------------------------------------------
(* Arithmetic. *)

LEMMA Products ==
    /\ SecBurst * SecPeriod \in Nat /\ MinBurst * MinPeriod \in Nat
    /\ Full \in Nat /\ Later(SecPeriod, MinPeriod) \in Nat
    /\ SecBurst * SecPeriod <= Full /\ MinBurst * MinPeriod <= Full
    /\ SecPeriod <= Later(SecPeriod, MinPeriod) /\ MinPeriod <= Later(SecPeriod, MinPeriod)
<1>1. SecBurst \in Nat /\ SecPeriod \in Nat /\ MinBurst \in Nat /\ MinPeriod \in Nat
  BY HttpAssumption
<1>2. SecBurst * SecPeriod \in Nat /\ MinBurst * MinPeriod \in Nat
  BY <1>1
<1> QED BY <1>1, <1>2 DEF Full, Later

\* A refill leaves a bucket between what it had and its burst.
LEMMA RefillBounds ==
    ASSUME NEW cap \in Nat, NEW units \in 0..cap, NEW ticks \in Nat
    PROVE  /\ Capped(units + ticks, cap) \in 0..cap
           /\ Capped(units + ticks, cap) >= units
           /\ Capped(units + 0, cap) = units
           /\ Capped(units + (ticks + 1), cap) <= Capped(units + ticks, cap) + 1
BY DEF Capped

\* Ticks beyond those that fill a bucket do not matter.
LEMMA RefillFull ==
    ASSUME NEW cap \in Nat, NEW units \in 0..cap, NEW full \in Nat, cap <= full,
           NEW ticks \in 0..full
    PROVE  /\ Capped(ticks + 1, full) \in 0..full
           /\ Capped(units + Capped(ticks + 1, full), cap) <= Capped(units + ticks, cap) + 1
BY DEF Capped

LEMMA OneMore ==
    ASSUME NEW n \in Nat, NEW p \in Nat
    PROVE  (n + 1) * p = n * p + p /\ n * p \in Nat /\ 0 * p = 0
OBVIOUS

-----------------------------------------------------------------------------
(* The first state. *)

LEMMA HttpInitInv == HttpInit => HttpInv
<1> SUFFICES ASSUME HttpInit PROVE HttpInv
  OBVIOUS
<1>1. TypeInv
  <2>1. sec \in 0..SecBurst * SecPeriod /\ min \in 0..MinBurst * MinPeriod /\ idle \in 0..Full
        /\ sleep \in 0..Later(SecPeriod, MinPeriod)
    BY Products DEF HttpInit
  <2>2. waiters \in Seq(Requests) /\ allowed \in BOOLEAN
    BY DEF HttpInit
  <2>3. at \in [Requests -> Positions] /\ attempt \in [Requests -> 0..MaxRetries]
    BY HttpAssumption DEF HttpInit, Positions
  <2>4. sent \in [Requests -> Nat] /\ done \in [Requests -> Nat] /\ unanswered \in [Requests -> Nat]
    BY DEF HttpInit
  <2>5. window \in [open : BOOLEAN, ticks : 0..MaxWindow, sent : Nat]
    BY HttpAssumption DEF HttpInit, Closed
  <2> QED BY <2>1, <2>2, <2>3, <2>4, <2>5 DEF TypeInv
<1>2. RateInv
  <2>1. window.open = FALSE /\ window.sent = 0 /\ window.ticks = 0
    BY DEF HttpInit, Closed
  <2>2. Account(sec, SecBurst, SecPeriod)
    BY <2>1, Products, OneMore, HttpAssumption DEF HttpInit, Account, Holds, Refilled, Capped
  <2>3. Account(min, MinBurst, MinPeriod)
    BY <2>1, Products, OneMore, HttpAssumption DEF HttpInit, Account, Holds, Refilled, Capped
  <2> QED BY <2>1, <2>2, <2>3 DEF RateInv
<1>3. RetryInv
  BY DEF HttpInit, RetryInv, Counted
<1> QED BY <1>1, <1>2, <1>3 DEF HttpInv

-----------------------------------------------------------------------------
(* The buckets. *)

\* A step that leaves the buckets and the stretch alone keeps the account.
LEMMA RateKept == RateInv /\ UNCHANGED <<bucketVars, window>> => RateInv'
BY DEF RateInv, bucketVars, Account, Holds, Refilled, Capped

\* A task takes a token of a bucket with these units: the account is balanced.
LEMMA TokenTaken ==
    ASSUME NEW used \in Nat, NEW cap \in Nat, NEW p \in Nat, NEW held \in 0..cap, NEW ticks \in Nat,
           used + held <= cap + ticks, p <= held
    PROVE  /\ held - p \in 0..cap
           /\ (used + p) + Capped((held - p) + 0, cap) <= cap + ticks
           /\ 0 + Capped((held - p) + 0, cap) <= cap + 0
BY DEF Capped

LEMMA AcquireInv ==
    ASSUME HttpInv, NEW r \in Requests, Acquire(r)
    PROVE  HttpInv'
<1>0. TypeInv /\ RateInv /\ RetryInv
  BY DEF HttpInv
<1> DEFINE s == Refilled(sec, SecBurst, SecPeriod)
           m == Refilled(min, MinBurst, MinPeriod)
           wait == Later(Wait(s, SecPeriod), Wait(m, MinPeriod))
<1>1. /\ SecPeriod \in Nat /\ MinPeriod \in Nat /\ SecPeriod > 0 /\ MinPeriod > 0
      /\ SecBurst * SecPeriod \in Nat /\ MinBurst * MinPeriod \in Nat
      /\ Later(SecPeriod, MinPeriod) \in Nat /\ Full \in Nat
  BY HttpAssumption, Products
<1>2. idle \in Nat /\ sec \in 0..SecBurst * SecPeriod /\ min \in 0..MinBurst * MinPeriod
  BY <1>0, <1>1 DEF TypeInv
<1>3. s \in 0..SecBurst * SecPeriod /\ m \in 0..MinBurst * MinPeriod
  BY <1>1, <1>2, RefillBounds DEF Refilled
<1>4. window.open \in BOOLEAN /\ window.ticks \in 0..MaxWindow /\ window.sent \in Nat
      /\ window.ticks \in Nat
  BY <1>0, HttpAssumption DEF TypeInv
<1>5. /\ window.sent * SecPeriod + s <= SecBurst * SecPeriod + window.ticks
      /\ window.sent * MinPeriod + m <= MinBurst * MinPeriod + window.ticks
      /\ ~window.open => window.sent = 0 /\ window.ticks = 0
  BY <1>0 DEF RateInv, Account, Holds
<1>6. idle' = 0 /\ waiters # <<>> /\ waiters \in Seq(Requests)
      /\ UNCHANGED <<attempt, allowed, done, unanswered>>
  BY <1>0 DEF Acquire, answerVars, TypeInv
<1>7. CASE wait = 0 /\ sec' = s - SecPeriod /\ min' = m - MinPeriod /\ waiters' = Tail(waiters)
           /\ Moves(r, "queued", "sending") /\ sent' = [sent EXCEPT ![r] = @ + 1]
           /\ window' = (IF window.open THEN [window EXCEPT !.sent = @ + 1] ELSE window)
           /\ UNCHANGED sleep
  <2>1. SecPeriod <= s /\ MinPeriod <= m
    <3> HIDE DEF s, m
    <3> QED BY <1>1, <1>3, <1>7 DEF wait, Later, Wait
  <2>2. window'.open = window.open /\ window'.ticks = window.ticks
        /\ window'.sent = (IF window.open THEN window.sent + 1 ELSE window.sent)
        /\ window' \in [open : BOOLEAN, ticks : 0..MaxWindow, sent : Nat]
    <3>1. window \in [open : BOOLEAN, ticks : 0..MaxWindow, sent : Nat]
      BY <1>0 DEF TypeInv
    <3>2. CASE window.open
      <4>1. window' = [window EXCEPT !.sent = window.sent + 1]
        BY <1>7, <3>2
      <4>2. window' = [open |-> window.open, ticks |-> window.ticks, sent |-> window.sent + 1]
        BY <3>1, <4>1
      <4> QED BY <1>4, <3>2, <4>2
    <3>3. CASE ~window.open
      BY <1>7, <3>1, <3>3
    <3> QED BY <1>4, <3>2, <3>3
  <2>3. sec' \in 0..SecBurst * SecPeriod /\ Account(sec, SecBurst, SecPeriod)'
    <3>1. window.sent * SecPeriod \in Nat /\ (window.sent + 1) * SecPeriod = window.sent * SecPeriod + SecPeriod
          /\ 0 * SecPeriod = 0
      BY <1>1, <1>4, OneMore
    <3>2. /\ s - SecPeriod \in 0..SecBurst * SecPeriod
          /\ (window.sent * SecPeriod + SecPeriod) + Capped((s - SecPeriod) + 0, SecBurst * SecPeriod)
                <= SecBurst * SecPeriod + window.ticks
          /\ 0 + Capped((s - SecPeriod) + 0, SecBurst * SecPeriod) <= SecBurst * SecPeriod + 0
      <4> HIDE DEF s
      <4> QED BY <1>1, <1>3, <1>4, <1>5, <2>1, <3>1, TokenTaken
    <3>3. Holds(sec, SecBurst, SecPeriod)' = Capped((s - SecPeriod) + 0, SecBurst * SecPeriod)
      BY <1>6, <1>7 DEF Holds, Refilled
    <3>4. Account(sec, SecBurst, SecPeriod)'
            = (window'.sent * SecPeriod + Capped((s - SecPeriod) + 0, SecBurst * SecPeriod)
                <= SecBurst * SecPeriod + window'.ticks)
      BY <3>3 DEF Account
    <3> HIDE DEF s
    <3>5. CASE window.open
      BY <2>2, <3>1, <3>2, <3>4, <3>5, <1>7
    <3>6. CASE ~window.open
      BY <1>5, <2>2, <3>1, <3>2, <3>4, <3>6, <1>7
    <3> QED BY <3>5, <3>6
  <2>4. min' \in 0..MinBurst * MinPeriod /\ Account(min, MinBurst, MinPeriod)'
    <3>1. window.sent * MinPeriod \in Nat /\ (window.sent + 1) * MinPeriod = window.sent * MinPeriod + MinPeriod
          /\ 0 * MinPeriod = 0
      BY <1>1, <1>4, OneMore
    <3>2. /\ m - MinPeriod \in 0..MinBurst * MinPeriod
          /\ (window.sent * MinPeriod + MinPeriod) + Capped((m - MinPeriod) + 0, MinBurst * MinPeriod)
                <= MinBurst * MinPeriod + window.ticks
          /\ 0 + Capped((m - MinPeriod) + 0, MinBurst * MinPeriod) <= MinBurst * MinPeriod + 0
      <4> HIDE DEF m
      <4> QED BY <1>1, <1>3, <1>4, <1>5, <2>1, <3>1, TokenTaken
    <3>3. Holds(min, MinBurst, MinPeriod)' = Capped((m - MinPeriod) + 0, MinBurst * MinPeriod)
      BY <1>6, <1>7 DEF Holds, Refilled
    <3>4. Account(min, MinBurst, MinPeriod)'
            = (window'.sent * MinPeriod + Capped((m - MinPeriod) + 0, MinBurst * MinPeriod)
                <= MinBurst * MinPeriod + window'.ticks)
      BY <3>3 DEF Account
    <3> HIDE DEF m
    <3>5. CASE window.open
      BY <2>2, <3>1, <3>2, <3>4, <3>5, <1>7
    <3>6. CASE ~window.open
      BY <1>5, <2>2, <3>1, <3>2, <3>4, <3>6, <1>7
    <3> QED BY <3>5, <3>6
  <2>5. TypeInv'
    <3>1. at' \in [Requests -> Positions] /\ sent' \in [Requests -> Nat]
      BY <1>0, <1>7 DEF TypeInv, Moves, Positions
    <3>2. waiters' \in Seq(Requests) /\ idle' \in 0..Full
      BY <1>1, <1>6, <1>7
    <3>3. /\ attempt' \in [Requests -> 0..MaxRetries] /\ allowed' \in BOOLEAN
          /\ done' \in [Requests -> Nat] /\ unanswered' \in [Requests -> Nat]
          /\ sleep' \in 0..Later(SecPeriod, MinPeriod)
      BY <1>0, <1>6, <1>7 DEF TypeInv
    <3> QED BY <2>2, <2>3, <2>4, <3>1, <3>2, <3>3 DEF TypeInv
  <2>6. RateInv'
    BY <1>5, <2>2, <2>3, <2>4 DEF RateInv
  <2>7. RetryInv'
    <3> SUFFICES ASSUME NEW q \in Requests PROVE Counted(q)'
      BY DEF RetryInv
    <3>1. Counted(q) /\ attempt[q] \in Nat /\ unanswered[q] \in Nat /\ sent[q] \in Nat
      BY <1>0, HttpAssumption DEF TypeInv, RetryInv
    <3>2. at \in [Requests -> Positions] /\ sent \in [Requests -> Nat]
      BY <1>0 DEF TypeInv
    <3>3. /\ at[r] = "queued" /\ at' = [at EXCEPT ![r] = "sending"]
          /\ sent' = [sent EXCEPT ![r] = sent[r] + 1]
          /\ attempt' = attempt /\ done' = done /\ unanswered' = unanswered
      BY <1>6, <1>7 DEF Moves
    <3>4. CASE q = r
      <4>1. at'[q] = "sending" /\ sent'[q] = sent[q] + 1 /\ at[q] = "queued"
        BY <3>2, <3>3, <3>4
      <4> HIDE DEF wait
      <4> QED BY <3>1, <3>3, <4>1 DEF Counted
    <3>5. CASE q # r
      <4>1. at'[q] = at[q] /\ sent'[q] = sent[q]
        BY <3>2, <3>3, <3>5
      <4> QED BY <3>1, <3>3, <4>1 DEF Counted
    <3> QED BY <3>4, <3>5
  <2> QED BY <2>5, <2>6, <2>7 DEF HttpInv
<1>8. CASE wait > 0 /\ sec' = s /\ min' = m /\ sleep' = wait
           /\ UNCHANGED <<waiters, at, sent, window>>
  <2>1. wait \in 0..Later(SecPeriod, MinPeriod)
    <3> HIDE DEF s, m
    <3> QED BY <1>1, <1>3 DEF wait, Later, Wait
  <2>2. Holds(sec, SecBurst, SecPeriod)' = s /\ Holds(min, MinBurst, MinPeriod)' = m
    <3>1. Holds(sec, SecBurst, SecPeriod)' = Capped(s + 0, SecBurst * SecPeriod)
          /\ Holds(min, MinBurst, MinPeriod)' = Capped(m + 0, MinBurst * MinPeriod)
      BY <1>6, <1>8 DEF Holds, Refilled
    <3> HIDE DEF s, m
    <3> QED BY <1>1, <1>3, <3>1, RefillBounds
  <2>3. TypeInv'
    <3>1. sec' \in 0..SecBurst * SecPeriod /\ min' \in 0..MinBurst * MinPeriod
          /\ sleep' \in 0..Later(SecPeriod, MinPeriod) /\ idle' \in 0..Full
      BY <1>1, <1>3, <1>6, <1>8, <2>1
    <3>2. /\ waiters' \in Seq(Requests) /\ at' \in [Requests -> Positions]
          /\ attempt' \in [Requests -> 0..MaxRetries] /\ allowed' \in BOOLEAN
          /\ sent' \in [Requests -> Nat] /\ done' \in [Requests -> Nat]
          /\ unanswered' \in [Requests -> Nat]
          /\ window' \in [open : BOOLEAN, ticks : 0..MaxWindow, sent : Nat]
      BY <1>0, <1>6, <1>8 DEF TypeInv
    <3> QED BY <3>1, <3>2 DEF TypeInv
  <2>4. RateInv'
    BY <1>5, <1>8, <2>2 DEF RateInv, Account
  <2>5. RetryInv'
    BY <1>0, <1>6, <1>8 DEF RetryInv, Counted
  <2> QED BY <2>3, <2>4, <2>5 DEF HttpInv
<1> QED BY <1>7, <1>8 DEF Acquire

-----------------------------------------------------------------------------
(* The retry loop. *)

LEMMA BeginInv ==
    ASSUME HttpInv, NEW r \in Requests, Begin(r)
    PROVE  HttpInv'
<1>0. TypeInv /\ RateInv /\ RetryInv
  BY DEF HttpInv
<1>1. waiters' \in Seq(Requests)
  <2>1. waiters \in Seq(Requests)
    BY <1>0 DEF TypeInv
  <2>2. waiters' = Append(waiters, r) \/ waiters' = waiters
    BY DEF Begin
  <2> QED BY <2>1, <2>2
<1>2. at' \in [Requests -> Positions]
  BY <1>0 DEF TypeInv, Begin, Moves, Positions
<1>3. TypeInv'
  BY <1>0, <1>1, <1>2 DEF TypeInv, Begin, bucketVars, answerVars
<1>4. RateInv'
  BY <1>0, RateKept DEF Begin
<1>5. RetryInv'
  BY <1>0 DEF TypeInv, RetryInv, Counted, Begin, Moves, answerVars
<1> QED BY <1>3, <1>4, <1>5 DEF HttpInv

LEMMA SucceedInv ==
    ASSUME HttpInv, NEW r \in Requests, Succeed(r)
    PROVE  HttpInv'
<1>0. TypeInv /\ RateInv /\ RetryInv
  BY DEF HttpInv
<1>1. at' \in [Requests -> Positions] /\ done' \in [Requests -> Nat]
  BY <1>0 DEF TypeInv, Succeed, Moves, Positions
<1>2. TypeInv'
  BY <1>0, <1>1 DEF TypeInv, Succeed, bucketVars
<1>3. RateInv'
  BY <1>0, RateKept DEF Succeed
<1>4. RetryInv'
  <2> SUFFICES ASSUME NEW q \in Requests PROVE Counted(q)'
    BY DEF RetryInv
  <2>1. Counted(q) /\ attempt[q] \in Nat /\ unanswered[q] \in Nat /\ sent[q] \in Nat
        /\ done[q] \in Nat
    BY <1>0, HttpAssumption DEF TypeInv, RetryInv
  <2>2. /\ at[r] = "sending" /\ at' = [at EXCEPT ![r] = "answered"]
        /\ done' = [done EXCEPT ![r] = done[r] + 1] /\ UNCHANGED <<attempt, sent, unanswered>>
    BY DEF Succeed, Moves
  <2>3. at \in [Requests -> Positions] /\ done \in [Requests -> Nat]
    BY <1>0 DEF TypeInv
  <2>4. CASE q = r
    <3>1. at'[q] = "answered" /\ done'[q] = done[q] + 1 /\ at[q] = "sending"
      BY <2>2, <2>3, <2>4
    <3> QED BY <2>1, <2>2, <3>1 DEF Counted
  <2>5. CASE q # r
    <3>1. at'[q] = at[q] /\ done'[q] = done[q]
      BY <2>2, <2>3, <2>5
    <3> QED BY <2>1, <2>2, <3>1 DEF Counted
  <2> QED BY <2>4, <2>5
<1> QED BY <1>2, <1>3, <1>4 DEF HttpInv

LEMMA RetryStepInv ==
    ASSUME HttpInv, NEW r \in Requests, Retry(r)
    PROVE  HttpInv'
<1>0. TypeInv /\ RateInv /\ RetryInv
  BY DEF HttpInv
<1>1. PICK acted \in {0, 1} : done' = [done EXCEPT ![r] = @ + acted]
  BY DEF Retry
<1>t. /\ at \in [Requests -> Positions] /\ done \in [Requests -> Nat]
      /\ unanswered \in [Requests -> Nat]
  BY <1>0 DEF TypeInv
<1>a. /\ at[r] = "sending" /\ unanswered' = [unanswered EXCEPT ![r] = unanswered[r] + 1]
      /\ done' = [done EXCEPT ![r] = done[r] + acted] /\ UNCHANGED <<attempt, sent>>
      /\ \/ attempt[r] >= MaxRetries /\ at' = [at EXCEPT ![r] = "failed"]
         \/ ~(attempt[r] >= MaxRetries) /\ at' = [at EXCEPT ![r] = "backoff"]
  BY <1>1 DEF Retry, Moves
<1>2. at' \in [Requests -> Positions] /\ done' \in [Requests -> Nat]
      /\ unanswered' \in [Requests -> Nat]
  <2>1. done[r] + acted \in Nat /\ unanswered[r] + 1 \in Nat
    BY <1>t
  <2>2. at' \in [Requests -> Positions]
    BY <1>t, <1>a DEF Positions
  <2> QED BY <1>t, <1>a, <2>1, <2>2
<1>3. TypeInv'
  BY <1>0, <1>2 DEF TypeInv, Retry, bucketVars
<1>4. RateInv'
  BY <1>0, RateKept DEF Retry
<1>5. RetryInv'
  <2>1. attempt[r] \in Nat /\ attempt[r] <= MaxRetries /\ MaxRetries \in Nat
    BY <1>0, HttpAssumption DEF TypeInv
  <2> SUFFICES ASSUME NEW q \in Requests PROVE Counted(q)'
    BY DEF RetryInv
  <2>2. Counted(q) /\ attempt[q] \in Nat /\ unanswered[q] \in Nat /\ sent[q] \in Nat
        /\ done[q] \in Nat
    BY <1>0, HttpAssumption DEF TypeInv, RetryInv
  <2>3. CASE q = r
    <3>1. unanswered'[q] = unanswered[q] + 1 /\ done'[q] = done[q] + acted /\ at[q] = "sending"
          /\ attempt'[q] = attempt[q] /\ sent'[q] = sent[q]
      BY <1>t, <1>a, <2>3
    <3>2. \/ attempt[q] = MaxRetries /\ at'[q] = "failed"
          \/ attempt[q] < MaxRetries /\ at'[q] = "backoff"
      BY <1>t, <1>a, <2>1, <2>3
    <3> QED BY <2>2, <3>1, <3>2 DEF Counted
  <2>4. CASE q # r
    <3>1. unanswered'[q] = unanswered[q] /\ done'[q] = done[q] /\ at'[q] = at[q]
          /\ attempt'[q] = attempt[q] /\ sent'[q] = sent[q]
      BY <1>t, <1>a, <2>4
    <3> QED BY <2>2, <3>1 DEF Counted
  <2> QED BY <2>3, <2>4
<1> QED BY <1>3, <1>4, <1>5 DEF HttpInv

LEMMA AgainInv ==
    ASSUME HttpInv, NEW r \in Requests, Again(r)
    PROVE  HttpInv'
<1>0. TypeInv /\ RateInv /\ RetryInv
  BY DEF HttpInv
<1>1. waiters' \in Seq(Requests)
  BY <1>0 DEF TypeInv, Again
<1>2. at' \in [Requests -> Positions]
  BY <1>0 DEF TypeInv, Again, Moves, Positions
<1>3. attempt' \in [Requests -> 0..MaxRetries]
  <2>1. attempt[r] \in 0..MaxRetries /\ attempt[r] < MaxRetries /\ MaxRetries \in Nat
    BY <1>0, HttpAssumption DEF TypeInv, RetryInv, Counted, Again, Moves
  <2> QED BY <1>0, <2>1 DEF TypeInv, Again
<1>4. TypeInv'
  BY <1>0, <1>1, <1>2, <1>3 DEF TypeInv, Again, bucketVars, answerVars
<1>5. RateInv'
  BY <1>0, RateKept DEF Again
<1>6. RetryInv'
  <2> SUFFICES ASSUME NEW q \in Requests PROVE Counted(q)'
    BY DEF RetryInv
  <2>1. Counted(q) /\ attempt[q] \in Nat /\ unanswered[q] \in Nat /\ sent[q] \in Nat
        /\ done[q] \in Nat /\ MaxRetries \in Nat
    BY <1>0, HttpAssumption DEF TypeInv, RetryInv
  <2>2. /\ at[r] = "backoff" /\ at' = [at EXCEPT ![r] = "queued"]
        /\ attempt' = [attempt EXCEPT ![r] = attempt[r] + 1] /\ UNCHANGED <<sent, done, unanswered>>
    BY DEF Again, Moves, answerVars
  <2>3. at \in [Requests -> Positions] /\ attempt \in [Requests -> 0..MaxRetries]
    BY <1>0 DEF TypeInv
  <2>4. CASE q = r
    <3>1. at'[q] = "queued" /\ attempt'[q] = attempt[q] + 1 /\ at[q] = "backoff"
      BY <2>2, <2>3, <2>4
    <3> QED BY <2>1, <2>2, <3>1 DEF Counted
  <2>5. CASE q # r
    <3>1. at'[q] = at[q] /\ attempt'[q] = attempt[q]
      BY <2>2, <2>3, <2>5
    <3> QED BY <2>1, <2>2, <3>1 DEF Counted
  <2> QED BY <2>4, <2>5
<1> QED BY <1>4, <1>5, <1>6 DEF HttpInv

-----------------------------------------------------------------------------
(* The clock and the history. *)

LEMMA TickInv == HttpInv /\ Tick => HttpInv'
<1> SUFFICES ASSUME HttpInv, Tick PROVE HttpInv'
  OBVIOUS
<1>0. TypeInv /\ RateInv /\ RetryInv
  BY DEF HttpInv
<1>1. /\ SecPeriod \in Nat /\ MinPeriod \in Nat
      /\ SecBurst * SecPeriod \in Nat /\ MinBurst * MinPeriod \in Nat /\ Full \in Nat
      /\ SecBurst * SecPeriod <= Full /\ MinBurst * MinPeriod <= Full
      /\ Later(SecPeriod, MinPeriod) \in Nat
  BY HttpAssumption, Products
<1>2. /\ sec \in 0..SecBurst * SecPeriod /\ min \in 0..MinBurst * MinPeriod /\ idle \in 0..Full
      /\ sleep \in 0..Later(SecPeriod, MinPeriod)
      /\ window \in [open : BOOLEAN, ticks : 0..MaxWindow, sent : Nat]
  BY <1>0 DEF TypeInv
<1>3. /\ idle' = Capped(idle + 1, Full) /\ UNCHANGED <<sec, min>>
      /\ sleep' = (IF sleep = 0 THEN 0 ELSE sleep - 1)
      /\ UNCHANGED <<waiters, at, attempt, sent, allowed, done, unanswered>>
  BY DEF Tick, requestVars, answerVars
<1>4. /\ idle' \in 0..Full
      /\ Holds(sec, SecBurst, SecPeriod)' <= Holds(sec, SecBurst, SecPeriod) + 1
      /\ Holds(min, MinBurst, MinPeriod)' <= Holds(min, MinBurst, MinPeriod) + 1
  BY <1>1, <1>2, <1>3, RefillFull DEF Holds, Refilled
<1>5. /\ Holds(sec, SecBurst, SecPeriod) \in Nat /\ Holds(min, MinBurst, MinPeriod) \in Nat
      /\ Holds(sec, SecBurst, SecPeriod)' \in 0..SecBurst * SecPeriod
      /\ Holds(min, MinBurst, MinPeriod)' \in 0..MinBurst * MinPeriod
  <2>1. idle \in Nat /\ idle' \in Nat
    BY <1>1, <1>2, <1>4
  <2>2. Capped(sec + idle, SecBurst * SecPeriod) \in 0..SecBurst * SecPeriod
        /\ Capped(min + idle, MinBurst * MinPeriod) \in 0..MinBurst * MinPeriod
    BY <1>1, <1>2, <2>1, RefillBounds
  <2>3. Capped(sec + idle', SecBurst * SecPeriod) \in 0..SecBurst * SecPeriod
        /\ Capped(min + idle', MinBurst * MinPeriod) \in 0..MinBurst * MinPeriod
    BY <1>1, <1>2, <2>1, RefillBounds
  <2>4. Holds(sec, SecBurst, SecPeriod) \in 0..SecBurst * SecPeriod
        /\ Holds(min, MinBurst, MinPeriod) \in 0..MinBurst * MinPeriod
    BY <2>2 DEF Holds, Refilled
  <2>5. Holds(sec, SecBurst, SecPeriod)' \in 0..SecBurst * SecPeriod
        /\ Holds(min, MinBurst, MinPeriod)' \in 0..MinBurst * MinPeriod
    BY <1>3, <2>3 DEF Holds, Refilled
  <2> QED BY <1>1, <2>4, <2>5
<1>6. window' \in [open : BOOLEAN, ticks : 0..MaxWindow, sent : Nat]
      /\ \/ window' = window /\ ~window.open
         \/ window'.sent = 0 /\ window'.ticks = 0 /\ ~window'.open
         \/ window'.sent = window.sent /\ window'.ticks = window.ticks + 1 /\ window'.open
  <2>1. CASE ~window.open
    BY <1>2, <2>1 DEF Tick
  <2>2. CASE window.open /\ window.ticks = MaxWindow
    BY <2>2, HttpAssumption DEF Tick, Closed
  <2>3. CASE window.open /\ window.ticks # MaxWindow
    <3>1. window' = [window EXCEPT !.ticks = window.ticks + 1]
      BY <2>3 DEF Tick
    <3>2. window' = [open |-> window.open, ticks |-> window.ticks + 1, sent |-> window.sent]
      BY <1>2, <3>1
    <3>3. window.ticks + 1 \in 0..MaxWindow
      BY <1>2, <2>3, HttpAssumption
    <3> QED BY <1>2, <2>3, <3>2, <3>3
  <2> QED BY <1>2, <2>1, <2>2, <2>3
<1>7. TypeInv'
  <2>1. sleep' \in 0..Later(SecPeriod, MinPeriod)
    BY <1>1, <1>2, <1>3
  <2> QED BY <1>0, <1>3, <1>4, <1>6, <2>1 DEF TypeInv
<1>8. RateInv'
  <2>1. ~window.open => window.sent = 0 /\ window.ticks = 0
    BY <1>0 DEF RateInv
  <2>2. window.sent \in Nat /\ window.ticks \in Nat /\ window.open \in BOOLEAN
        /\ window'.sent \in Nat /\ window'.ticks \in Nat /\ window'.open \in BOOLEAN
    BY <1>2, <1>6, HttpAssumption
  <2>3. 0 * SecPeriod = 0 /\ 0 * MinPeriod = 0
        /\ window.sent * SecPeriod \in Nat /\ window.sent * MinPeriod \in Nat
    BY <1>1, <2>2, OneMore
  <2>4. /\ window.sent * SecPeriod + Holds(sec, SecBurst, SecPeriod) <= SecBurst * SecPeriod + window.ticks
        /\ window.sent * MinPeriod + Holds(min, MinBurst, MinPeriod) <= MinBurst * MinPeriod + window.ticks
    BY <1>0 DEF RateInv, Account
  <2>5. /\ window'.sent * SecPeriod + Holds(sec, SecBurst, SecPeriod)' <= SecBurst * SecPeriod + window'.ticks
        /\ window'.sent * MinPeriod + Holds(min, MinBurst, MinPeriod)' <= MinBurst * MinPeriod + window'.ticks
    <3>1. CASE window' = window /\ ~window.open
      BY <1>1, <1>5, <2>1, <2>3, <3>1
    <3>2. CASE window'.sent = 0 /\ window'.ticks = 0
      BY <1>1, <1>5, <2>3, <3>2
    <3>3. CASE window'.sent = window.sent /\ window'.ticks = window.ticks + 1
      BY <1>1, <1>4, <1>5, <2>2, <2>3, <2>4, <3>3
    <3> QED BY <1>6, <3>1, <3>2, <3>3
  <2>6. ~window'.open => window'.sent = 0 /\ window'.ticks = 0
    BY <1>6, <2>1
  <2> QED BY <2>5, <2>6 DEF RateInv, Account
<1>9. RetryInv'
  BY <1>0, <1>3 DEF RetryInv, Counted
<1> QED BY <1>7, <1>8, <1>9 DEF HttpInv

LEMMA OpenWindowInv == HttpInv /\ OpenWindow => HttpInv'
<1> SUFFICES ASSUME HttpInv, OpenWindow PROVE HttpInv'
  OBVIOUS
<1>0. TypeInv /\ RateInv /\ RetryInv
  BY DEF HttpInv
<1>1. window'.open = TRUE /\ window'.ticks = 0 /\ window'.sent = 0
      /\ window' \in [open : BOOLEAN, ticks : 0..MaxWindow, sent : Nat]
  BY HttpAssumption DEF OpenWindow
<1>2. window.sent = 0 /\ window.ticks = 0
  BY <1>0 DEF RateInv, OpenWindow
<1>3. TypeInv'
  BY <1>0, <1>1 DEF TypeInv, OpenWindow, bucketVars, requestVars, answerVars
<1>4. RateInv'
  BY <1>0, <1>1, <1>2 DEF RateInv, OpenWindow, bucketVars, Account, Holds, Refilled, Capped
<1>5. RetryInv'
  BY <1>0 DEF RetryInv, Counted, OpenWindow, requestVars, answerVars
<1> QED BY <1>3, <1>4, <1>5 DEF HttpInv

LEMMA SetAllowlistInv == HttpInv /\ SetAllowlist => HttpInv'
<1> SUFFICES ASSUME HttpInv, SetAllowlist PROVE HttpInv'
  OBVIOUS
<1>0. TypeInv /\ RateInv /\ RetryInv
  BY DEF HttpInv
<1>1. TypeInv'
  BY <1>0 DEF TypeInv, SetAllowlist, bucketVars, requestVars, answerVars
<1>2. RateInv'
  BY <1>0, RateKept DEF SetAllowlist
<1>3. RetryInv'
  BY <1>0 DEF RetryInv, Counted, SetAllowlist, requestVars, answerVars
<1> QED BY <1>1, <1>2, <1>3 DEF HttpInv

-----------------------------------------------------------------------------
(* The theorems.  None of them needs the fairness of HttpSpec. *)

HttpSteps == HttpInit /\ [][HttpNext]_httpVars

LEMMA FairnessUnused == HttpSpec => HttpSteps
BY DEF HttpSpec, HttpSteps

\* The types, the accounts of the buckets and the counters of the calls hold for
\* any number of requests and any rates, bursts and retry limits.
THEOREM HttpInvariant == HttpSteps => []HttpInv
<1>1. HttpInv /\ [HttpNext]_httpVars => HttpInv'
  <2> SUFFICES ASSUME HttpInv, [HttpNext]_httpVars PROVE HttpInv'
    OBVIOUS
  <2>1. CASE UNCHANGED httpVars
    <3>1. UNCHANGED <<sec, min, idle, sleep, waiters, at, attempt, sent, allowed, done,
                      unanswered, window>>
      BY <2>1 DEF httpVars, bucketVars, requestVars, answerVars
    <3>2. RateInv'
      BY <3>1, RateKept DEF HttpInv, bucketVars
    <3>3. TypeInv' /\ RetryInv'
      BY <3>1 DEF HttpInv, TypeInv, RetryInv, Counted
    <3> QED BY <3>2, <3>3 DEF HttpInv
  <2>2. CASE HttpNext
    BY <2>2, BeginInv, AcquireInv, SucceedInv, RetryStepInv, AgainInv, SetAllowlistInv, TickInv,
       OpenWindowInv DEF HttpNext, HttpWork
  <2> QED BY <2>1, <2>2
<1> QED BY <1>1, HttpInitInv, PTL DEF HttpSteps

\* Every variable of Http keeps its type.
THEOREM HttpTypes == HttpSteps => []HttpTypeOK
<1>1. HttpInv => HttpTypeOK
  <2> SUFFICES ASSUME HttpInv PROVE HttpTypeOK
    OBVIOUS
  <2>1. TypeInv /\ RetryInv /\ MaxRetries \in Nat
    BY HttpAssumption DEF HttpInv
  <2>2. ASSUME NEW r \in Requests
        PROVE  {sent[r], done[r], unanswered[r]} \subseteq 0..MaxRetries + 1
    <3>1. /\ attempt[r] \in 0..MaxRetries /\ sent[r] \in Nat /\ done[r] \in Nat
          /\ unanswered[r] \in Nat /\ Counted(r)
      BY <2>1 DEF TypeInv, RetryInv
    <3> QED BY <2>1, <3>1 DEF Counted
  <2>3. {sent, done, unanswered} \subseteq [Requests -> 0..MaxRetries + 1]
    BY <2>1, <2>2 DEF TypeInv
  <2> QED BY <2>1, <2>3 DEF TypeInv, HttpTypeOK
<1> QED BY <1>1, HttpInvariant, PTL

\* In no stretch of time are more attempts sent than a bucket's burst and its
\* refill, however the requests and their retries interleave.
THEOREM RateIsRespected == HttpSteps => []RateRespected
<1>1. HttpInv => RateRespected
  <2> SUFFICES ASSUME HttpInv PROVE RateRespected
    OBVIOUS
  <2>1. /\ sec \in 0..SecBurst * SecPeriod /\ min \in 0..MinBurst * MinPeriod /\ idle \in Nat
        /\ window.sent \in Nat /\ window.ticks \in Nat
    BY HttpAssumption, Products DEF HttpInv, TypeInv
  <2>2. Holds(sec, SecBurst, SecPeriod) \in Nat /\ Holds(min, MinBurst, MinPeriod) \in Nat
    <3>1. SecBurst * SecPeriod \in Nat /\ MinBurst * MinPeriod \in Nat
      BY Products
    <3>2. Capped(sec + idle, SecBurst * SecPeriod) \in 0..SecBurst * SecPeriod
          /\ Capped(min + idle, MinBurst * MinPeriod) \in 0..MinBurst * MinPeriod
      BY <2>1, <3>1, RefillBounds
    <3> QED BY <3>1, <3>2 DEF Holds, Refilled
  <2>3. window.sent * SecPeriod \in Nat /\ window.sent * MinPeriod \in Nat
    BY <2>1, OneMore, HttpAssumption
  <2> QED BY <2>1, <2>2, <2>3, Products DEF HttpInv, RateInv, Account, RateRespected
<1> QED BY <1>1, HttpInvariant, PTL

\* The server acts on a call once more than attempts went unanswered at most, and a
\* call is given up after all its attempts and not before.
THEOREM RepeatsAreUnanswered == HttpSteps => []RepeatsOnlyUnanswered
<1>1. HttpInv => RepeatsOnlyUnanswered
  <2> SUFFICES ASSUME HttpInv, NEW r \in Requests
               PROVE  /\ done[r] <= unanswered[r] + (IF at[r] = "answered" THEN 1 ELSE 0)
                      /\ sent[r] = unanswered[r] + (IF at[r] \in {"sending", "answered"} THEN 1 ELSE 0)
                      /\ at[r] = "failed" => sent[r] = MaxRetries + 1
    BY DEF RepeatsOnlyUnanswered
  <2>1. Counted(r) /\ attempt[r] \in 0..MaxRetries /\ unanswered[r] \in Nat /\ MaxRetries \in Nat
    BY HttpAssumption DEF HttpInv, RetryInv, TypeInv
  <2> QED BY <2>1 DEF Counted
<1> QED BY <1>1, HttpInvariant, PTL

-----------------------------------------------------------------------------
(* The runs of MCServices: one component moves, the others stay.            *)

\* A run of MCServices is a run of each component, so that what is proved of a
\* component holds of what TLC explores.
THEOREM ServicesAreRuns == ServicesSpec => SecretsSpec /\ TokensSpec /\ HttpSteps
<1>1. ServicesInit => SecretsInit /\ TokensInit /\ HttpInit
  BY DEF ServicesInit
<1>2. [ServicesNext]_servicesVars
        => [SecretsNext]_secretsVars /\ [TokensNext]_tokenVars /\ [HttpNext]_httpVars
  BY DEF ServicesNext, servicesVars
<1> QED BY <1>1, <1>2, PTL DEF ServicesSpec, SecretsSpec, TokensSpec, HttpSteps

\* Every variable of the three components keeps its type in such a run.
THEOREM ServicesTypes == ServicesSpec => []ServicesTypeOK
<1>1. SecretsTypeOK /\ TokensTypeOK /\ HttpTypeOK => ServicesTypeOK
  BY DEF ServicesTypeOK
<1> QED BY <1>1, ServicesAreRuns, SecretsTypes, TokensTypes, HttpTypes, PTL

\* So does what is proved of each: acknowledged credentials survive, tokens are stranded
\* by a loss only, the rate is respected and calls act twice only when unanswered, and
\* the file implements the map.
THEOREM ServicesSafety ==
    ServicesSpec =>
        /\ [](AckedSurvives /\ StrandedOnlyByLoss)
        /\ [](RateRespected /\ RepeatsOnlyUnanswered)
        /\ ImplementsMap /\ RefreshTokenKept
<1>1. ServicesSpec => [](AckedSurvives /\ StrandedOnlyByLoss)
  BY ServicesAreRuns, AckedWritesSurvive, OnlyLossStrands, PTL
<1>2. ServicesSpec => [](RateRespected /\ RepeatsOnlyUnanswered)
  BY ServicesAreRuns, RateIsRespected, RepeatsAreUnanswered, PTL
<1>3. ServicesSpec => ImplementsMap /\ RefreshTokenKept
  BY ServicesAreRuns, ProviderImplementsMap, RefreshTokensAreKept, PTL
<1> QED BY <1>1, <1>2, <1>3, PTL

=============================================================================
