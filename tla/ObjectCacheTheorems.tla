------------------------ MODULE ObjectCacheTheorems -------------------------
(***************************************************************************)
(* What holds of the object cache in every state, for any number of        *)
(* objects, requests, collectors and administrator's commands.             *)
(***************************************************************************)
EXTENDS ObjectCacheCountProofs, FiniteSetTheorems

-----------------------------------------------------------------------------
(* The invariant *)

\* From the library.
LEMMA CardinalsHold == Cardinals
<1>1. ASSUME NEW S, IsFiniteSet(S)
      PROVE  /\ Cardinality(S) \in Nat /\ (S = {} <=> Cardinality(S) = 0)
             /\ \A T \in SUBSET S : IsFiniteSet(T) /\ Cardinality(T) <= Cardinality(S)
             /\ \A x : /\ IsFiniteSet(S \cup {x})
                       /\ x \notin S => Cardinality(S \cup {x}) = Cardinality(S) + 1
             /\ \A x \in S : Cardinality(S \ {x}) = Cardinality(S) - 1
  <2>1. Cardinality(S) \in Nat /\ (S = {} <=> Cardinality(S) = 0)
    BY <1>1, FS_CardinalityType, FS_EmptySet, Zenon
  <2>2. \A T \in SUBSET S : IsFiniteSet(T) /\ Cardinality(T) <= Cardinality(S)
    BY <1>1, FS_Subset, Zenon
  <2>3. \A x : /\ IsFiniteSet(S \cup {x})
               /\ x \notin S => Cardinality(S \cup {x}) = Cardinality(S) + 1
    BY <1>1, FS_AddElement, Zenon
  <2>4. \A x \in S : Cardinality(S \ {x}) = Cardinality(S) - 1
    BY <1>1, FS_RemoveElement, Zenon
  <2> QED BY <2>1, <2>2, <2>3, <2>4, Zenon
<1>2. \A n \in Nat : IsFiniteSet(1..n) BY FS_Interval
<1> QED BY <1>1, <1>2, Zenon DEF Cardinals

LEMMA SafeInit == CacheAssumption /\ Init => Safe
<1> SUFFICES ASSUME CacheAssumption, Init PROVE Safe
  OBVIOUS
<1>1. Types
  <2>1. ObjTypes BY DEF Init, ObjTypes
  <2>2. StoreTypes
    <3>1. <<>> \in Seq(Obj) OBVIOUS
    <3>2. objList \in [Lists -> Seq(Obj)] BY <3>1, Zenon DEF Init
    <3>3. /\ hash = <<>> /\ file = {} /\ lost = {} /\ dropDead = {}
          /\ mem_count = 0 /\ disk_count = 0 /\ clean_blocked = FALSE
      BY Zenon DEF Init
    <3>4. hash \in Seq(Obj) BY <3>1, <3>3, Zenon
    <3>5. mem_count \in Int /\ disk_count \in Int BY <3>3
    <3>6. file \subseteq Obj /\ lost \subseteq Obj /\ dropDead \subseteq Lists /\ clean_blocked \in BOOLEAN
      BY <3>3, Zenon
    <3> QED BY <3>2, <3>4, <3>5, <3>6, Zenon DEF StoreTypes
  <2>3. RqTypes BY Zenon DEF Init, RqTypes, RqPCs
  <2>4. ActorTypes
    <3>1. <<>> \in Seq(Picked) OBVIOUS
    <3> QED BY <3>1, Zenon DEF Init, ActorTypes, Collection, Killing, Lists
  <2> QED BY <2>1, <2>2, <2>3, <2>4, Zenon DEF Types
<1>2. Chained = {} /\ \A l \in Lists : Range(objList[l]) = {}
  BY DEF Init, Chained, Range
<1>3. ListsMatchChain
  <2>1. IsInjective(hash) /\ \A l \in Lists : IsInjective(objList[l])
    BY DEF Init, IsInjective
  <2> QED BY <1>2, <2>1, Zenon DEF ListsMatchChain, Chained, Lists
<1>4. \A o \in Obj : Holders(o) = {} /\ ~Freeing(o)
  BY Zenon DEF Init, Holders, Freeing, CacheAssumption
<1>5. RefsExact
  <2> SUFFICES ASSUME NEW o \in Obj PROVE RefsOf(o)
    BY RefsAre, Zenon
  <2>1. refs[o] = 0 /\ life[o] = "unused" BY Zenon DEF Init
  <2>2. Cardinality(Holders(o)) = 0 /\ ~CacheRef(o) BY <1>2, <1>4, FS_EmptySet, Zenon DEF CacheRef
  <2> QED BY <2>1, <2>2 DEF RefsOf
<1>6. Places
  BY Zenon DEF Init, Places, Placed, Looking
<1>7. Killings
  BY Zenon DEF Init, Killings
<1>8. Passes
  BY DEF Init, Passes, FreedOnce, Passing
<1>9. Bodies
  <2>1. \A o : ~InList("mem", o) BY <1>2, Zenon DEF InList, Lists
  <2> QED BY <2>1, Zenon DEF Init, Bodies
<1>10. OneReader
  BY Zenon DEF Init, OneReader
<1>11. ServedHasBody
  <2>1. OneSwapper BY Zenon DEF Init, OneSwapper, CacheAssumption
  <2> QED BY <2>1, Zenon DEF Init, ServedHasBody
<1> QED BY <1>1, <1>3, <1>5, <1>6, <1>7, <1>8, <1>9, <1>10, <1>11, CardinalsHold, Zenon DEF Safe, Known

LEMMA SafeStutters == Safe /\ UNCHANGED vars => Safe'
<1> SUFFICES ASSUME Safe, UNCHANGED vars PROVE Safe'
  OBVIOUS
<1> USE DEF vars, objVars, diskVars, setVars, sizeVars, rqVars
<1>1. Types' BY Zenon DEF Safe, Known, Types, ObjTypes, StoreTypes, RqTypes, ActorTypes
<1>2. ListsMatchChain' BY Zenon DEF Safe, Known, ListsMatchChain
<1>3. RefsExact' BY Zenon DEF Safe, Known, RefsExact, Holders, Freeing, At
<1>4. Places' BY Zenon DEF Safe, Known, Places, Placed, Chained
<1>5. Killings' BY Zenon DEF Safe, Known, Killings, Chained
<1>6. Passes'
  <2>1. Chained' = Chained /\ \A o \in Obj : life'[o] = life[o]
    BY Zenon DEF Chained
  <2> QED BY <2>1, PassesOther, Zenon DEF Safe, Known
<1>7. Bodies' BY Zenon DEF Safe, Bodies, InMem, InList, ObjLockFree
<1>8. OneReader' BY Zenon DEF Safe, OneReader
<1>9. ServedHasBody' BY ZenonT(30) DEF Safe, ServedHasBody, OneSwapper
<1> QED BY <1>1, <1>2, <1>3, <1>4, <1>5, <1>6, <1>7, <1>8, <1>9, Zenon DEF Safe, Known

LEMMA SafeStep == Safe /\ [Next]_vars => Safe'
<1> SUFFICES ASSUME Safe, [Next]_vars PROVE Safe'
  OBVIOUS
<1> USE DEF Safe, Known
<1>1. ASSUME NEW r \in Rq, RequestStep(r) PROVE Safe'
  <2>1. Types' BY <1>1, RequestTypes, Zenon
  <2>2. ListsMatchChain' /\ Chained \subseteq Chained' BY <1>1, RequestChain, Zenon
  <2>3. RefsExact' BY <1>1, RefsRequest, Zenon
  <2>4. Places' BY <1>1, PlacesRequest, Zenon DEF ServedHasBody
  <2>5. killer' = killer
    BY <1>1, ZenonT(30) DEF RequestStep, Find, Miss, Check, SwapInObject, SwapIn, Notice, NoticeCount,
       NoticeWake, Failed, Fresh, Expired, NotModified, KeepBoth, DeadOldObj, DropOldObj,
       StoreRate, StoreDead, StoreNew, StoreSkip, Release
  <2>6. Killings' BY <2>2, <2>5, KillingsOther, Zenon
  <2>7. Passes' BY <1>1, PassesRequest, Zenon
  <2>8. Bodies' BY <1>1, BodiesRequest, Zenon
  <2>9. OneSwapper' /\ OneReader' BY <1>1, SwapperRequest, Zenon
  <2>10. ServedHasBody'
    <3>1. \A q \in Rq : Served(q)' BY <1>1, ServedRequest, Zenon
    <3> QED BY <2>9, <3>1, Zenon DEF ServedHasBody, Served
  <2> QED BY <2>1, <2>2, <2>3, <2>4, <2>6, <2>7, <2>8, <2>9, <2>10, Zenon
<1>2. ASSUME NEW c \in Collectors, FlushBegin(c) \/ Collect(c) \/ CollectorStep(c) PROVE Safe'
  <2>1. Types' BY <1>2, CollectorTypes, Zenon
  <2>2. ListsMatchChain' BY <1>2, CollectorChain, Zenon
  <2>3. RefsExact' BY <1>2, RefsCollector, Zenon
  <2>4. UNCHANGED rqVars /\ killer' = killer
    BY <1>2, Zenon DEF CollectorStep, FlushBegin, Collect, SwapoutHead, SwapoutBody, SwapoutTrue,
       SwapoutFalse, FreeObj
  <2>5. \A o \in Chained : o \in Chained' \/ Holders(o) = {}
    BY <1>2, EntriesAfter, ChainedAreObjects, Zenon
  <2>6. Places' BY <2>4, <2>5, PlacesOther, Zenon
  <2>7. Chained \subseteq Chained' \/ (CacheLockFree /\ HashLockFree)
    <3>1. CASE SwapoutFalse(c) BY <3>1, Zenon DEF SwapoutFalse
    <3>2. CASE ~SwapoutFalse(c) BY <1>2, <3>2, CollectorChain, Zenon
    <3> QED BY <3>1, <3>2, Zenon
  <2>8. Killings' BY <2>4, <2>7, KillingsOther, Zenon
  <2>9. Passes' BY <1>2, PassesCollector, Zenon
  <2>10. OneReader' /\ ServedHasBody' /\ Bodies' BY <1>2, SafeCollector, Zenon
  <2> QED BY <2>1, <2>2, <2>3, <2>6, <2>8, <2>9, <2>10, Zenon
<1>3. ASSUME NEW k \in Killers, Purge(k) \/ CleanCache(k) \/ KillerStep(k) PROVE Safe'
  <2>1. Types' BY <1>3, KillerTypes, Zenon
  <2>2. ListsMatchChain' /\ Chained' = Chained BY <1>3, KillerChain, Zenon
  <2>3. RefsExact' BY <1>3, RefsKiller, Zenon
  <2>4. UNCHANGED <<rqVars, gc>> /\ life' = life
    BY <1>3, Zenon DEF KillerStep, Purge, CleanCache, DeadRead, DeadWrite, objVars
  <2>5. Places' BY <2>2, <2>4, PlacesOther, Zenon
  <2>6. Killings' BY <1>3, KillingsKiller, Zenon
  <2>7. Passes' BY <2>2, <2>4, PassesOther, Zenon
  <2>8. OneReader' /\ ServedHasBody' /\ Bodies' BY <1>3, SafeKiller, Zenon
  <2> QED BY <2>1, <2>2, <2>3, <2>5, <2>6, <2>7, <2>8, Zenon
<1>4. ASSUME NEW o \in Obj, LoadIndex(o) PROVE Safe'
  <2>1. Types' BY <1>4, LoadIndexTypes, Zenon
  <2>2. ListsMatchChain' /\ Chained' = Chained \cup {o} BY <1>4, LoadChain, Zenon
  <2>3. RefsExact' BY <1>4, RefsLoad, Zenon
  <2>4. UNCHANGED <<rqVars, gc>> /\ killer' = killer /\ life[o] = "unused"
    BY <1>4, Zenon DEF LoadIndex
  <2>5. \A x \in Obj : life[x] # "unused" => life'[x] # "unused"
    BY <1>4, Zenon DEF LoadIndex, Types, ObjTypes
  <2>6. Chained \subseteq Chained' /\ \A x \in Chained' : x \in Chained \/ life[x] = "unused"
    BY <2>2, <2>4, Zenon
  <2>7. Places' BY <2>4, <2>6, PlacesOther, Zenon
  <2>8. Killings' BY <2>4, <2>6, KillingsOther, Zenon
  <2>9. Passes' BY <2>4, <2>5, <2>6, PassesOther, Zenon
  <2>10. OneReader' /\ ServedHasBody' /\ Bodies' BY <1>4, SafeLoad, Zenon
  <2> QED BY <2>1, <2>2, <2>3, <2>7, <2>8, <2>9, <2>10, Zenon
<1>5. ASSUME UNCHANGED vars PROVE Safe'
  BY <1>5, SafeStutters, Zenon
<1> QED BY <1>1, <1>2, <1>3, <1>4, <1>5, Zenon DEF Next

\* The invariant holds throughout.
THEOREM SafeHolds == Spec => []Safe
BY CacheAssumption, SafeInit, SafeStep, PTL DEF Spec

\* KHttpObject::addRef, release and KHttpObjectHash::put: a reference count is the
\* number of requests that hold the object plus one for the cache, and an object is
\* freed exactly when that is zero, whoever else looks it up, stores, purges or
\* collects meanwhile.
THEOREM ReferencesExact == Spec => []RefsExact
<1>1. Safe => RefsExact BY DEF Safe, Known
<1> QED BY <1>1, SafeHolds, PTL

\* KCache::rate, KCache::dead, KCache::add and swapout_result keep the chain and
\* the two lists holding the same objects, each once.
THEOREM ChainMatchesLists == Spec => []ListsMatchChain
<1>1. Safe => ListsMatchChain BY DEF Safe, Known
<1> QED BY <1>1, SafeHolds, PTL

\* swap_in_object: a request that goes on to send an object has its body in memory,
\* one request at a time reads a body, and those that wait, wait for that one.
THEOREM BodiesServed == Spec => []ServedHasBody
<1>1. Safe => ServedHasBody BY DEF Safe
<1> QED BY <1>1, SafeHolds, PTL

\* The counters then cover what KHttpObjectHash::remove takes from them.
LEMMA CountsCover ==
  ASSUME Safe, Counts
  PROVE  CountersCover
<1> USE DEF Safe, Known
<1> DEFINE Marked == {o \in Chained : "IN_MEM" \in flags[o]}
           Late == {r \in Rq : pc[r] = "count"}
           Due == {o \in Obj : \E r \in Late : obj[r] = o}
           OnDisk == {o \in Chained : "IN_DISK" \in flags[o]}
<1>1. /\ IsFiniteSet(MemDue) /\ IsFiniteSet(DiskDue) /\ IsFiniteSet(Late) /\ IsFiniteSet(Due)
      /\ IsFiniteSet(Marked) /\ IsFiniteSet(OnDisk)
  <2>1. IsFiniteSet(Rq) /\ IsFiniteSet(Obj) /\ Chained \subseteq Obj
    BY ChainedAreObjects, Zenon DEF CacheAssumption
  <2>2. Late \subseteq Rq /\ Due \subseteq Obj /\ Marked \subseteq Obj /\ OnDisk \subseteq Obj
    BY <2>1, Zenon
  <2> HIDE DEF Late, Due, Marked, OnDisk
  <2> QED BY <2>1, <2>2, FS_Subset, DueFinite, Zenon
<1>2. Cardinality(Due) <= Cardinality(Late)
  <2> DEFINE f == [r \in Late |-> obj[r]]
  <2>1. \A r \in Late : obj[r] \in Obj
    BY ChainedAreObjects, Zenon DEF Places, Placed, Looking
  <2>2. \A o \in Due : \E r \in Late : f[r] = o
    OBVIOUS
  <2>3. f \in [Late -> Due]
    BY <2>1, Zenon
  <2>4. f \in Surjection(Late, Due)
    <3> HIDE DEF f, Late, Due
    <3> QED BY <2>2, <2>3, Zenon DEF Surjection
  <2> HIDE DEF f, Late, Due
  <2> QED BY <1>1, <2>4, FS_Surjection, Zenon
<1>3. Marked \subseteq MemDue \cup Due
  <2> SUFFICES ASSUME NEW o \in Chained, "IN_MEM" \in flags[o], o \notin Due PROVE o \in MemDue
    OBVIOUS
  <2>1. o \in Obj BY ChainedAreObjects, Zenon
  <2>2. data[o] = "mem" /\ ObjLockFree(o) BY <2>1, Zenon DEF Bodies, InMem
  <2>3. \A r \in Rq : ~Uncounted(r, o) BY <2>1, <2>2, Zenon DEF Uncounted, ObjLockFree
  <2> QED BY <2>2, <2>3, MemDueIs, Zenon
<1>4. Cardinality(Marked) <= Cardinality(MemDue) + Cardinality(Due)
  <2> HIDE DEF Marked, Late, Due, OnDisk
  <2>1. /\ IsFiniteSet(MemDue \cup Due)
        /\ Cardinality(MemDue \cup Due) = Cardinality(MemDue) + Cardinality(Due) - Cardinality(MemDue \cap Due)
    BY <1>1, FS_Union, Zenon
  <2>2. IsFiniteSet(MemDue \cap Due)
    BY <1>1, FS_Intersection, Zenon
  <2>3. Cardinality(Marked) <= Cardinality(MemDue \cup Due)
    BY <1>3, <2>1, FS_Subset, Zenon
  <2>4. /\ Cardinality(Marked) \in Nat /\ Cardinality(MemDue) \in Nat /\ Cardinality(Due) \in Nat
        /\ Cardinality(MemDue \cap Due) \in Nat
    BY <1>1, <2>2, FS_CardinalityType, Zenon
  <2> QED BY <2>1, <2>3, <2>4, SMTT(30)
<1>5. mem_count + Cardinality(Late) >= Cardinality(Marked)
  <2> HIDE DEF Marked, Late, Due, OnDisk
  <2>1. /\ Cardinality(Marked) \in Nat /\ Cardinality(MemDue) \in Nat /\ Cardinality(Due) \in Nat
        /\ Cardinality(Late) \in Nat
    BY <1>1, FS_CardinalityType, Zenon
  <2>2. mem_count \in Int /\ mem_count >= Cardinality(MemDue) BY DueFinite, Zenon DEF Counts
  <2> QED BY <1>2, <1>4, <2>1, <2>2, SMTT(30)
<1>6. disk_count >= Cardinality(OnDisk)
  <2>1. OnDisk \subseteq DiskDue BY DEF DiskDue
  <2> HIDE DEF OnDisk
  <2> QED BY <2>1, DueFinite, Covers, Zenon DEF Counts
<1>7. TypeOK
  <2>1. refs \in [Obj -> Nat]
    BY HeldFacts, Zenon DEF Types, ObjTypes
  <2>2. mem_count \in Nat /\ disk_count \in Nat
    <3>1. Cardinality(MemDue) \in Nat /\ Cardinality(DiskDue) \in Nat
      BY <1>1, FS_CardinalityType, Zenon
    <3> QED BY <3>1, DueFinite DEF Counts
  <2> QED BY <2>1, <2>2, Zenon DEF TypeOK, Types, ObjTypes, StoreTypes, RqTypes, ActorTypes
<1> QED BY <1>5, <1>6, <1>7, Zenon DEF CountersCover, Chained

-----------------------------------------------------------------------------
(* The theorems *)

CountedInv == Safe /\ Filed /\ DroppedHasFile /\ Counts

LEMMA CountedInit == CacheAssumption /\ Init => CountedInv
<1> SUFFICES ASSUME CacheAssumption, Init PROVE CountedInv
  OBVIOUS
<1>1. Safe BY SafeInit, Zenon
<1>2. Chained = {} /\ Range(hash) = {} /\ mem_count = 0 /\ disk_count = 0
  BY DEF Init, Chained, Range
<1>3. DroppedHasFile BY <1>2, Zenon DEF DroppedHasFile
<1>4. Filed
  <2>1. (\A k \in Killers : killer[k].at = NULL) /\ \A c \in Collectors : gc[c].pc = "idle"
    BY Zenon DEF Init
  <2>2. \A r \in Rq : pc[r] = "start" BY Zenon DEF Init
  <2> QED BY <1>2, <2>1, <2>2, Zenon DEF Filed
<1>5. Counts
  <2>1. MemDue = {} /\ DiskDue = {} BY <1>2, Zenon DEF MemDue, DiskDue
  <2> QED BY <1>2, <2>1, FS_EmptySet, SMTT(30) DEF Counts
<1> QED BY <1>1, <1>3, <1>4, <1>5, Zenon DEF CountedInv

LEMMA CountedStutters == CountedInv /\ UNCHANGED vars => CountedInv'
<1> SUFFICES ASSUME CountedInv, UNCHANGED vars PROVE CountedInv'
  OBVIOUS
<1>1. Safe' BY SafeStutters, Zenon DEF CountedInv
<1> USE DEF vars, objVars, diskVars, setVars, sizeVars, rqVars
<1>2. Filed' BY Zenon DEF CountedInv, Filed, At, Chained
<1>3. DroppedHasFile' BY Zenon DEF CountedInv, DroppedHasFile
<1>4. Counts'
  <2>1. MemDue' = MemDue /\ DiskDue' = DiskDue
    BY Zenon DEF MemDue, DiskDue, Chained, At
  <2> QED BY <2>1, Zenon DEF CountedInv, Counts
<1> QED BY <1>1, <1>2, <1>3, <1>4, Zenon DEF CountedInv

LEMMA CountedStep == CountedInv /\ [Next]_vars => CountedInv'
<1> SUFFICES ASSUME CountedInv, [Next]_vars PROVE CountedInv'
  OBVIOUS
<1> USE DEF CountedInv
<1>0. Safe' BY SafeStep, ZenonT(30)
<1>1. ASSUME NEW r \in Rq, RequestStep(r) PROVE CountedInv'
  <2>1. Filed' /\ DroppedHasFile' BY <1>1, FiledRequest, Zenon
  <2>2. Counts' BY <1>1, CountsRequest, Zenon
  <2> QED BY <1>0, <2>1, <2>2, Zenon
<1>2. ASSUME NEW c \in Collectors, FlushBegin(c) \/ Collect(c) \/ CollectorStep(c) PROVE CountedInv'
  <2>1. Filed' /\ DroppedHasFile' BY <1>2, FiledCollector, Zenon
  <2>2. Counts' BY <1>2, CountsCollector, Zenon
  <2> QED BY <1>0, <2>1, <2>2, Zenon
<1>3. ASSUME NEW k \in Killers, Purge(k) \/ CleanCache(k) \/ KillerStep(k) PROVE CountedInv'
  <2>1. Filed' /\ DroppedHasFile' BY <1>3, FiledKiller, Zenon
  <2>2. Counts' BY <1>3, CountsKiller, Zenon
  <2> QED BY <1>0, <2>1, <2>2, Zenon
<1>4. ASSUME NEW o \in Obj, LoadIndex(o) PROVE CountedInv'
  <2>1. Filed' /\ DroppedHasFile' BY <1>4, FiledLoad, Zenon
  <2>2. Counts' BY <1>4, CountsLoad, Zenon
  <2> QED BY <1>0, <2>1, <2>2, Zenon
<1>5. ASSUME UNCHANGED vars PROVE CountedInv'
  BY <1>5, CountedStutters, Zenon
<1> QED BY <1>1, <1>2, <1>3, <1>4, <1>5, Zenon DEF Next

\* The invariant of this module holds throughout.
THEOREM CountedHolds == Spec => []CountedInv
BY CacheAssumption, CountedInit, CountedStep, PTL DEF Spec

\* KHttpObject::swapout drops a body from memory only once it is in a cache file:
\* an object of the chain without its body in memory has its file, or is one whose
\* swapout_failed lost it.
THEOREM BodiesOnDisk == Spec => []DroppedHasFile
<1>1. CountedInv => DroppedHasFile BY DEF CountedInv
<1> QED BY <1>1, CountedHolds, PTL

\* KCache::IncMemObjectSize, DecMemObjectSize and the disk counterparts: whatever
\* the order of swap-in, swap-out, store and removal, the counters stay natural
\* numbers and cover the objects whose flags will make a removal decrement them.
THEOREM CountersSuffice == Spec => []CountersCover
<1>1. CountedInv => CountersCover BY CountsCover DEF CountedInv
<1> QED BY <1>1, CountedHolds, PTL

LEMMA SteadyStep == OneCollector /\ Safe /\ Steady /\ [Next]_vars => Steady'
<1> SUFFICES ASSUME OneCollector, Safe, Steady, [Next]_vars PROVE Steady'
  OBVIOUS
<1>0. Known BY Zenon DEF Safe
<1>1. ASSUME NEW r \in Rq, RequestStep(r) PROVE Steady'
  <2>1. \A o \in Obj : data[o] = "mem" => data'[o] = "mem" BY <1>1, DataRequest, Zenon
  <2>2. Chained \subseteq Chained' BY <1>0, <1>1, RequestChain, Zenon
  <2>3. gc' = gc
    BY <1>1, ZenonT(30) DEF RequestStep, Find, Miss, Check, SwapInObject, SwapIn, Notice, NoticeCount,
       NoticeWake, Failed, Fresh, Expired, NotModified, KeepBoth, DeadOldObj, DropOldObj,
       StoreRate, StoreDead, StoreNew, StoreSkip, Release
  <2> QED BY <1>0, <2>1, <2>2, <2>3, SteadyOther, Zenon
<1>2. ASSUME NEW c \in Collectors, FlushBegin(c) \/ Collect(c) \/ CollectorStep(c) PROVE Steady'
  BY <1>2, SteadyCollector, Zenon
<1>3. ASSUME NEW k \in Killers, Purge(k) \/ CleanCache(k) \/ KillerStep(k) PROVE Steady'
  <2>1. data' = data /\ gc' = gc
    BY <1>3, Zenon DEF KillerStep, Purge, CleanCache, DeadRead, DeadWrite, objVars
  <2>2. Chained' = Chained BY <1>0, <1>3, KillerChain, Zenon
  <2> QED BY <1>0, <2>1, <2>2, SteadyOther, Zenon
<1>4. ASSUME NEW o \in Obj, LoadIndex(o) PROVE Steady'
  <2>1. data' = data /\ gc' = gc BY <1>4, Zenon DEF LoadIndex
  <2>2. Chained \subseteq Chained' BY <1>0, <1>4, LoadChain, Zenon
  <2> QED BY <1>0, <2>1, <2>2, SteadyOther, Zenon
<1>5. ASSUME UNCHANGED vars PROVE Steady'
  BY <1>5, Zenon DEF vars, objVars, setVars, Steady, Chained
<1> QED BY <1>1, <1>2, <1>3, <1>4, <1>5, Zenon DEF Next

\* KCache::flush run by one thread at a time: what KObjectList::move picked is
\* still allocated when the collector comes back to it, and what it is to swap out
\* still has its body.  With two collectors this fails.
THEOREM PicksStayUsable == OneCollector => (Spec => []PickedUsable)
<1> SUFFICES ASSUME OneCollector PROVE Spec => []PickedUsable
  OBVIOUS
<1>1. Init => Steady
  BY DEF Init, Steady
<1>2. Safe /\ Steady /\ [Next]_vars => Steady'
  BY SteadyStep
<1>3. Safe /\ Steady => PickedUsable
  BY SteadyIsUsable DEF Safe
<1> QED BY <1>1, <1>2, <1>3, SafeHolds, PTL DEF Spec

=============================================================================
