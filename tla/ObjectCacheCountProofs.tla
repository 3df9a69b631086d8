----------------------- MODULE ObjectCacheCountProofs -----------------------
(***************************************************************************)
(* The reference counts of the objects and the counters of the cache.      *)
(***************************************************************************)
EXTENDS ObjectCacheBodyProofs

\* The objects that mem_count and disk_count stand for.
MemDue ==
  {o \in Chained : data[o] = "mem" /\ \A r \in Rq :
     obj[r] = o => pc[r] # "count" /\ ~(pc[r] = "notice" /\ swapped[r])}
DiskDue ==
  {o \in Chained : "IN_DISK" \in flags[o] \/ \E c \in Collectors : gc[c].pc = "moved" /\ At(c) = o}
Counts == mem_count >= Cardinality(MemDue) /\ disk_count >= Cardinality(DiskDue)

-----------------------------------------------------------------------------
(* Cardinalities *)

LEMMA EmptyCounts == Cardinals => Cardinality({}) = 0
<1>1. Cardinals => IsFiniteSet(1..0) /\ 1..0 = {}
  BY DEF Cardinals
<1> QED BY <1>1, Zenon DEF Cardinals

\* A counter that covers a set covers what one more, or one less, makes of it.
LEMMA Covers ==
  ASSUME Cardinals, NEW S, IsFiniteSet(S), NEW T, NEW n \in Int, n >= Cardinality(S)
  PROVE  /\ T \subseteq S => n >= Cardinality(T)
         /\ \A x : T \subseteq S \cup {x} => n + 1 >= Cardinality(T)
         /\ \A x \in S : T \subseteq S \ {x} => n - 1 >= Cardinality(T)
<1>1. Cardinality(S) \in Nat BY Zenon DEF Cardinals
<1>2. ASSUME NEW U, IsFiniteSet(U), T \subseteq U
      PROVE  Cardinality(T) <= Cardinality(U) /\ Cardinality(T) \in Nat /\ Cardinality(U) \in Nat
  <2>1. T \in SUBSET U BY <1>2
  <2> QED BY <1>2, <2>1, Zenon DEF Cardinals
<1>3. ASSUME T \subseteq S PROVE n >= Cardinality(T)
  BY <1>1, <1>2, <1>3
<1>4. ASSUME NEW x, T \subseteq S \cup {x} PROVE n + 1 >= Cardinality(T)
  <2>1. IsFiniteSet(S \cup {x}) /\ Cardinality(S \cup {x}) <= Cardinality(S) + 1
    <3>1. CASE x \in S
      <4>1. S \cup {x} = S BY <3>1
      <4> QED BY <1>1, <4>1
    <3>2. CASE x \notin S
      <4>1. IsFiniteSet(S \cup {x}) /\ Cardinality(S \cup {x}) = Cardinality(S) + 1
        BY <3>2, Zenon DEF Cardinals
      <4> QED BY <1>1, <4>1
    <3> QED BY <3>1, <3>2, Zenon
  <2> QED BY <1>1, <1>2, <1>4, <2>1
<1>5. ASSUME NEW x \in S, T \subseteq S \ {x} PROVE n - 1 >= Cardinality(T)
  <2>1. IsFiniteSet(S \ {x}) /\ Cardinality(S \ {x}) = Cardinality(S) - 1
    <3>1. S \ {x} \in SUBSET S OBVIOUS
    <3> QED BY <3>1, Zenon DEF Cardinals
  <2> QED BY <1>1, <1>2, <1>5, <2>1
<1> QED BY <1>3, <1>4, <1>5, Zenon

-----------------------------------------------------------------------------
(* References *)

CacheRef(o) == o \in Chained \/ Freeing(o)
RefsOf(o) ==
  /\ refs[o] = Cardinality(Holders(o)) + (IF CacheRef(o) THEN 1 ELSE 0)
  /\ life[o] = "live" <=> refs[o] > 0

LEMMA RefsAre == RefsExact <=> \A o \in Obj : RefsOf(o)
BY DEF RefsExact, RefsOf, CacheRef, Chained

LEMMA RefsAreNext == (\A o \in Obj : RefsOf(o)') => RefsExact'
BY DEF RefsExact, RefsOf, CacheRef, Chained

\* A request that takes or gives up an object is one holder more or less.
LEMMA HoldersCount ==
  ASSUME CacheAssumption, Cardinals, Types, NEW r \in Rq, RequestStep(r), NEW o
  PROVE  /\ Cardinality(Holders(o)) \in Nat
         /\ (r \in Holders(o)' <=> r \in Holders(o)) => Holders(o)' = Holders(o)
         /\ r \notin Holders(o) /\ r \in Holders(o)' =>
              Cardinality(Holders(o)') = Cardinality(Holders(o)) + 1
         /\ r \in Holders(o) /\ r \notin Holders(o)' =>
              Cardinality(Holders(o)') = Cardinality(Holders(o)) - 1
<1>1. IsFiniteSet(Holders(o))
  <2>1. Holders(o) \in SUBSET Rq BY DEF Holders
  <2> QED BY <2>1, Zenon DEF Cardinals, CacheAssumption
<1>2. \A q \in Rq : q # r => (q \in Holders(o)' <=> q \in Holders(o))
  BY OthersKeep, Zenon DEF Holders
<1>3. Holders(o) \subseteq Rq /\ Holders(o)' \subseteq Rq
  BY DEF Holders
<1>4. Cardinality(Holders(o)) \in Nat
  BY <1>1, Zenon DEF Cardinals
<1>5. ASSUME r \in Holders(o)' <=> r \in Holders(o) PROVE Holders(o)' = Holders(o)
  BY <1>2, <1>3, <1>5
<1>6. ASSUME r \notin Holders(o), r \in Holders(o)'
      PROVE  Cardinality(Holders(o)') = Cardinality(Holders(o)) + 1
  <2>1. Holders(o)' = Holders(o) \cup {r} BY <1>2, <1>3, <1>6, Zenon
  <2> QED BY <1>1, <1>6, <2>1, ZenonT(30) DEF Cardinals
<1>7. ASSUME r \in Holders(o), r \notin Holders(o)'
      PROVE  Cardinality(Holders(o)') = Cardinality(Holders(o)) - 1
  <2>1. Holders(o)' = Holders(o) \ {r} BY <1>2, <1>3, <1>7, Zenon
  <2> QED BY <1>1, <1>7, <2>1, ZenonT(30) DEF Cardinals
<1> QED BY <1>4, <1>5, <1>6, <1>7, Zenon

LEMMA RefsKept ==
  ASSUME Known, NEW o \in Obj, refs'[o] = refs[o], life'[o] = life[o], Holders(o)' = Holders(o),
         CacheRef(o)' <=> CacheRef(o)
  PROVE  RefsOf(o)'
<1>1. RefsOf(o) BY RefsAre, Zenon DEF Known
<1> QED BY <1>1, Zenon DEF RefsOf

\* An object that was never allocated is held by nobody.
LEMMA UnusedFacts ==
  ASSUME Known, NEW o \in Obj, life[o] = "unused"
  PROVE  refs[o] = 0 /\ Holders(o) = {} /\ ~CacheRef(o)
<1>1. RefsOf(o) BY RefsAre, Zenon DEF Known
<1>2. life[o] # "live" /\ refs[o] \in Nat /\ Cardinality(Holders(o)) \in Nat
  BY HeldFacts, Zenon DEF Known
<1>3. refs[o] = 0 BY <1>1, <1>2 DEF RefsOf
<1> QED BY <1>2, <1>3, HeldFacts, Zenon DEF Known, CacheRef

LEMMA FreeingNotHeld ==
  ASSUME Known, NEW o \in Obj, Freeing(o)
  PROVE  o \notin Chained /\ Holders(o) = {}
<1>1. PICK c \in Collectors : gc[c].pc = "free" /\ At(c) = o BY DEF Freeing
<1>2. At(c) \notin Chained BY <1>1, Zenon DEF Known, Passes, Passing
<1> QED BY <1>1, <1>2, AtObject, Zenon

LEMMA RefsRequest ==
  ASSUME Known, NEW r \in Rq, RequestStep(r)
  PROVE  RefsExact'
<1> USE DEF Known
<1> SUFFICES ASSUME NEW o \in Obj PROVE RefsOf(o)'
  BY RefsAreNext, Zenon
<1>1. /\ refs \in [Obj -> Int] /\ life \in [Obj -> {"unused", "live", "freed"}]
      /\ obj \in [Rq -> Obj \cup {NULL}] /\ old_obj \in [Rq -> Obj \cup {NULL}] /\ NULL \notin Obj
      /\ pc \in [Rq -> RqPCs] /\ Chained \subseteq Obj /\ Placed(r)
      /\ RefsOf(o) /\ Cardinality(Holders(o)) \in Nat
  BY RefsAre, ChainedAreObjects, HeldFacts, Zenon DEF Types, ObjTypes, RqTypes, CacheAssumption, Places
<1>2. /\ r \in Holders(o) <=> obj[r] = o \/ old_obj[r] = o
      /\ r \in Holders(o)' <=> obj'[r] = o \/ old_obj'[r] = o
  BY Zenon DEF Holders
<1>3. Freeing(o)' <=> Freeing(o)
  <2>1. gc' = gc
    BY ZenonT(30) DEF RequestStep, Find, Miss, Check, SwapInObject, SwapIn, Notice, NoticeCount,
       NoticeWake, Failed, Fresh, Expired, NotModified, KeepBoth, DeadOldObj, DropOldObj,
       StoreRate, StoreDead, StoreNew, StoreSkip, Release
  <2> QED BY <2>1, Zenon DEF Freeing, At
<1>4. ~StoreNew(r) => (CacheRef(o)' <=> CacheRef(o))
  BY <1>3, RequestChain, Zenon DEF CacheRef
<1>5. ASSUME refs'[o] = refs[o], life'[o] = life[o], r \in Holders(o)' <=> r \in Holders(o), ~StoreNew(r)
      PROVE  RefsOf(o)'
  <2>1. Holders(o)' = Holders(o) BY <1>5, HoldersCount, Zenon
  <2> QED BY <1>4, <1>5, <2>1, RefsKept, Zenon
\* The holder r of o gives it up.
<1>6. ASSUME NEW x \in Obj, Unref(x), ~StoreNew(r), r \in Holders(x), r \notin Holders(x)',
             x # o => (r \in Holders(o)' <=> r \in Holders(o))
      PROVE  RefsOf(o)'
  <2>1. CASE o # x
    <3>1. refs'[o] = refs[o] /\ life'[o] = life[o] BY <1>1, <1>6, <2>1, Zenon DEF Unref
    <3> QED BY <1>5, <1>6, <2>1, <3>1, Zenon
  <2>2. CASE o = x
    <3>1. refs'[o] = refs[o] - 1 /\ life'[o] = (IF refs[o] = 1 THEN "freed" ELSE life[o])
      BY <1>1, <1>6, <2>2, Zenon DEF Unref
    <3>2. Cardinality(Holders(o)') = Cardinality(Holders(o)) - 1
      BY <1>6, <2>2, HoldersCount, Zenon
    <3>3. life[o] = "live" BY <1>6, <2>2, HeldFacts, Zenon
    <3>4. refs[o] > 0 /\ refs[o] \in Int BY <1>1, <3>3, Zenon DEF RefsOf
    <3>5. refs'[o] = Cardinality(Holders(o)') + (IF CacheRef(o)' THEN 1 ELSE 0)
      <4>1. refs[o] = Cardinality(Holders(o)) + (IF CacheRef(o) THEN 1 ELSE 0) BY <1>1, Zenon DEF RefsOf
      <4>2. CacheRef(o)' <=> CacheRef(o) BY <1>4, <1>6, Zenon
      <4>3. CASE CacheRef(o) BY <1>1, <3>1, <3>2, <4>1, <4>2, <4>3, SMTT(30)
      <4>4. CASE ~CacheRef(o) BY <1>1, <3>1, <3>2, <4>1, <4>2, <4>4, SMTT(30)
      <4> QED BY <4>3, <4>4, Zenon
    <3>6. life'[o] = "live" <=> refs'[o] > 0
      BY <3>1, <3>3, <3>4
    <3> QED BY <3>5, <3>6, Zenon DEF RefsOf
  <2> QED BY <2>1, <2>2, Zenon
\* The request r gets a new object.
<1>7. ASSUME NEW x \in Obj, Allocated(x), refs' = [refs EXCEPT ![x] = 1], ~StoreNew(r), r \in Holders(x)',
             x # o => (r \in Holders(o)' <=> r \in Holders(o))
      PROVE  RefsOf(o)'
  <2>1. CASE o # x
    <3>1. refs'[o] = refs[o] /\ life'[o] = life[o] BY <1>1, <1>7, <2>1, Zenon DEF Allocated
    <3> QED BY <1>5, <1>7, <2>1, <3>1, Zenon
  <2>2. CASE o = x
    <3>1. refs'[o] = 1 /\ life'[o] = "live" /\ life[o] = "unused" BY <1>1, <1>7, <2>2, Zenon DEF Allocated
    <3>2. refs[o] = 0 /\ Holders(o) = {} /\ ~CacheRef(o) BY <3>1, UnusedFacts, Zenon
    <3>3. Cardinality(Holders(o)') = Cardinality(Holders(o)) + 1
      BY <1>7, <2>2, <3>2, HoldersCount, Zenon
    <3>4. Cardinality(Holders(o)') = 1
      BY <3>2, <3>3, EmptyCounts, SMTT(30)
    <3>5. ~CacheRef(o)' BY <1>4, <1>7, <3>2, Zenon
    <3> QED BY <3>1, <3>4, <3>5, SMTT(30) DEF RefsOf
  <2> QED BY <2>1, <2>2, Zenon
<1>8. CASE Find(r)
  <2>1. pc[r] = "start" /\ obj[r] = NULL /\ old_obj[r] = NULL /\ old_obj'[r] = NULL /\ life' = life /\ ~StoreNew(r)
    BY <1>1, <1>8, Zenon DEF Find, Placed, StoreNew
  <2>2. CASE refs' = refs /\ obj' = obj
    BY <1>2, <1>5, <2>1, <2>2, Zenon
  <2>3. CASE \E i \in DOMAIN hash : obj' = [obj EXCEPT ![r] = hash[i]] /\ refs' = [refs EXCEPT ![hash[i]] = @ + 1]
    <3>1. PICK i \in DOMAIN hash : obj' = [obj EXCEPT ![r] = hash[i]] /\ refs' = [refs EXCEPT ![hash[i]] = @ + 1]
      BY <2>3, Zenon
    <3>2. hash[i] \in Chained BY ChainedAreObjects, Zenon
    <3>3. PICK x \in Obj : x = hash[i] BY <1>1, <3>2, Zenon
    <3>4. obj'[r] = x /\ refs'[x] = refs[x] + 1 /\ \A y \in Obj : y # x => refs'[y] = refs[y]
      BY <1>1, <3>1, <3>3, Zenon
    <3>5. CASE o # x
      BY <1>1, <1>2, <1>5, <2>1, <3>4, <3>5, Zenon
    <3>6. CASE o = x
      <4>1. r \notin Holders(o) /\ r \in Holders(o)' BY <1>1, <1>2, <2>1, <3>4, <3>6, Zenon
      <4>2. Cardinality(Holders(o)') = Cardinality(Holders(o)) + 1 BY <4>1, HoldersCount, Zenon
      <4>3. CacheRef(o) /\ CacheRef(o)' BY <1>4, <2>1, <3>2, <3>3, <3>6, Zenon DEF CacheRef
      <4>4. refs[o] = Cardinality(Holders(o)) + 1 /\ (life[o] = "live" <=> refs[o] > 0)
        BY <1>1, <4>3, Zenon DEF RefsOf
      <4> QED BY <1>1, <2>1, <3>4, <3>6, <4>2, <4>3, <4>4, SMTT(30) DEF RefsOf
    <3> QED BY <3>5, <3>6, Zenon
  <2> QED BY <1>8, <2>2, <2>3, Zenon DEF Find, Hits
<1>9. CASE Miss(r)
  <2>1. pc[r] = "miss" /\ obj[r] = NULL /\ old_obj[r] = NULL /\ old_obj'[r] = NULL /\ ~StoreNew(r)
    BY <1>1, <1>9, Zenon DEF Miss, Placed, StoreNew
  <2>2. CASE UNCHANGED <<life, refs, obj>>
    BY <1>2, <1>5, <2>1, <2>2, Zenon
  <2>3. ASSUME NEW x \in Obj, Allocated(x), refs' = [refs EXCEPT ![x] = 1], obj' = [obj EXCEPT ![r] = x]
        PROVE  RefsOf(o)'
    <3>1. obj'[r] = x BY <1>1, <2>3, SMTT(30)
    <3>2. r \in Holders(x)' BY <3>1, Zenon DEF Holders
    <3>3. x # o => (r \in Holders(o)' <=> r \in Holders(o)) BY <1>1, <1>2, <2>1, <3>1, Zenon
    <3> QED BY <1>7, <2>1, <2>3, <3>2, <3>3, Zenon
  <2> QED BY <1>9, <2>2, <2>3, Zenon DEF Miss
<1>10. CASE Expired(r)
  <2>1. pc[r] = "serve" /\ old_obj[r] = NULL /\ old_obj'[r] = obj[r] /\ ~StoreNew(r)
    BY <1>1, <1>10, Zenon DEF Expired, Placed, StoreNew, Looking
  <2>2. ASSUME NEW x \in Obj, Allocated(x), refs' = [refs EXCEPT ![x] = 1], obj' = [obj EXCEPT ![r] = x]
        PROVE  RefsOf(o)'
    <3>1. obj'[r] = x BY <1>1, <2>2, SMTT(30)
    <3>2. r \in Holders(x)' BY <3>1, Zenon DEF Holders
    <3>3. x # o => (r \in Holders(o)' <=> r \in Holders(o)) BY <1>1, <1>2, <2>1, <3>1, Zenon
    <3> QED BY <1>7, <2>1, <2>2, <3>2, <3>3, Zenon
  <2> QED BY <1>10, <2>2, Zenon DEF Expired
<1>11. CASE Failed(r) \/ NotModified(r) \/ DropOldObj(r) \/ Release(r)
  <2>1. ~StoreNew(r) BY <1>1, <1>11, Zenon DEF Failed, NotModified, DropOldObj, Release, StoreNew
  <2>2. ASSUME NEW x \in Obj, Unref(x), x \in {obj[r], old_obj[r]}, x \notin {obj'[r], old_obj'[r]},
               \A y \in Obj : y # x => (y \in {obj[r], old_obj[r]} <=> y \in {obj'[r], old_obj'[r]})
        PROVE  RefsOf(o)'
    <3>1. r \in Holders(x) /\ r \notin Holders(x)' BY <2>2, Zenon DEF Holders
    <3>2. x # o => (r \in Holders(o)' <=> r \in Holders(o)) BY <1>2, <2>2, Zenon
    <3> QED BY <1>6, <2>1, <2>2, <3>1, <3>2, ZenonT(30)
  <2>3. CASE Failed(r)
    <3>1. obj[r] \in Obj /\ Unref(obj[r]) /\ obj'[r] = NULL /\ old_obj'[r] = NULL /\ old_obj[r] = NULL
      BY <1>1, <2>3, Zenon DEF Failed, Placed, Looking
    <3> QED BY <1>1, <2>2, <3>1, Zenon
  <2>4. CASE NotModified(r)
    <3>1. obj[r] \in Obj /\ Unref(obj[r]) /\ obj'[r] = old_obj[r] /\ old_obj'[r] = NULL /\ obj[r] # old_obj[r]
      BY <1>1, <2>4, Zenon DEF NotModified, Placed
    <3> QED BY <1>1, <2>2, <3>1, Zenon
  <2>5. CASE DropOldObj(r)
    <3>1. old_obj[r] \in Obj /\ Unref(old_obj[r]) /\ obj'[r] = obj[r] /\ old_obj'[r] = NULL /\ obj[r] # old_obj[r]
      BY <1>1, <2>5, Zenon DEF DropOldObj, Placed
    <3> QED BY <1>1, <2>2, <3>1, Zenon
  <2>6. CASE Release(r) /\ obj[r] # NULL
    <3>1. obj[r] \in Obj /\ Unref(obj[r]) /\ obj'[r] = NULL /\ old_obj'[r] = old_obj[r] /\ obj[r] # old_obj[r]
      BY <1>1, <2>6, Zenon DEF Release, Placed
    <3> QED BY <1>1, <2>2, <3>1, Zenon
  <2>7. CASE Release(r) /\ obj[r] = NULL
    <3>1. old_obj[r] \in Obj /\ Unref(old_obj[r]) /\ obj'[r] = NULL /\ old_obj'[r] = NULL
      BY <1>1, <2>7, Zenon DEF Release, Placed
    <3> QED BY <1>1, <2>2, <2>7, <3>1, Zenon
  <2> QED BY <1>11, <2>3, <2>4, <2>5, <2>6, <2>7, Zenon
<1>12. CASE StoreNew(r)
  <2>1. /\ obj[r] \in Obj /\ obj[r] \notin Chained /\ Chained' = Chained \cup {obj[r]}
    BY <1>12, RequestChain, Zenon
  <2>2. /\ refs' = [refs EXCEPT ![obj[r]] = @ + 1] /\ life' = life /\ obj' = obj /\ old_obj' = old_obj
    BY <1>12, Zenon DEF StoreNew
  <2>3. Holders(o)' = Holders(o) BY <2>2, Zenon DEF Holders
  <2>4. CASE o # obj[r]
    <3>1. refs'[o] = refs[o] BY <1>1, <2>2, <2>4, Zenon
    <3>2. CacheRef(o)' <=> CacheRef(o) BY <1>3, <2>1, <2>4, Zenon DEF CacheRef
    <3> QED BY <2>2, <2>3, <3>1, <3>2, RefsKept, Zenon
  <2>5. CASE o = obj[r]
    <3>1. r \in Holders(o) BY <1>2, <2>5, Zenon
    <3>2. ~Freeing(o) BY <3>1, FreeingNotHeld, Zenon
    <3>3. ~CacheRef(o) /\ CacheRef(o)' BY <2>1, <2>5, <3>2, Zenon DEF CacheRef
    <3>4. refs'[o] = refs[o] + 1 BY <1>1, <2>2, <2>5, Zenon
    <3>5. life[o] = "live" BY <3>1, HeldFacts, Zenon
    <3>6. refs[o] = Cardinality(Holders(o)) /\ refs[o] > 0 BY <1>1, <3>3, <3>5, SMTT(30) DEF RefsOf
    <3> QED BY <1>1, <2>2, <2>3, <3>3, <3>4, <3>5, <3>6, SMTT(30) DEF RefsOf
  <2> QED BY <2>4, <2>5, Zenon
<1>13. CASE ~(Find(r) \/ Miss(r) \/ Expired(r) \/ Failed(r) \/ NotModified(r) \/ DropOldObj(r) \/ Release(r)
              \/ StoreNew(r))
  <2>1. refs' = refs /\ life' = life /\ obj' = obj /\ old_obj' = old_obj
    BY <1>13, ZenonT(30) DEF RequestStep, Check, SwapInObject, SwapIn, Notice, NoticeCount, NoticeWake,
       Fresh, KeepBoth, DeadOldObj, StoreRate, StoreDead, StoreSkip, objVars
  <2> QED BY <1>2, <1>5, <1>13, <2>1, Zenon
<1> QED BY <1>8, <1>9, <1>10, <1>11, <1>12, <1>13, Zenon

\* A collector turns the cache's reference into its own, and gives that up.
LEMMA RefsCollector ==
  ASSUME Known, NEW c \in Collectors, FlushBegin(c) \/ Collect(c) \/ CollectorStep(c)
  PROVE  RefsExact'
<1> USE DEF Known
<1> SUFFICES ASSUME NEW o \in Obj PROVE RefsOf(o)'
  BY RefsAreNext, Zenon
<1>1. /\ refs \in [Obj -> Int] /\ life \in [Obj -> {"unused", "live", "freed"}]
      /\ gc \in [Collectors -> Collection] /\ gc[c] \in Collection
      /\ RefsOf(o) /\ Cardinality(Holders(o)) \in Nat
  BY RefsAre, HeldFacts, Zenon DEF Types, ObjTypes, ActorTypes
<1>2. Holders(o)' = Holders(o)
  BY EntriesAfter, Zenon
<1>3. \A d \in Collectors : d # c => gc'[d] = gc[d] /\ At(d)' = At(d)
  <2>1. \A d \in Collectors : d # c => gc'[d] = gc[d]
    BY <1>1, Zenon DEF CollectorStep, FlushBegin, Collect, SwapoutHead, SwapoutBody, SwapoutTrue,
       SwapoutFalse, FreeObj, NextPick
  <2> QED BY <2>1, ZenonT(30) DEF At
<1>4. ASSUME gc[c].pc # "free", gc'[c].pc # "free" PROVE Freeing(o)' <=> Freeing(o)
  BY <1>3, <1>4, Zenon DEF Freeing
<1>5. CASE FreeObj(c)
  <2>1. gc[c].pc = "free" /\ Unref(At(c)) /\ NextPick(c) BY <1>5, Zenon DEF FreeObj
  <2>2. At(c) \in Obj /\ At(c) \notin Chained
    BY <2>1, AtObject, Zenon DEF Passes, Passing
  <2>3. gc'[c].pc # "free" BY <1>1, <2>1, Zenon DEF NextPick, Collection
  <2>4. Chained' = Chained
    <3>1. hash' = hash BY <1>5, Zenon DEF FreeObj, setVars
    <3> QED BY <3>1, Zenon DEF Chained
  <2>5. CASE o # At(c)
    <3>1. refs'[o] = refs[o] /\ life'[o] = life[o] BY <1>1, <2>1, <2>5, Zenon DEF Unref
    <3>2. Freeing(o)' <=> Freeing(o) BY <1>3, <2>3, <2>5, Zenon DEF Freeing
    <3> QED BY <1>2, <2>4, <3>1, <3>2, RefsKept, Zenon DEF CacheRef
  <2>6. CASE o = At(c)
    <3>1. CacheRef(o) BY <2>1, <2>6, Zenon DEF CacheRef, Freeing
    <3>2. ~Freeing(o)'
      <4> SUFFICES ASSUME NEW d \in Collectors, gc'[d].pc = "free", At(d)' = o PROVE FALSE
        BY Zenon DEF Freeing
      <4>1. d # c BY <2>3, Zenon
      <4>2. gc[d].pc = "free" /\ At(d) = o BY <1>3, <4>1, Zenon
      <4> QED BY <2>1, <2>6, <4>1, <4>2, Zenon DEF Passes, FreedOnce
    <3>3. ~CacheRef(o)' BY <2>2, <2>4, <2>6, <3>2, Zenon DEF CacheRef
    <3>4. refs'[o] = refs[o] - 1 /\ life'[o] = (IF refs[o] = 1 THEN "freed" ELSE life[o])
      BY <1>1, <2>1, <2>6, Zenon DEF Unref
    <3>5. refs[o] = Cardinality(Holders(o)) + 1 /\ (life[o] = "live" <=> refs[o] > 0)
      BY <1>1, <3>1, Zenon DEF RefsOf
    <3> QED BY <1>1, <1>2, <3>3, <3>4, <3>5, SMTT(30) DEF RefsOf
  <2> QED BY <2>5, <2>6, Zenon
<1>6. CASE ~FreeObj(c)
  <2>1. refs' = refs /\ life' = life
    BY <1>6, Zenon DEF CollectorStep, FlushBegin, Collect, SwapoutHead, SwapoutBody, SwapoutTrue,
       SwapoutFalse, objVars
  <2>2. CASE SwapoutFalse(c) /\ Demotable(c)
    <3>1. gc[c].pc \notin {"free", "idle"}
      BY <2>2, Zenon DEF SwapoutFalse
    <3>2. gc' = [gc EXCEPT ![c].pc = "free"]
      BY <2>2, Zenon DEF SwapoutFalse
    <3>3. gc'[c].pc = "free" /\ gc'[c].todo = gc[c].todo
      BY <1>1, <3>2, Zenon DEF Collection
    <3>4. At(c)' = At(c) BY <3>3, Zenon DEF At
    <3>5. At(c) \in Chained /\ Chained' = Chained \ {At(c)}
      BY <2>2, <3>1, DemotableFacts, CollectorChain, Zenon
    <3>6. CASE o = At(c)
      <4>1. CacheRef(o) BY <3>5, <3>6, Zenon DEF CacheRef
      <4>2. CacheRef(o)' BY <3>3, <3>4, <3>6, Zenon DEF CacheRef, Freeing
      <4> QED BY <1>2, <2>1, <4>1, <4>2, RefsKept, Zenon
    <3>7. CASE o # At(c)
      <4>1. Freeing(o)' <=> Freeing(o)
        BY <1>3, <3>1, <3>4, <3>7, Zenon DEF Freeing
      <4>2. CacheRef(o)' <=> CacheRef(o) BY <3>5, <3>7, <4>1, Zenon DEF CacheRef
      <4> QED BY <1>2, <2>1, <4>2, RefsKept, Zenon
    <3> QED BY <3>6, <3>7, Zenon
  <2>3. CASE ~(SwapoutFalse(c) /\ Demotable(c))
    <3>1. Chained' = Chained BY <2>3, CollectorChain, Zenon
    <3>2. gc' = gc \/ (gc[c].pc # "free" /\ gc'[c].pc # "free")
      <4>1. CASE FlushBegin(c) BY <4>1, Zenon DEF FlushBegin
      <4>2. CASE Collect(c)
        <5>1. gc[c].pc = "idle" BY <4>2, Zenon DEF Collect
        <5>2. gc'[c].pc # "free" BY <4>2, FitNew, Zenon
        <5> QED BY <5>1, <5>2, Zenon
      <4>3. CASE SwapoutHead(c) \/ SwapoutBody(c)
        BY <1>1, <4>3, SMTT(30) DEF SwapoutHead, SwapoutBody, Swaps, Collection
      <4>4. CASE SwapoutTrue(c)
        BY <1>1, <4>4, Zenon DEF SwapoutTrue, NextPick, Collection
      <4>5. CASE SwapoutFalse(c)
        BY <1>1, <2>3, <4>5, SMTT(30) DEF SwapoutFalse, NextPick, Collection
      <4> QED BY <1>6, <4>1, <4>2, <4>3, <4>4, <4>5, Zenon DEF CollectorStep
    <3>3. Freeing(o)' <=> Freeing(o)
      BY <1>4, <3>2, Zenon DEF Freeing, At
    <3> QED BY <1>2, <2>1, <3>1, <3>3, RefsKept, Zenon DEF CacheRef
  <2> QED BY <2>2, <2>3, Zenon
<1> QED BY <1>5, <1>6, Zenon

LEMMA RefsKiller ==
  ASSUME Known, NEW k \in Killers, Purge(k) \/ CleanCache(k) \/ KillerStep(k)
  PROVE  RefsExact'
<1>1. UNCHANGED <<refs, life, hash, obj, old_obj, gc>>
  BY Zenon DEF KillerStep, Purge, CleanCache, DeadRead, DeadWrite, objVars, setVars, rqVars
<1>2. RefsExact BY Zenon DEF Known
<1> QED BY <1>1, <1>2, Zenon DEF RefsExact, Holders, Freeing, At

LEMMA RefsLoad ==
  ASSUME Known, NEW x \in Obj, LoadIndex(x)
  PROVE  RefsExact'
<1> USE DEF Known
<1> SUFFICES ASSUME NEW o \in Obj PROVE RefsOf(o)'
  BY RefsAreNext, Zenon
<1>1. /\ refs \in [Obj -> Int] /\ life \in [Obj -> {"unused", "live", "freed"}]
  BY DEF Types, ObjTypes
<1>2. /\ life[x] = "unused" /\ life' = [life EXCEPT ![x] = "live"] /\ refs' = [refs EXCEPT ![x] = 1]
      /\ obj' = obj /\ old_obj' = old_obj /\ gc' = gc
  BY Zenon DEF LoadIndex, rqVars
<1>3. Holders(o)' = Holders(o) /\ (Freeing(o)' <=> Freeing(o))
  BY <1>2, Zenon DEF Holders, Freeing, At
<1>4. Chained' = Chained \cup {x}
  BY LoadChain, Zenon
<1>5. CASE o # x
  <2>1. refs'[o] = refs[o] /\ life'[o] = life[o] BY <1>1, <1>2, <1>5, Zenon
  <2>2. CacheRef(o)' <=> CacheRef(o) BY <1>3, <1>4, <1>5, Zenon DEF CacheRef
  <2> QED BY <1>3, <2>1, <2>2, RefsKept, Zenon
<1>6. CASE o = x
  <2>1. Holders(o) = {} BY <1>2, <1>6, UnusedFacts, Zenon
  <2>2. Cardinality(Holders(o)') = 0 BY <1>3, <2>1, EmptyCounts, Zenon
  <2>3. CacheRef(o)' BY <1>4, <1>6, Zenon DEF CacheRef
  <2>4. refs'[o] = 1 /\ life'[o] = "live" BY <1>1, <1>2, <1>6, Zenon
  <2> QED BY <2>2, <2>3, <2>4, SMTT(30) DEF RefsOf
<1> QED BY <1>5, <1>6, Zenon

-----------------------------------------------------------------------------
(* Counters *)

LEMMA DueFinite ==
  ASSUME Known PROVE IsFiniteSet(MemDue) /\ IsFiniteSet(DiskDue) /\ mem_count \in Int /\ disk_count \in Int
<1>1. MemDue \subseteq Obj /\ DiskDue \subseteq Obj
  BY ChainedAreObjects, Zenon DEF Known, MemDue, DiskDue
<1>2. MemDue \in SUBSET Obj /\ DiskDue \in SUBSET Obj BY <1>1
<1>3. IsFiniteSet(MemDue) /\ IsFiniteSet(DiskDue)
  BY <1>2, Zenon DEF Known, CacheAssumption, Cardinals
<1> QED BY <1>3, Zenon DEF Known, Types, StoreTypes

\* The swap-in of o is over but not yet counted.
Uncounted(r, o) == obj[r] = o /\ (pc[r] = "count" \/ (pc[r] = "notice" /\ swapped[r]))

LEMMA MemDueIs ==
  ASSUME NEW o
  PROVE  /\ o \in MemDue <=> o \in Chained /\ data[o] = "mem" /\ ~\E r \in Rq : Uncounted(r, o)
         /\ o \in MemDue' <=> o \in Chained' /\ data'[o] = "mem" /\ ~\E r \in Rq : Uncounted(r, o)'
<1>1. o \in MemDue <=> o \in Chained /\ data[o] = "mem" /\ ~\E r \in Rq : Uncounted(r, o)
  BY Zenon DEF MemDue, Uncounted
<1>2. o \in MemDue' <=> o \in Chained' /\ data'[o] = "mem" /\ ~\E r \in Rq : Uncounted(r, o)'
  BY Zenon DEF MemDue, Uncounted
<1> QED BY <1>1, <1>2, Zenon

LEMMA CountsRequest ==
  ASSUME Safe, Filed, Counts, NEW r \in Rq, RequestStep(r)
  PROVE  Counts'
<1> USE DEF Safe, Known
<1>1. /\ pc \in [Rq -> RqPCs] /\ obj \in [Rq -> Obj \cup {NULL}] /\ swapped \in [Rq -> BOOLEAN]
      /\ data \in [Obj -> {NULL, "mem"} \cup Rq] /\ "mem" \notin Rq /\ Chained \subseteq Obj
      /\ mem_count \in Int /\ disk_count \in Int /\ flags \in [Obj -> SUBSET Flags]
  BY ChainedAreObjects, Zenon DEF Types, ObjTypes, RqTypes, StoreTypes, CacheAssumption
<1>0. /\ StoreNew(r) => Chained' = Chained \cup {obj[r]}
      /\ ~StoreNew(r) => Chained' = Chained
  BY RequestChain, Zenon
<1>2. ASSUME NEW o \in MemDue', ~(StoreNew(r) /\ o = obj[r]), ~(NoticeCount(r) /\ o = obj[r])
      PROVE  o \in MemDue
  <2>1. o \in Chained' /\ data'[o] = "mem" /\ ~\E q \in Rq : Uncounted(q, o)'
    BY <1>2, MemDueIs, Zenon
  <2>2. o \in Chained BY <1>0, <1>2, <2>1, Zenon
  <2>3. o \in Obj /\ life[o] = "live" BY <1>1, <2>2, HeldFacts, Zenon
  <2>4. data[o] = "mem"
    <3>1. CASE data'[o] = data[o] BY <2>1, <3>1, Zenon
    <3>2. CASE SwapIn(r) /\ o = obj[r]
      <4>1. obj'[r] = obj[r] /\ pc'[r] = "notice" /\ (data'[o] = "mem" => swapped'[r])
        BY <1>1, <2>3, <3>2, Zenon DEF SwapIn, Goto, CacheAssumption
      <4>2. Uncounted(r, o)' BY <2>1, <3>2, <4>1, Zenon DEF Uncounted
      <4> QED BY <2>1, <4>2, Zenon
    <3> QED BY <1>1, <2>1, <2>3, <3>1, <3>2, DataRequest, Zenon
  <2>5. ASSUME NEW q \in Rq, Uncounted(q, o) PROVE FALSE
    <3>1. pc[q] \in {"notice", "count"} /\ obj[q] = o BY <2>5, Zenon DEF Uncounted
    <3>2. CASE NoticeWake(r)
      <4>1. q \notin Woken(r)
        BY <3>1, <3>2, Zenon DEF NoticeWake, Woken, ServedHasBody, OneSwapper
      <4>2. pc'[q] = pc[q] /\ obj'[q] = obj[q] /\ swapped'[q] = swapped[q]
        BY <1>1, <3>2, <4>1, Zenon DEF NoticeWake, Woken
      <4>3. Uncounted(q, o)' BY <2>5, <4>2, Zenon DEF Uncounted
      <4> QED BY <2>1, <4>3, Zenon
    <3>3. CASE q # r /\ ~NoticeWake(r)
      <4>1. pc'[q] = pc[q] /\ obj'[q] = obj[q] /\ swapped'[q] = swapped[q]
        BY <3>3, OthersKeep, Zenon
      <4>2. Uncounted(q, o)' BY <2>5, <4>1, Zenon DEF Uncounted
      <4> QED BY <2>1, <4>2, Zenon
    <3>4. CASE q = r /\ ~NoticeWake(r)
      <4>1. Reading(r) BY <3>1, <3>4, PlainRequest, Zenon DEF ReaderPCs
      <4>2. Notice(r) /\ swapped[r]
        BY <1>2, <2>5, <3>1, <3>4, <4>1, Zenon DEF Reading, SwapInObject, SwapIn, NoticeCount, Uncounted, Notice
      <4>3. pc'[r] = "count" /\ obj'[r] = obj[r] BY <1>1, <4>2, Zenon DEF Notice, Goto
      <4>4. Uncounted(r, o)' BY <3>1, <3>4, <4>3, Zenon DEF Uncounted
      <4> QED BY <2>1, <4>4, Zenon
    <3> QED BY <3>2, <3>3, <3>4, Zenon
  <2> QED BY <2>2, <2>4, <2>5, MemDueIs, Zenon
<1>3. ASSUME NEW o \in DiskDue', ~(StoreNew(r) /\ o = obj[r] /\ "IN_DISK" \in flags'[o])
      PROVE  o \in DiskDue
  <2>1. gc' = gc
    BY ZenonT(30) DEF RequestStep, Find, Miss, Check, SwapInObject, SwapIn, Notice, NoticeCount,
       NoticeWake, Failed, Fresh, Expired, NotModified, KeepBoth, DeadOldObj, DropOldObj,
       StoreRate, StoreDead, StoreNew, StoreSkip, Release
  <2>2. o \in Chained' /\ ("IN_DISK" \in flags'[o] \/ \E c \in Collectors : gc[c].pc = "moved" /\ At(c) = o)
    BY <1>3, <2>1, ZenonT(30) DEF DiskDue, At
  <2>3. o \in Obj BY <1>1, <2>2, RequestChain, ZenonT(30)
  <2>4. ASSUME NEW c \in Collectors, gc[c].pc = "moved", At(c) = o PROVE o \in Chained
    <3>1. life[o] # "unused" /\ (o \in Chained \/ Holders(o) = {}) BY <2>4, AtObject, Zenon
    <3> QED BY <2>2, <2>3, <3>1, GoneForGood, Zenon
  <2>5. o \in Chained BY <1>0, <1>3, <2>2, <2>4, Zenon
  <2>6. "IN_DISK" \in flags'[o] => "IN_DISK" \in flags[o] BY <2>5, MarksRequest, Zenon
  <2> QED BY <2>2, <2>5, <2>6, Zenon DEF DiskDue
<1>4. CASE StoreNew(r)
  <2>1. PICK bits \in {{"IN_MEM"}, {"IN_MEM", "IN_DISK"}, {"IN_MEM", "NO_DISK_CACHE"}} :
          CacheAdd(obj[r], "mem", bits)
    BY <1>4, Zenon DEF StoreNew
  <2>2. obj[r] \in Obj BY <1>4, RequestChain, Zenon
  <2>3. /\ mem_count' = mem_count + 1
        /\ disk_count' = disk_count + (IF "IN_DISK" \in flags'[obj[r]] THEN 1 ELSE 0)
    BY <1>1, <2>1, <2>2, Zenon DEF CacheAdd
  <2>4. ~NoticeCount(r) BY <1>4, Zenon DEF StoreNew, NoticeCount
  <2>5. MemDue' \subseteq MemDue \cup {obj[r]} BY <1>2, <2>4, Zenon
  <2>6. CASE "IN_DISK" \in flags'[obj[r]]
    <3>1. DiskDue' \subseteq DiskDue \cup {obj[r]} BY <1>3, Zenon
    <3>2. disk_count' = disk_count + 1 BY <2>3, <2>6, Zenon
    <3>3. mem_count' >= Cardinality(MemDue') BY <2>3, <2>5, DueFinite, Covers, Zenon DEF Counts
    <3>4. disk_count' >= Cardinality(DiskDue') BY <3>1, <3>2, DueFinite, Covers, Zenon DEF Counts
    <3> QED BY <3>3, <3>4, Zenon DEF Counts
  <2>7. CASE "IN_DISK" \notin flags'[obj[r]]
    <3>1. DiskDue' \subseteq DiskDue BY <1>3, <2>7, Zenon
    <3>2. disk_count' = disk_count BY <1>1, <2>3, <2>7
    <3>3. mem_count' >= Cardinality(MemDue') BY <2>3, <2>5, DueFinite, Covers, Zenon DEF Counts
    <3>4. disk_count' >= Cardinality(DiskDue') BY <3>1, <3>2, DueFinite, Covers, Zenon DEF Counts
    <3> QED BY <3>3, <3>4, Zenon DEF Counts
  <2> QED BY <2>6, <2>7, Zenon
<1>5. CASE NoticeCount(r)
  <2>1. mem_count' = mem_count + 1 /\ disk_count' = disk_count BY <1>5, Zenon DEF NoticeCount
  <2>2. ~StoreNew(r) BY <1>5, Zenon DEF StoreNew, NoticeCount
  <2>3. MemDue' \subseteq MemDue \cup {obj[r]} BY <1>2, <2>2, Zenon
  <2>4. DiskDue' \subseteq DiskDue BY <1>3, <2>2, Zenon
  <2> QED BY <2>1, <2>3, <2>4, DueFinite, Covers, Zenon DEF Counts
<1>6. CASE ~StoreNew(r) /\ ~NoticeCount(r)
  <2>1. mem_count' = mem_count /\ disk_count' = disk_count
    BY <1>6, ZenonT(30) DEF RequestStep, Find, Miss, Check, SwapInObject, SwapIn, Notice,
       NoticeWake, Failed, Fresh, Expired, NotModified, KeepBoth, DeadOldObj, DropOldObj,
       StoreRate, StoreDead, StoreSkip, Release, sizeVars
  <2>2. MemDue' \subseteq MemDue /\ DiskDue' \subseteq DiskDue BY <1>2, <1>3, <1>6, Zenon
  <2> QED BY <2>1, <2>2, DueFinite, Covers, Zenon DEF Counts
<1> QED BY <1>4, <1>5, <1>6, Zenon

\* What a step of another actor adds to DiskDue or takes from MemDue.
LEMMA MemDueOther ==
  ASSUME UNCHANGED rqVars, NEW o
  PROVE  o \in MemDue' <=> o \in Chained' /\ data'[o] = "mem" /\ ~\E r \in Rq : Uncounted(r, o)
<1>1. \A r \in Rq : Uncounted(r, o)' <=> Uncounted(r, o)
  BY Zenon DEF Uncounted, rqVars
<1> QED BY <1>1, MemDueIs, Zenon

LEMMA CountsCollector ==
  ASSUME Safe, Counts, NEW c \in Collectors, FlushBegin(c) \/ Collect(c) \/ CollectorStep(c)
  PROVE  Counts'
<1> USE DEF Safe, Known
<1>1. /\ flags \in [Obj -> SUBSET Flags] /\ data \in [Obj -> {NULL, "mem"} \cup Rq]
      /\ gc \in [Collectors -> Collection] /\ gc[c] \in Collection /\ Chained \subseteq Obj
      /\ mem_count \in Int /\ disk_count \in Int /\ NULL # "mem"
  BY ChainedAreObjects, Zenon DEF Types, ObjTypes, StoreTypes, ActorTypes, CacheAssumption
<1>2. UNCHANGED rqVars
  BY Zenon DEF CollectorStep, FlushBegin, Collect, SwapoutHead, SwapoutBody, SwapoutTrue,
     SwapoutFalse, FreeObj
<1>3. Chained' \subseteq Chained
  BY EntriesAfter, Zenon
<1>4. /\ MemDue' \subseteq MemDue
      /\ \A o \in MemDue' : o \in Chained' /\ data'[o] = "mem"
  <2>1. \A o \in Obj : data'[o] = "mem" => data[o] = "mem"
    BY <1>1, Zenon DEF CollectorStep, FlushBegin, Collect, SwapoutHead, SwapoutBody, SwapoutTrue,
       SwapoutFalse, FreeObj, objVars
  <2> QED BY <1>1, <1>2, <1>3, <2>1, MemDueOther, MemDueIs, ZenonT(30)
<1>5. ASSUME NEW x \in Chained, data[x] = "mem", Holders(x) = {} PROVE x \in MemDue
  <2>1. \A r \in Rq : ~Uncounted(r, x) BY <1>5, HoldersOf, Zenon DEF Uncounted
  <2> QED BY <1>5, <2>1, MemDueIs, Zenon
\* Whose file a collector has dealt with.
<1>6. \A d \in Collectors : d # c => gc'[d] = gc[d] /\ At(d)' = At(d)
  <2>1. \A d \in Collectors : d # c => gc'[d] = gc[d]
    BY <1>1, Zenon DEF CollectorStep, FlushBegin, Collect, SwapoutHead, SwapoutBody, SwapoutTrue,
       SwapoutFalse, FreeObj, NextPick
  <2> QED BY <2>1, ZenonT(30) DEF At
<1>7. ASSUME NEW o \in DiskDue',
             ("IN_DISK" \in flags'[o] /\ "IN_DISK" \notin flags[o]) => gc[c].pc = "moved" /\ At(c) = o,
             gc'[c].pc = "moved" /\ At(c)' = o => \/ gc[c].pc = "moved" /\ At(c) = o
                                                  \/ "IN_DISK" \in flags[o]
      PROVE  o \in DiskDue
  <2>1. o \in Chained BY <1>3, <1>7, Zenon DEF DiskDue
  <2>2. "IN_DISK" \in flags'[o] \/ \E d \in Collectors : gc'[d].pc = "moved" /\ At(d)' = o
    BY <1>7, Zenon DEF DiskDue
  <2>3. "IN_DISK" \in flags[o] \/ \E d \in Collectors : gc[d].pc = "moved" /\ At(d) = o
    BY <1>6, <1>7, <2>2, Zenon
  <2> QED BY <2>1, <2>3, Zenon DEF DiskDue
<1>8. CASE SwapoutTrue(c)
  <2>1. gc[c].pc = "moved" /\ NextPick(c) /\ disk_count' = disk_count BY <1>8, Zenon DEF SwapoutTrue
  <2>2. gc'[c].pc # "moved" BY <1>1, <2>1, Zenon DEF NextPick, Collection
  <2>3. PICK x \in Obj : x = At(c) BY <2>1, AtObject, Zenon
  <2>4. \A o \in Obj : o # x => flags'[o] = flags[o]
    BY <1>1, <1>8, <2>3, Zenon DEF SwapoutTrue
  <2>5. DiskDue' \subseteq DiskDue
    <3> SUFFICES ASSUME NEW o \in DiskDue' PROVE o \in DiskDue
      OBVIOUS
    <3>1. o \in Obj BY <1>1, <1>3, Zenon DEF DiskDue
    <3> QED BY <1>7, <2>1, <2>2, <2>3, <2>4, <3>1, Zenon
  <2>6. disk_count' >= Cardinality(DiskDue')
    BY <2>1, <2>5, DueFinite, Covers, ZenonT(30) DEF Counts
  <2>7. CASE Demotable(c)
    <3>1. x \in Chained /\ Holders(x) = {} /\ data[x] = "mem"
      BY <2>1, <2>3, <2>7, DemotableFacts, Zenon DEF Demotable, Bodies, Passes, Passing
    <3>2. x \in MemDue BY <1>5, <3>1, Zenon
    <3>3. data'[x] = NULL /\ mem_count' = mem_count - 1
      BY <1>1, <1>8, <2>3, <2>7, Zenon DEF SwapoutTrue
    <3>4. MemDue' \subseteq MemDue \ {x} BY <1>1, <1>4, <3>3, Zenon
    <3>5. mem_count' >= Cardinality(MemDue')
      BY <3>2, <3>3, <3>4, DueFinite, Covers, Zenon DEF Counts
    <3> QED BY <2>6, <3>5, Zenon DEF Counts
  <2>8. CASE ~Demotable(c)
    <3>1. mem_count' = mem_count BY <1>8, <2>8, Zenon DEF SwapoutTrue
    <3>2. mem_count' >= Cardinality(MemDue')
      BY <1>4, <3>1, DueFinite, Covers, Zenon DEF Counts
    <3> QED BY <2>6, <3>2, Zenon DEF Counts
  <2> QED BY <2>7, <2>8, Zenon
<1>9. CASE ~SwapoutTrue(c)
  <2>1. flags' = flags
    BY <1>9, Zenon DEF CollectorStep, FlushBegin, Collect, SwapoutHead, SwapoutBody,
       SwapoutFalse, FreeObj, objVars
  <2>2. CASE SwapoutFalse(c) /\ Demotable(c)
    <3>1. gc[c].pc # "idle" /\ gc'[c].pc # "moved"
      BY <1>1, <2>2 DEF SwapoutFalse, Collection
    <3>2. DiskDue' \subseteq DiskDue BY <1>7, <2>1, <3>1, Zenon
    <3>3. PICK x \in Obj : x = At(c) BY <3>1, AtObject, Zenon
    <3>4. x \in Chained /\ Holders(x) = {} /\ Chained' = Chained \ {x}
      BY <2>2, <3>1, <3>3, DemotableFacts, CollectorChain, Zenon
    <3>5. MemDue' \subseteq MemDue \ {x} BY <1>4, <3>4, Zenon
    <3>6. DiskDue' \subseteq DiskDue \ {x} BY <3>2, <3>4, Zenon DEF DiskDue
    <3>7. /\ mem_count' = mem_count - (IF "IN_MEM" \in flags[x] THEN 1 ELSE 0)
          /\ disk_count' = disk_count - (IF "IN_DISK" \in flags[x] THEN 1 ELSE 0)
      BY <2>2, <3>3, Zenon DEF SwapoutFalse, Counted
    <3>8. mem_count' >= Cardinality(MemDue')
      <4>1. CASE "IN_MEM" \in flags[x]
        <5>1. x \in MemDue BY <1>5, <3>4, <4>1, Zenon DEF Bodies, InMem
        <5>2. mem_count' = mem_count - 1 BY <3>7, <4>1, Zenon
        <5> QED BY <3>5, <5>1, <5>2, DueFinite, Covers, Zenon DEF Counts
      <4>2. CASE "IN_MEM" \notin flags[x]
        <5>1. mem_count' = mem_count BY <1>1, <3>7, <4>2
        <5> QED BY <1>4, <5>1, DueFinite, Covers, Zenon DEF Counts
      <4> QED BY <4>1, <4>2, Zenon
    <3>9. disk_count' >= Cardinality(DiskDue')
      <4>1. CASE "IN_DISK" \in flags[x]
        <5>1. x \in DiskDue BY <3>4, <4>1, Zenon DEF DiskDue
        <5>2. disk_count' = disk_count - 1 BY <3>7, <4>1, Zenon
        <5> QED BY <3>6, <5>1, <5>2, DueFinite, Covers, Zenon DEF Counts
      <4>2. CASE "IN_DISK" \notin flags[x]
        <5>1. disk_count' = disk_count BY <1>1, <3>7, <4>2
        <5> QED BY <3>2, <5>1, DueFinite, Covers, Zenon DEF Counts
      <4> QED BY <4>1, <4>2, Zenon
    <3> QED BY <3>8, <3>9, Zenon DEF Counts
  <2>3. CASE ~(SwapoutFalse(c) /\ Demotable(c))
    <3>1. mem_count' = mem_count
      BY <1>9, <2>3, ZenonT(30) DEF CollectorStep, FlushBegin, Collect, SwapoutHead, SwapoutBody,
         SwapoutFalse, FreeObj, sizeVars
    <3>2. mem_count' >= Cardinality(MemDue')
      BY <1>4, <3>1, DueFinite, Covers, Zenon DEF Counts
    <3>3. disk_count' >= Cardinality(DiskDue')
      <4>1. CASE SwapoutHead(c)
        <5>1. "IN_DISK" \in flags[At(c)] /\ disk_count' = disk_count
          BY <4>1, Zenon DEF SwapoutHead, sizeVars
        <5>2. gc'[c].todo = gc[c].todo BY <1>1, <4>1 DEF SwapoutHead, Collection
        <5>3. At(c)' = At(c) BY <5>2, Zenon DEF At
        <5>4. DiskDue' \subseteq DiskDue BY <1>7, <2>1, <5>1, <5>3, Zenon
        <5> QED BY <5>1, <5>4, DueFinite, Covers, Zenon DEF Counts
      <4>2. CASE SwapoutBody(c)
        <5>1. gc'[c].todo = gc[c].todo BY <1>1, <4>2 DEF SwapoutBody, Collection
        <5>2. At(c)' = At(c) BY <5>1, Zenon DEF At
        <5>3. DiskDue' \subseteq DiskDue \cup {At(c)} BY <1>7, <2>1, <5>2, ZenonT(30)
        <5>4. CASE disk_count' = disk_count + 1
          BY <5>3, <5>4, DueFinite, Covers, Zenon DEF Counts
        <5>5. CASE gc'[c].pc # "moved" /\ disk_count' = disk_count
          <6>1. DiskDue' \subseteq DiskDue BY <1>7, <2>1, <5>5, Zenon
          <6> QED BY <5>5, <6>1, DueFinite, Covers, Zenon DEF Counts
        <5> QED BY <1>1, <4>2, <5>4, <5>5, SMTT(30) DEF SwapoutBody, Collection
      <4>3. CASE ~(SwapoutHead(c) \/ SwapoutBody(c))
        <5>1. disk_count' = disk_count
          BY <1>9, <2>3, <4>3, Zenon DEF CollectorStep, FlushBegin, Collect, SwapoutFalse, FreeObj, sizeVars
        <5>2. gc' = gc \/ gc'[c].pc # "moved"
          BY <1>1, <1>9, <4>3, SMTT(30) DEF CollectorStep, FlushBegin, Collect, SwapoutFalse, FreeObj, NextPick,
             Collection
        <5>3. DiskDue' \subseteq DiskDue
          <6>1. CASE gc' = gc BY <1>7, <2>1, <6>1, Zenon DEF At
          <6>2. CASE gc'[c].pc # "moved" BY <1>7, <2>1, <6>2, Zenon
          <6> QED BY <5>2, <6>1, <6>2, Zenon
        <5> QED BY <5>1, <5>3, DueFinite, Covers, Zenon DEF Counts
      <4> QED BY <4>1, <4>2, <4>3, Zenon
    <3> QED BY <3>2, <3>3, Zenon DEF Counts
  <2> QED BY <2>2, <2>3, Zenon
<1> QED BY <1>8, <1>9, Zenon

LEMMA CountsKiller ==
  ASSUME Safe, Filed, Counts, NEW k \in Killers, Purge(k) \/ CleanCache(k) \/ KillerStep(k)
  PROVE  Counts'
<1> USE DEF Safe, Known
<1>1. /\ flags \in [Obj -> SUBSET Flags] /\ Chained \subseteq Obj
  BY ChainedAreObjects, Zenon DEF Types, ObjTypes
<1>2. UNCHANGED <<rqVars, data, gc, mem_count, disk_count>> /\ Chained' = Chained
  <2>1. UNCHANGED <<rqVars, data, gc, mem_count, disk_count>>
    BY Zenon DEF KillerStep, Purge, CleanCache, DeadRead, DeadWrite, objVars, sizeVars
  <2> QED BY <2>1, KillerChain, Zenon
<1>3. \A o \in Chained : "IN_DISK" \in flags'[o] <=> "IN_DISK" \in flags[o]
  <2>1. CASE DeadWrite(k)
    <3>1. killer[k].at # NULL /\ flags' = [flags EXCEPT ![killer[k].at] = window[k] \cup {"DEAD"}]
      BY <2>1, Zenon DEF DeadWrite
    <3>2. "IN_DISK" \in window[k] <=> "IN_DISK" \in flags[killer[k].at]
      BY <3>1, Zenon DEF Filed
    <3> QED BY <1>1, <3>1, <3>2, Zenon
  <2>2. CASE ~DeadWrite(k)
    BY <2>2, Zenon DEF KillerStep, Purge, CleanCache, DeadRead, objVars
  <2> QED BY <2>1, <2>2, Zenon
<1>4. MemDue' = MemDue
  BY <1>2, MemDueOther, MemDueIs, Zenon
<1>5. DiskDue' = DiskDue
  BY <1>2, <1>3, Zenon DEF DiskDue, At
<1> QED BY <1>2, <1>4, <1>5, Zenon DEF Counts

LEMMA CountsLoad ==
  ASSUME Safe, Counts, NEW x \in Obj, LoadIndex(x)
  PROVE  Counts'
<1> USE DEF Safe, Known
<1>1. /\ flags \in [Obj -> SUBSET Flags] /\ Chained \subseteq Obj /\ mem_count \in Int
      /\ data[x] = NULL /\ NULL # "mem"
  BY ChainedAreObjects, Zenon DEF Types, ObjTypes, StoreTypes, LoadIndex, Bodies, CacheAssumption
<1>2. UNCHANGED <<rqVars, data, gc>> /\ Chained' = Chained \cup {x}
  BY LoadChain, Zenon DEF LoadIndex
<1>3. mem_count' = mem_count /\ disk_count' = disk_count + 1
  BY <1>1 DEF LoadIndex, CacheAdd
<1>4. \A o \in Chained : o # x => flags'[o] = flags[o]
  BY <1>1, Zenon DEF LoadIndex, CacheAdd
<1>5. MemDue' \subseteq MemDue
  <2> SUFFICES ASSUME NEW o \in MemDue' PROVE o \in MemDue
    OBVIOUS
  <2>1. o \in Chained' /\ data[o] = "mem" /\ ~\E r \in Rq : Uncounted(r, o)
    BY <1>2, MemDueOther, Zenon
  <2>2. o \in Chained BY <1>1, <1>2, <2>1, Zenon
  <2> QED BY <2>1, <2>2, MemDueIs, Zenon
<1>6. DiskDue' \subseteq DiskDue \cup {x}
  BY <1>2, <1>4, Zenon DEF DiskDue, At
<1> QED BY <1>3, <1>5, <1>6, DueFinite, Covers, Zenon DEF Counts

=============================================================================
