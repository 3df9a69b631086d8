-------------------------- MODULE ObjectCacheProofs --------------------------
(***************************************************************************)
(* The lemmas behind ObjectCacheTheorems about what a step of each actor   *)
(* does to the types of the variables, the chain and the two lists, to     *)
(* where requests and administrator's commands stand, and to what the      *)
(* collectors have picked.                                                 *)
(***************************************************************************)
EXTENDS ObjectCache, TLAPS

\* The objects of the chain.
Chained == Range(hash)

\* Where a request stands with an object it found in the chain.
Looking == {"check", "lock", "swapin", "notice", "count", "wake", "wait", "failed",
            "serve"}

\* What a request refers to at each place: nothing, an object of the chain, a new
\* object, or both.
Placed(r) ==
  /\ pc[r] \in {"start", "miss", "done"} => obj[r] = NULL /\ old_obj[r] = NULL
  /\ pc[r] \in Looking => obj[r] \in Chained /\ old_obj[r] = NULL
  /\ pc[r] \in {"reval", "drop"} => obj[r] # NULL /\ old_obj[r] # NULL
  /\ pc[r] = "store" => obj[r] # NULL
  /\ pc[r] = "release" => obj[r] # NULL \/ old_obj[r] # NULL
  /\ old_obj[r] # NULL => old_obj[r] \in Chained
  /\ obj[r] # NULL => obj[r] # old_obj[r]
Places == \A r \in Rq : Placed(r)

\* A killer at work holds a lock, and what it has left to do is in the chain.
Killings ==
  \A k \in Killers :
    /\ killer[k].at # NULL => killer[k].at \in killer[k].todo
    /\ killer[k].lock \in {"idle", "done"} => killer[k].todo = {}
    /\ killer[k].todo \subseteq Chained

\* A collector's list names each object once, none of them new; who left the
\* chain meanwhile is held by no request, so it never comes back.
Passing(c) ==
  /\ gc[c].pc # "idle" => Len(gc[c].todo) > 0
  /\ gc[c].swapout => gc[c].list = "mem"
  /\ gc[c].pc = "moved" => gc[c].swapout
  /\ gc[c].pc = "free" => At(c) \notin Chained
  /\ \A i \in 1..Len(gc[c].todo) :
       /\ life[gc[c].todo[i].o] # "unused"
       /\ gc[c].todo[i].o \in Chained \/ Holders(gc[c].todo[i].o) = {}
  /\ \A i, j \in 1..Len(gc[c].todo) : gc[c].todo[i].o = gc[c].todo[j].o => i = j
FreedOnce ==
  \A c, d \in Collectors :
    gc[c].pc = "free" /\ gc[d].pc = "free" /\ At(c) = At(d) => c = d
Passes == FreedOnce /\ \A c \in Collectors : Passing(c)

\* The body of o is in memory and no notice() is about to say so.
InMem(o) == data[o] = "mem" /\ ObjLockFree(o)

\* Flags and windows never claim a body that is not there.
Bodies ==
  /\ \A o \in Obj :
       /\ "IN_MEM" \in flags[o] => InMem(o)
       /\ InList("mem", o) => data[o] = "mem"
       /\ life[o] = "unused" => data[o] = NULL
  /\ \A k \in Killers :
       killer[k].at # NULL /\ "IN_MEM" \in window[k] => InMem(killer[k].at)
  /\ \A r \in Rq :
       /\ pc[r] = "notice" => "IN_MEM" \notin window[r]
       /\ pc[r] = "count" => swapped[r]
       /\ pc[r] \in {"notice", "count", "wake"} /\ swapped[r] => data[obj[r]] = "mem"
       /\ pc[r] = "drop" => data[obj[r]] = "mem"

\* A request waits for one reader, and one at a time gives notice of an object.
OneReader ==
  /\ \A q, r, s \in Rq : q \in waiter[r] /\ q \in waiter[s] => r = s
  /\ \A r \in Rq : pc[r] = "notice" => data[obj[r]] \notin Rq
  /\ \A q, r \in Rq : pc[q] = "notice" /\ pc[r] = "notice" /\ obj[q] = obj[r] => q = r

\* The facts about finite sets that the lemmas use (ObjectCacheTheorems proves them).
Cardinals ==
  /\ \A S : IsFiniteSet(S) =>
       /\ Cardinality(S) \in Nat /\ (S = {} <=> Cardinality(S) = 0)
       /\ \A T \in SUBSET S : IsFiniteSet(T) /\ Cardinality(T) <= Cardinality(S)
       /\ \A x : /\ IsFiniteSet(S \cup {x})
                 /\ x \notin S => Cardinality(S \cup {x}) = Cardinality(S) + 1
       /\ \A x \in S : Cardinality(S \ {x}) = Cardinality(S) - 1
  /\ \A n \in Nat : IsFiniteSet(1..n)

-----------------------------------------------------------------------------
(* Sequences *)

\* A node enters at the tail ...
LEMMA AppendFacts ==
  ASSUME NEW S, NEW s \in Seq(S), NEW o \in S
  PROVE  /\ Append(s, o) \in Seq(S)
         /\ Range(Append(s, o)) = Range(s) \cup {o}
         /\ IsInjective(s) /\ o \notin Range(s) => IsInjective(Append(s, o))
<1>1. Append(s, o) \in Seq(S) /\ Len(Append(s, o)) = Len(s) + 1
  OBVIOUS
<1>2. \A i \in 1..Len(s) + 1 : Append(s, o)[i] = IF i = Len(s) + 1 THEN o ELSE s[i]
  OBVIOUS
<1>3. DOMAIN s = 1..Len(s) /\ DOMAIN Append(s, o) = 1..Len(s) + 1 /\ Len(s) \in Nat
  OBVIOUS
<1>4. Range(Append(s, o)) = Range(s) \cup {o}
  BY <1>2, <1>3 DEF Range
<1>5. ASSUME IsInjective(s), o \notin Range(s) PROVE IsInjective(Append(s, o))
  BY <1>2, <1>3, <1>5 DEF IsInjective, Range
<1> QED BY <1>1, <1>4, <1>5, Zenon

\* ... or at the head ...
LEMMA PrependFacts ==
  ASSUME NEW S, NEW s \in Seq(S), NEW o \in S
  PROVE  /\ <<o>> \o s \in Seq(S)
         /\ Range(<<o>> \o s) = Range(s) \cup {o}
         /\ IsInjective(s) /\ o \notin Range(s) => IsInjective(<<o>> \o s)
<1>1. <<o>> \in Seq(S) /\ Len(<<o>>) = 1 /\ <<o>>[1] = o
  OBVIOUS
<1>2. <<o>> \o s \in Seq(S) /\ Len(<<o>> \o s) = Len(s) + 1
  BY <1>1
<1>3. \A i \in 1..Len(s) + 1 : (<<o>> \o s)[i] = IF i = 1 THEN o ELSE s[i - 1]
  BY <1>1
<1>4. DOMAIN s = 1..Len(s) /\ DOMAIN (<<o>> \o s) = 1..Len(s) + 1 /\ Len(s) \in Nat
  BY <1>2
<1>5. ASSUME NEW x PROVE x \in Range(<<o>> \o s) <=> x \in Range(s) \/ x = o
  <2>1. \A i \in 1..Len(s) : i + 1 \in 1..Len(s) + 1 /\ (<<o>> \o s)[i + 1] = s[i]
    BY <1>3, <1>4
  <2>2. 1 \in 1..Len(s) + 1 /\ (<<o>> \o s)[1] = o
    BY <1>3, <1>4
  <2>3. \A i \in 1..Len(s) + 1 : i # 1 => i - 1 \in 1..Len(s)
    BY <1>4
  <2>4. ASSUME x \in Range(<<o>> \o s) PROVE x \in Range(s) \/ x = o
    BY <2>3, <2>4, <1>3, <1>4 DEF Range
  <2>5. ASSUME x \in Range(s) \/ x = o PROVE x \in Range(<<o>> \o s)
    <3>1. CASE x = o
      BY <2>2, <3>1, <1>4, Zenon DEF Range
    <3>2. CASE x \in Range(s)
      <4>1. PICK i \in 1..Len(s) : s[i] = x BY <3>2, <1>4, Zenon DEF Range
      <4>2. i + 1 \in 1..Len(s) + 1 /\ (<<o>> \o s)[i + 1] = x BY <2>1, <4>1, Zenon
      <4> QED BY <4>2, <1>4, Zenon DEF Range
    <3> QED BY <3>1, <3>2, <2>5, Zenon
  <2> QED BY <2>4, <2>5, Zenon
<1>6. ASSUME IsInjective(s), o \notin Range(s) PROVE IsInjective(<<o>> \o s)
  <2>1. \A i \in 1..Len(s) + 1 : i # 1 => i - 1 \in 1..Len(s) /\ s[i - 1] # o
    BY <1>4, <1>6 DEF Range
  <2> QED BY <2>1, <1>3, <1>4, <1>6, SMTT(30) DEF IsInjective
<1> QED BY <1>2, <1>5, <1>6, Zenon

\* ... and leaves from wherever it is.
LEMMA UnlinkedFacts ==
  ASSUME NEW S, NEW s \in Seq(S), NEW o, IsInjective(s)
  PROVE  /\ Unlinked(s, o) \in Seq(S)
         /\ Range(Unlinked(s, o)) = Range(s) \ {o}
         /\ IsInjective(Unlinked(s, o))
<1>1. CASE o \notin Range(s)
  BY <1>1, Zenon DEF Unlinked
<1>2. CASE o \in Range(s)
  <2>1. DOMAIN s = 1..Len(s) /\ Len(s) \in Nat
    OBVIOUS
  <2>2. PICK i \in 1..Len(s) : s[i] = o
    BY <1>2, <2>1, Zenon DEF Range
  <2>3. (CHOOSE k \in DOMAIN s : s[k] = o) = i
    BY <2>1, <2>2, Zenon DEF IsInjective
  <2> DEFINE t == [k \in 1..Len(s) - 1 |-> s[IF k < i THEN k ELSE k + 1]]
  <2>4. Unlinked(s, o) = t
    BY <1>2, <2>3, Zenon DEF Unlinked
  <2>5. \A k \in 1..Len(s) - 1 : (IF k < i THEN k ELSE k + 1) \in 1..Len(s)
    BY <2>1, <2>2
  <2>6. t \in Seq(S) /\ Len(t) = Len(s) - 1
    <3>1. t \in [1..Len(s) - 1 -> S] /\ Len(s) - 1 \in Nat
      BY <2>1, <2>2, <2>5
    <3> QED BY <3>1
  <2>7. \A k \in 1..Len(s) - 1 : t[k] = IF k < i THEN s[k] ELSE s[k + 1]
    OBVIOUS
  <2> HIDE DEF t
  <2>8. DOMAIN t = 1..Len(s) - 1
    BY <2>6
  <2>9. ASSUME NEW x PROVE x \in Range(t) <=> x \in Range(s) /\ x # o
    <3>1. ASSUME NEW k \in 1..Len(s) - 1 PROVE t[k] \in Range(s) /\ t[k] # o
      BY <2>1, <2>2, <2>7, SMTT(30) DEF Range, IsInjective
    <3>2. ASSUME NEW k \in 1..Len(s), s[k] # o PROVE \E j \in 1..Len(s) - 1 : t[j] = s[k]
      <4>1. CASE k < i
        <5>1. k \in 1..Len(s) - 1 /\ t[k] = s[k] BY <4>1, <2>1, <2>2, <2>7
        <5> QED BY <5>1
      <4>2. CASE k > i
        <5>1. k - 1 \in 1..Len(s) - 1 /\ t[k - 1] = s[k] BY <4>2, <2>1, <2>2, <2>7
        <5> QED BY <5>1
      <4> QED BY <4>1, <4>2, <3>2, <2>2, <2>1
    <3> QED BY <3>1, <3>2, <2>1, <2>8, ZenonT(30) DEF Range
  <2>10. IsInjective(t)
    <3> SUFFICES ASSUME NEW k \in 1..Len(s) - 1, NEW j \in 1..Len(s) - 1, t[k] = t[j]
                 PROVE  k = j
      BY <2>8, Zenon DEF IsInjective
    <3>1. ASSUME NEW x \in 1..Len(s), NEW y \in 1..Len(s), s[x] = s[y] PROVE x = y
      BY <2>1, <3>1, Zenon DEF IsInjective
    <3> QED BY <3>1, <2>1, <2>2, <2>5, <2>7
  <2> QED BY <2>4, <2>6, <2>9, <2>10, Zenon
<1> QED BY <1>1, <1>2, Zenon

-----------------------------------------------------------------------------
(* Types.  That the counters do not fall below zero is left to Counts, and  *)
(* that the references do not to RefsExact.                                 *)

ObjTypes ==
  /\ life \in [Obj -> {"unused", "live", "freed"}]
  /\ flags \in [Obj -> SUBSET Flags]
  /\ dirty \subseteq Obj
  /\ data \in [Obj -> {NULL, "mem"} \cup Rq]
  /\ refs \in [Obj -> Int]
StoreTypes ==
  /\ file \subseteq Obj /\ lost \subseteq Obj
  /\ hash \in Seq(Obj)
  /\ objList \in [Lists -> Seq(Obj)]
  /\ dropDead \subseteq Lists
  /\ mem_count \in Int /\ disk_count \in Int
  /\ clean_blocked \in BOOLEAN
RqTypes ==
  /\ pc \in [Rq -> RqPCs]
  /\ obj \in [Rq -> Obj \cup {NULL}]
  /\ old_obj \in [Rq -> Obj \cup {NULL}]
  /\ swapped \in [Rq -> BOOLEAN]
  /\ waiter \in [Rq -> SUBSET Rq]
ActorTypes ==
  /\ window \in [Rq \cup Killers -> SUBSET Flags]
  /\ gc \in [Collectors -> Collection]
  /\ killer \in [Killers -> Killing]
Types == ObjTypes /\ StoreTypes /\ RqTypes /\ ActorTypes

\* What is taken from the chain is an object.
LEMMA ChainedAreObjects ==
  ASSUME Types PROVE Chained \subseteq Obj /\ \A i \in DOMAIN hash : hash[i] \in Chained
BY DEF Types, StoreTypes, Chained, Range

\* What the shared parts of the actions leave.
LEMMA UnrefTypes ==
  ASSUME Types, NEW o, Unref(o)
  PROVE  /\ life' \in [Obj -> {"unused", "live", "freed"}]
         /\ refs' \in [Obj -> Int]
         /\ file' \subseteq Obj
<1>1. refs' \in [Obj -> Int]
  <2>1. refs \in [Obj -> Int] /\ refs' = [refs EXCEPT ![o] = refs[o] - 1]
    BY Zenon DEF Types, ObjTypes, Unref
  <2>2. CASE o \in Obj BY <2>1, <2>2
  <2>3. CASE o \notin Obj BY <2>1, <2>3, Zenon
  <2> QED BY <2>2, <2>3, Zenon
<1>2. life' \in [Obj -> {"unused", "live", "freed"}] BY Zenon DEF Types, ObjTypes, Unref
<1>3. file' \subseteq Obj BY DEF Types, StoreTypes, Unref
<1> QED BY <1>1, <1>2, <1>3, Zenon

LEMMA AllocatedTypes ==
  ASSUME Types, NEW o \in Obj, Allocated(o)
  PROVE  /\ life' \in [Obj -> {"unused", "live", "freed"}]
         /\ flags' \in [Obj -> SUBSET Flags]
         /\ data' \in [Obj -> {NULL, "mem"} \cup Rq]
BY DEF Types, ObjTypes, Allocated, Flags

LEMMA UnlinkedTypes ==
  ASSUME Types, ListsMatchChain, NEW o, NEW l \in Lists
  PROVE  Unlinked(objList[l], o) \in Seq(Obj)
<1>1. objList[l] \in Seq(Obj) /\ IsInjective(objList[l])
  BY DEF Types, StoreTypes, ListsMatchChain
<1> QED BY <1>1, UnlinkedFacts, Zenon

LEMMA CacheDeadTypes ==
  ASSUME Types, ListsMatchChain, NEW o \in Obj, CacheDead(o)
  PROVE  /\ flags' \in [Obj -> SUBSET Flags]
         /\ dirty' \subseteq Obj
         /\ objList' \in [Lists -> Seq(Obj)]
         /\ dropDead' \subseteq Lists
<1>1. \A l \in Lists : <<o>> \o Unlinked(objList[l], o) \in Seq(Obj)
  BY UnlinkedTypes, PrependFacts, Zenon
<1>2. AtHead(o) \in [Lists -> Seq(Obj)]
  BY <1>1, Zenon DEF AtHead, Types, StoreTypes
<1> QED BY <1>2, Zenon DEF CacheDead, Types, ObjTypes, StoreTypes, Flags

LEMMA CacheAddTypes ==
  ASSUME Types, NEW o \in Obj, NEW l \in Lists, NEW bits \in SUBSET Flags,
         CacheAdd(o, l, bits)
  PROVE  /\ flags' \in [Obj -> SUBSET Flags]
         /\ hash' \in Seq(Obj)
         /\ objList' \in [Lists -> Seq(Obj)]
         /\ mem_count' \in Int /\ disk_count' \in Int
         /\ file' \subseteq Obj
<1>1. hash' \in Seq(Obj)
  BY PrependFacts, Zenon DEF CacheAdd, Types, StoreTypes
<1>2. Append(objList[l], o) \in Seq(Obj)
  BY AppendFacts, Zenon DEF Types, StoreTypes
<1>3. objList' \in [Lists -> Seq(Obj)]
  BY <1>2, Zenon DEF CacheAdd, Types, StoreTypes
<1> QED BY <1>1, <1>3 DEF CacheAdd, Types, ObjTypes, StoreTypes

LEMMA GotoTypes ==
  ASSUME Types, NEW r \in Rq, NEW l \in RqPCs, Goto(r, l)
  PROVE  pc' \in [Rq -> RqPCs]
BY DEF Types, RqTypes, Goto

\* What a step does not touch keeps its type.
LEMMA TypesFrame ==
  ASSUME Types
  PROVE  /\ UNCHANGED objVars => ObjTypes'
         /\ UNCHANGED <<diskVars, setVars, sizeVars, clean_blocked>> => StoreTypes'
         /\ UNCHANGED <<obj, old_obj, swapped, waiter>> /\ pc' \in [Rq -> RqPCs] => RqTypes'
         /\ UNCHANGED <<window, gc, killer>> => ActorTypes'
<1>1. UNCHANGED objVars => ObjTypes'
  BY DEF Types, ObjTypes, objVars
<1>2. UNCHANGED <<diskVars, setVars, sizeVars, clean_blocked>> => StoreTypes'
  BY DEF Types, StoreTypes, diskVars, setVars, sizeVars
<1>3. UNCHANGED <<obj, old_obj, swapped, waiter>> /\ pc' \in [Rq -> RqPCs] => RqTypes'
  BY DEF Types, RqTypes
<1>4. UNCHANGED <<window, gc, killer>> => ActorTypes'
  BY DEF Types, ActorTypes
<1> QED BY <1>1, <1>2, <1>3, <1>4, Zenon

LEMMA RequestTypes ==
  ASSUME CacheAssumption, Types, ListsMatchChain, Places, NEW r \in Rq, RequestStep(r)
  PROVE  Types'
<1>a. \A l \in {"check", "lock", "swapin", "notice", "count", "wake", "wait", "failed",
                "miss", "serve", "reval", "drop", "store", "release", "done"} :
        Goto(r, l) => pc' \in [Rq -> RqPCs]
  BY GotoTypes, Zenon DEF RqPCs
<1>1. CASE Find(r)
  <2>1. StoreTypes' /\ ActorTypes' BY <1>1, TypesFrame, Zenon DEF Find, diskVars, setVars, sizeVars
  <2>2. refs' \in [Obj -> Int] /\ obj' \in [Rq -> Obj \cup {NULL}] /\ pc' \in [Rq -> RqPCs]
    BY <1>1, <1>a, ChainedAreObjects DEF Find, Hits, Types, ObjTypes, RqTypes
  <2>3. ObjTypes' BY <1>1, <2>2, Zenon DEF Find, Types, ObjTypes
  <2>4. RqTypes' BY <1>1, <2>2, Zenon DEF Find, Types, RqTypes
  <2> QED BY <2>1, <2>3, <2>4, Zenon DEF Types
<1>2. CASE Miss(r)
  <2>1. StoreTypes' /\ ActorTypes' BY <1>2, TypesFrame, Zenon DEF Miss, diskVars, setVars, sizeVars
  <2>2. CASE \E o \in Obj : Allocated(o) /\ refs' = [refs EXCEPT ![o] = 1]
                            /\ obj' = [obj EXCEPT ![r] = o] /\ Goto(r, "store")
    <3>a. obj' \in [Rq -> Obj \cup {NULL}] BY <2>2, Zenon DEF Types, RqTypes
    <3>b. pc' \in [Rq -> RqPCs] BY <2>2, <1>a, Zenon
    <3>1. RqTypes' BY <1>2, <3>a, <3>b, Zenon DEF Miss, Types, RqTypes
    <3>2. PICK o \in Obj : Allocated(o) /\ refs' = [refs EXCEPT ![o] = 1]
      BY <2>2, Zenon
    <3>3. refs' \in [Obj -> Int] BY <3>2 DEF Types, ObjTypes
    <3>4. ObjTypes' BY <1>2, <3>2, <3>3, AllocatedTypes, Zenon DEF Miss, Types, ObjTypes
    <3> QED BY <2>1, <3>1, <3>4, Zenon DEF Types
  <2>3. CASE Goto(r, "done") /\ UNCHANGED <<life, flags, data, refs, obj>>
    BY <1>2, <2>1, <2>3, <1>a, TypesFrame, Zenon DEF Miss, Types, objVars
  <2> QED BY <1>2, <2>2, <2>3, Zenon DEF Miss
<1>3. CASE Check(r) \/ Fresh(r) \/ KeepBoth(r) \/ StoreSkip(r)
  <2>1. pc' \in [Rq -> RqPCs]
    BY <1>3, <1>a, Zenon DEF Check, Fresh, KeepBoth, StoreSkip
  <2> QED BY <1>3, <2>1, TypesFrame, Zenon DEF Check, Fresh, KeepBoth, StoreSkip, Types
<1>4. CASE SwapInObject(r)
  <2>1. StoreTypes' /\ ActorTypes'
    BY <1>4, TypesFrame, Zenon DEF SwapInObject, diskVars, setVars, sizeVars
  <2>2. pc' \in [Rq -> RqPCs] /\ data' \in [Obj -> {NULL, "mem"} \cup Rq]
        /\ waiter' \in [Rq -> SUBSET Rq]
    BY <1>4, <1>a DEF SwapInObject, Types, ObjTypes, RqTypes
  <2>3. ObjTypes' BY <1>4, <2>2, Zenon DEF SwapInObject, Types, ObjTypes
  <2>4. RqTypes' BY <1>4, <2>2, Zenon DEF SwapInObject, Types, RqTypes
  <2> QED BY <2>1, <2>3, <2>4, Zenon DEF Types
<1>5. CASE SwapIn(r)
  <2>1. obj[r] \in Obj
    BY <1>5, ChainedAreObjects, Zenon DEF SwapIn, Places, Placed, Looking
  <2>2. StoreTypes' BY <1>5, TypesFrame, Zenon DEF SwapIn, diskVars, setVars, sizeVars
  <2>3. ActorTypes' BY <1>5, <2>1, Zenon DEF SwapIn, Types, ActorTypes, ObjTypes
  <2>a. data' \in [Obj -> {NULL, "mem"} \cup Rq] BY <1>5, Zenon DEF SwapIn, Types, ObjTypes
  <2>4. ObjTypes' BY <1>5, <2>a, Zenon DEF SwapIn, Types, ObjTypes
  <2>b. swapped' \in [Rq -> BOOLEAN]
    <3>1. PICK ok : swapped' = [swapped EXCEPT ![r] = ok] /\ ok \in {FALSE, (obj[r] \in file)}
      BY <1>5, Zenon DEF SwapIn
    <3>2. ok \in BOOLEAN
      <4>1. CASE obj[r] \in file BY <3>1, <4>1, Zenon
      <4>2. CASE obj[r] \notin file
        <5>1. (obj[r] \in file) = FALSE BY <4>2
        <5> QED BY <3>1, <5>1, Zenon
      <4> QED BY <4>1, <4>2, Zenon
    <3> QED BY <3>1, <3>2, Zenon DEF Types, RqTypes
  <2>c. pc' \in [Rq -> RqPCs] BY <1>5, <1>a, Zenon DEF SwapIn
  <2>5. RqTypes' BY <1>5, <2>b, <2>c, Zenon DEF SwapIn, Types, RqTypes
  <2> QED BY <2>2, <2>3, <2>4, <2>5, Zenon DEF Types
<1>6. CASE Notice(r)
  <2>1. StoreTypes' BY <1>6, TypesFrame, Zenon DEF Notice, diskVars, setVars, sizeVars
  <2>2. ActorTypes' BY <1>6, Zenon DEF Notice, Types, ActorTypes
  <2>3. ObjTypes' BY <1>6, Zenon DEF Notice, Types, ObjTypes, ActorTypes, Flags
  <2>4. RqTypes' BY <1>6, <1>a, Zenon DEF Notice, Types, RqTypes
  <2> QED BY <2>1, <2>2, <2>3, <2>4, Zenon DEF Types
<1>7. CASE NoticeCount(r)
  <2>1. ObjTypes' /\ ActorTypes' /\ RqTypes'
    BY <1>7, <1>a, TypesFrame, Zenon DEF NoticeCount
  <2>2. StoreTypes'
    BY <1>7 DEF NoticeCount, Types, StoreTypes, diskVars, setVars
  <2> QED BY <2>1, <2>2, Zenon DEF Types
<1>8. CASE NoticeWake(r)
  <2>1. ObjTypes' /\ ActorTypes' /\ StoreTypes'
    BY <1>8, TypesFrame, Zenon DEF NoticeWake, diskVars, setVars, sizeVars
  <2>2. RqTypes' BY <1>8, Zenon DEF NoticeWake, Types, RqTypes, RqPCs
  <2> QED BY <2>1, <2>2, Zenon DEF Types
<1>9. CASE Failed(r) \/ NotModified(r) \/ DropOldObj(r) \/ Release(r)
  <2>1. ActorTypes'
    BY <1>9, TypesFrame, Zenon DEF Failed, NotModified, DropOldObj, Release
  <2>2. PICK o : Unref(o)
    BY <1>9, Zenon DEF Failed, NotModified, DropOldObj, Release
  <2>3. ObjTypes' /\ StoreTypes'
    <3>1. UNCHANGED <<flags, dirty, data, lost, setVars, sizeVars, clean_blocked>>
      BY <1>9, Zenon DEF Failed, NotModified, DropOldObj, Release
    <3> QED BY <2>2, <3>1, UnrefTypes, Zenon DEF Types, ObjTypes, StoreTypes, setVars, sizeVars
  <2>4. RqTypes'
    BY <1>9, <1>a, Zenon DEF Failed, NotModified, DropOldObj, Release, Types, RqTypes
  <2> QED BY <2>1, <2>3, <2>4, Zenon DEF Types
<1>11. CASE Expired(r)
  <2>1. StoreTypes' /\ ActorTypes' BY <1>11, TypesFrame, Zenon DEF Expired, diskVars, setVars, sizeVars
  <2>a. PICK o \in Obj : /\ Allocated(o) /\ refs' = [refs EXCEPT ![o] = 1]
                         /\ obj' = [obj EXCEPT ![r] = o]
    BY <1>11, Zenon DEF Expired
  <2>b. refs' \in [Obj -> Int] BY <2>a DEF Types, ObjTypes
  <2>2. ObjTypes' BY <1>11, <2>a, <2>b, AllocatedTypes, Zenon DEF Expired, Types, ObjTypes
  <2>c. pc' \in [Rq -> RqPCs] BY <1>11, <1>a, Zenon DEF Expired
  <2>d. obj' \in [Rq -> Obj \cup {NULL}] /\ old_obj' \in [Rq -> Obj \cup {NULL}]
    BY <1>11, <2>a, Zenon DEF Expired, Types, RqTypes
  <2>3. RqTypes' BY <1>11, <2>c, <2>d, Zenon DEF Expired, Types, RqTypes
  <2> QED BY <2>1, <2>2, <2>3, Zenon DEF Types
<1>13. CASE DeadOldObj(r) \/ StoreDead(r)
  <2>1. old_obj[r] \in Obj /\ CacheDead(old_obj[r])
    BY <1>13, Zenon DEF DeadOldObj, StoreDead, Places, Placed, Types, RqTypes
  <2>2. ActorTypes' /\ RqTypes'
    BY <1>13, <1>a, TypesFrame, Zenon DEF DeadOldObj, StoreDead
  <2>3. UNCHANGED <<life, data, refs, diskVars, hash, sizeVars, clean_blocked>>
    BY <1>13, Zenon DEF DeadOldObj, StoreDead
  <2>4. ObjTypes' /\ StoreTypes'
    BY <2>1, <2>3, CacheDeadTypes, Zenon DEF Types, ObjTypes, StoreTypes, diskVars, sizeVars
  <2> QED BY <2>2, <2>4, Zenon DEF Types
<1>15. CASE StoreRate(r)
  <2>1. ObjTypes' /\ ActorTypes' /\ RqTypes'
    BY <1>15, <1>a, TypesFrame, Zenon DEF StoreRate
  <2>2. PICK o \in Obj : objList' = Rated(o)
    BY <1>15, Zenon DEF StoreRate, Places, Placed, Types, RqTypes
  <2>3. \A l \in Lists : /\ Unlinked(objList[l], o) \in Seq(Obj)
                         /\ Append(Unlinked(objList[l], o), o) \in Seq(Obj)
    BY UnlinkedTypes, AppendFacts, Zenon
  <2>4. objList' \in [Lists -> Seq(Obj)]
    BY <2>2, <2>3, Zenon DEF Rated
  <2>5. StoreTypes'
    BY <1>15, <2>4, Zenon DEF StoreRate, Types, StoreTypes, diskVars, sizeVars
  <2> QED BY <2>1, <2>5, Zenon DEF Types
<1>17. CASE StoreNew(r)
  <2>1. ActorTypes' /\ RqTypes'
    BY <1>17, <1>a, TypesFrame, Zenon DEF StoreNew
  <2>2. obj[r] \in Obj /\ "mem" \in Lists
    BY <1>17, Zenon DEF StoreNew, Places, Placed, Types, RqTypes, Lists
  <2>3. PICK bits \in SUBSET Flags : CacheAdd(obj[r], "mem", bits)
    BY <1>17, Zenon DEF StoreNew, Flags
  <2>4. ObjTypes'
    BY <1>17, <2>2, <2>3, CacheAddTypes DEF StoreNew, Types, ObjTypes
  <2>5. StoreTypes'
    BY <1>17, <2>2, <2>3, CacheAddTypes, Zenon DEF StoreNew, Types, StoreTypes
  <2> QED BY <2>1, <2>4, <2>5, Zenon DEF Types
<1> QED
  BY <1>1, <1>2, <1>3, <1>4, <1>5, <1>6, <1>7, <1>8, <1>9, <1>11, <1>13, <1>15, <1>17,
     Zenon DEF RequestStep

\* What a collector picks: objects of the list, each once, that nobody else uses.
LEMMA PicksFacts ==
  ASSUME Cardinals, Types, NEW l \in Lists, NEW kill, NEW s \in LastFirst(Picks(l, kill)),
         NEW swapout \in BOOLEAN, IsInjective(objList[l])
  PROVE  /\ Todo(l, s, swapout) \in Seq(Picked)
         /\ Len(Todo(l, s, swapout)) = Len(s) /\ Len(s) \in Nat
         /\ s = <<>> <=> Len(s) = 0
         /\ \A i \in 1..Len(s) : /\ InList(l, Todo(l, s, swapout)[i].o)
                                 /\ refs[Todo(l, s, swapout)[i].o] <= 1
         /\ \A i, j \in 1..Len(s) :
              Todo(l, s, swapout)[i].o = Todo(l, s, swapout)[j].o => i = j
<1> DEFINE P == Picks(l, kill)
           n == Cardinality(P)
<1>1. objList[l] \in Seq(Obj) /\ DOMAIN objList[l] = 1..Len(objList[l]) /\ Len(objList[l]) \in Nat
  BY DEF Types, StoreTypes
<1>2. P \subseteq DOMAIN objList[l] /\ \A i \in P : refs[objList[l][i]] <= 1
  BY Zenon DEF Picks, Unreferenced
<1>3. n \in Nat
  <2>1. P \in SUBSET (1..Len(objList[l])) BY <1>1, <1>2, Zenon
  <2> HIDE DEF P
  <2>2. IsFiniteSet(P) BY <1>1, <2>1, Zenon DEF Cardinals
  <2> QED BY <2>2, Zenon DEF Cardinals
<1>4. s \in [1..n -> P] /\ \A i, j \in 1..n : i < j => s[i] > s[j]
  BY Zenon DEF LastFirst
<1> HIDE DEF P, n
<1>5. Len(s) = n /\ (s = <<>> <=> n = 0)
  BY <1>3, <1>4
<1>6. \A i, j \in 1..n : s[i] = s[j] => i = j
  BY <1>1, <1>2, <1>3, <1>4
<1> DEFINE t == Todo(l, s, swapout)
<1>7. \A i \in 1..n : t[i].o = objList[l][s[i]]
  BY <1>5, Zenon DEF Todo, Entry
<1>8. \A i \in 1..n : t[i] \in Picked
  BY <1>1, <1>2, <1>4, <1>5 DEF Todo, Entry, Picked
<1>9. t \in Seq(Picked) /\ Len(t) = n
  <2>1. DOMAIN t = 1..n /\ t \in [1..n -> Picked]
    BY <1>5, <1>8, Zenon DEF Todo
  <2> QED BY <2>1, <1>3
<1>10. \A i \in 1..n : InList(l, t[i].o) /\ refs[t[i].o] <= 1
  BY <1>2, <1>4, <1>7, Zenon DEF InList, Range
<1>11. \A i, j \in 1..n : t[i].o = t[j].o => i = j
  <2> TAKE i, j \in 1..n
  <2>1. s[i] \in DOMAIN objList[l] /\ s[j] \in DOMAIN objList[l] BY <1>2, <1>4, Zenon
  <2>2. objList[l][s[i]] = objList[l][s[j]] => s[i] = s[j] BY <2>1, Zenon DEF IsInjective
  <2> QED BY <1>6, <1>7, <2>2, Zenon
<1> QED BY <1>3, <1>5, <1>9, <1>10, <1>11, Zenon

\* The entry after the head.
LEMMA TailFacts ==
  ASSUME NEW S, NEW t \in Seq(S), Len(t) > 0
  PROVE  /\ Tail(t) \in Seq(S) /\ Len(Tail(t)) = Len(t) - 1 /\ Len(t) \in Nat \ {0}
         /\ 1 \in 1..Len(t) /\ t[1] \in S
         /\ \A i \in 1..Len(Tail(t)) : i + 1 \in 1..Len(t) /\ Tail(t)[i] = t[i + 1]
<1>1. Len(t) \in Nat \ {0} /\ 1 \in 1..Len(t) /\ t[1] \in S
  OBVIOUS
<1>2. Tail(t) \in Seq(S) /\ Len(Tail(t)) = Len(t) - 1
  OBVIOUS
<1>3. \A i \in 1..Len(t) - 1 : i + 1 \in 1..Len(t) /\ Tail(t)[i] = t[i + 1]
  BY <1>1
<1> QED BY <1>1, <1>2, <1>3, Zenon

\* The collector's next entry.
LEMMA NextPickTypes ==
  ASSUME Types, Passes, NEW c \in Collectors, gc[c].pc # "idle"
  PROVE  /\ At(c) \in Obj
         /\ NextPick(c) => gc' \in [Collectors -> Collection]
<1>1. gc[c] \in Collection /\ Len(gc[c].todo) > 0
  BY Zenon DEF Types, ActorTypes, Passes, Passing
<1>2. gc[c].todo[1] \in Picked /\ Tail(gc[c].todo) \in Seq(Picked)
  BY <1>1, TailFacts, Zenon DEF Collection
<1>3. At(c) \in Obj
  BY <1>2, Zenon DEF At, Picked
<1>4. ASSUME NextPick(c) PROVE gc' \in [Collectors -> Collection]
  BY <1>1, <1>2, <1>4, Zenon DEF NextPick, Types, ActorTypes, Collection
<1> QED BY <1>3, <1>4, Zenon

LEMMA CollectorTypes ==
  ASSUME CacheAssumption, Cardinals, Types, ListsMatchChain, Passes, NEW c \in Collectors,
         FlushBegin(c) \/ Collect(c) \/ CollectorStep(c)
  PROVE  Types'
<1>a. UNCHANGED rqVars => RqTypes'
  BY TypesFrame, Zenon DEF rqVars, Types, RqTypes
<1>b. ASSUME NEW x \in {"idle", "pick", "moved", "failed", "free"}
      PROVE  [gc EXCEPT ![c].pc = x] \in [Collectors -> Collection]
  BY ZenonT(30) DEF Types, ActorTypes, Collection
<1>c. UNCHANGED <<window, killer>> /\ gc' \in [Collectors -> Collection] => ActorTypes'
  BY Zenon DEF Types, ActorTypes
<1>1. CASE FlushBegin(c)
  <2>1. StoreTypes' BY <1>1, Zenon DEF FlushBegin, Types, StoreTypes, diskVars, setVars, sizeVars
  <2> QED BY <1>1, <1>a, <2>1, TypesFrame, Zenon DEF FlushBegin, Types
<1>2. CASE Collect(c)
  <2>1. PICK l \in Lists, swapout \in BOOLEAN :
          \E kill \in 0..Len(objList[l]) : \E s \in LastFirst(Picks(l, kill)) :
             /\ dropDead' = IF StopsAt(l, kill) = {} THEN dropDead ELSE dropDead \ {l}
             /\ gc' = [gc EXCEPT ![c] =
                   [pc |-> IF s = <<>> THEN "idle" ELSE "pick", list |-> l,
                    swapout |-> swapout, todo |-> Todo(l, s, swapout)]]
    BY <1>2, ZenonT(30) DEF Collect
  <2>2. PICK kill, s : /\ s \in LastFirst(Picks(l, kill))
                       /\ dropDead' = IF StopsAt(l, kill) = {} THEN dropDead ELSE dropDead \ {l}
                       /\ gc' = [gc EXCEPT ![c] =
                             [pc |-> IF s = <<>> THEN "idle" ELSE "pick", list |-> l,
                              swapout |-> swapout, todo |-> Todo(l, s, swapout)]]
    BY <2>1, Zenon
  <2>3. Todo(l, s, swapout) \in Seq(Picked)
    BY <2>2, PicksFacts, Zenon DEF ListsMatchChain
  <2>4. gc' \in [Collectors -> Collection]
    BY <2>2, <2>3, Zenon DEF Types, ActorTypes, Collection
  <2>5. StoreTypes'
    BY <1>2, <2>2, Zenon DEF Collect, Types, StoreTypes, diskVars, setVars, sizeVars
  <2> QED BY <1>2, <1>a, <1>c, <2>4, <2>5, TypesFrame, Zenon DEF Collect, Types
<1>3. CASE SwapoutHead(c)
  <2>1. At(c) \in Obj BY <1>3, NextPickTypes, Zenon DEF SwapoutHead, Swaps
  <2>2. ObjTypes' BY <1>3, Zenon DEF SwapoutHead, Types, ObjTypes
  <2>3. StoreTypes'
    BY <1>3, <2>1, Zenon DEF SwapoutHead, Types, StoreTypes, diskVars, setVars, sizeVars
  <2>4. gc' \in [Collectors -> Collection]
    BY <1>3, <1>b, Zenon DEF SwapoutHead
  <2> QED BY <1>3, <1>a, <1>c, <2>2, <2>3, <2>4, Zenon DEF SwapoutHead, Types
<1>4. CASE SwapoutBody(c)
  <2>1. At(c) \in Obj BY <1>4, NextPickTypes, Zenon DEF SwapoutBody, Swaps
  <2>2. ObjTypes' BY <1>4, Zenon DEF SwapoutBody, Types, ObjTypes
  <2>3. StoreTypes'
    BY <1>4, <2>1 DEF SwapoutBody, Written, Types, StoreTypes, setVars
  <2>4. gc' \in [Collectors -> Collection]
    BY <1>4, <1>b, Zenon DEF SwapoutBody
  <2> QED BY <1>4, <1>a, <1>c, <2>2, <2>3, <2>4, Zenon DEF SwapoutBody, Types
<1>5. CASE SwapoutTrue(c)
  <2>1. At(c) \in Obj /\ gc[c].list \in Lists /\ gc' \in [Collectors -> Collection]
    BY <1>5, NextPickTypes, ZenonT(30) DEF SwapoutTrue, Types, ActorTypes, Collection
  <2>2. ObjTypes' BY <1>5 DEF SwapoutTrue, Types, ObjTypes, Flags
  <2>3. objList' \in [Lists -> Seq(Obj)]
    <3>1. Unlinked(objList[gc[c].list], At(c)) \in Seq(Obj)
      BY <2>1, UnlinkedTypes, Zenon
    <3>2. [objList EXCEPT ![gc[c].list] = Unlinked(@, At(c))] \in [Lists -> Seq(Obj)]
      BY <3>1, Zenon DEF Types, StoreTypes
    <3>3. PICK lists \in [Lists -> Seq(Obj)] :
            lists = [objList EXCEPT ![gc[c].list] = Unlinked(@, At(c))]
      BY <3>2, Zenon
    <3>4. Demoted(c) = [lists EXCEPT !["disk"] = Append(@, At(c))]
      BY <3>3, Zenon DEF Demoted
    <3>5. Append(lists["disk"], At(c)) \in Seq(Obj)
      BY <2>1, AppendFacts, Zenon DEF Lists
    <3>6. Demoted(c) \in [Lists -> Seq(Obj)]
      BY <3>4, <3>5, Zenon
    <3> QED BY <1>5, <3>6, Zenon DEF SwapoutTrue, Types, StoreTypes
  <2>4. StoreTypes'
    BY <1>5, <2>3 DEF SwapoutTrue, SetBlocked, Types, StoreTypes, diskVars
  <2> QED BY <1>5, <1>a, <1>c, <2>1, <2>2, <2>4, ZenonT(30) DEF SwapoutTrue, Types
<1>6. CASE SwapoutFalse(c)
  <2>1. gc[c].list \in Lists /\ gc' \in [Collectors -> Collection]
    BY <1>6, <1>b, NextPickTypes, Zenon DEF SwapoutFalse, Types, ActorTypes, Collection
  <2>2. ObjTypes' BY <1>6, TypesFrame, Zenon DEF SwapoutFalse
  <2>3. objList' \in [Lists -> Seq(Obj)] /\ hash' \in Seq(Obj)
    <3>1. Unlinked(objList[gc[c].list], At(c)) \in Seq(Obj)
      BY <2>1, UnlinkedTypes, Zenon
    <3>2. [objList EXCEPT ![gc[c].list] = Unlinked(@, At(c))] \in [Lists -> Seq(Obj)]
      BY <3>1, ZenonT(30) DEF Types, StoreTypes
    <3>3. Unlinked(hash, At(c)) \in Seq(Obj)
      BY UnlinkedFacts, Zenon DEF Types, StoreTypes, ListsMatchChain
    <3> QED BY <1>6, <3>2, <3>3, Zenon DEF SwapoutFalse, Types, StoreTypes
  <2>4. StoreTypes'
    BY <1>6, <2>3, SMTT(30) DEF SwapoutFalse, SetBlocked, Counted, Types, StoreTypes, diskVars, sizeVars
  <2> QED BY <1>6, <1>a, <1>c, <2>1, <2>2, <2>4, Zenon DEF SwapoutFalse, Types
<1>7. CASE FreeObj(c)
  <2>1. gc' \in [Collectors -> Collection]
    BY <1>7, NextPickTypes, Zenon DEF FreeObj
  <2>2. ObjTypes' /\ StoreTypes'
    BY <1>7, UnrefTypes, Zenon DEF FreeObj, Types, ObjTypes, StoreTypes, setVars, sizeVars
  <2> QED BY <1>7, <1>a, <1>c, <2>1, <2>2, Zenon DEF FreeObj, Types
<1> QED BY <1>1, <1>2, <1>3, <1>4, <1>5, <1>6, <1>7, Zenon DEF CollectorStep

LEMMA KillerTypes ==
  ASSUME CacheAssumption, Types, NEW k \in Killers,
         Purge(k) \/ CleanCache(k) \/ KillerStep(k)
  PROVE  Types'
<1>a. UNCHANGED rqVars => RqTypes'
  BY TypesFrame, Zenon DEF rqVars, Types, RqTypes
<1>b. ASSUME NEW x \in Killing PROVE [killer EXCEPT ![k] = x] \in [Killers -> Killing]
  BY DEF Types, ActorTypes
<1>1. CASE Purge(k)
  <2>1. killer' \in [Killers -> Killing]
    <3>1. PICK live : /\ live \subseteq Range(hash)
                      /\ killer' = [killer EXCEPT ![k] = [lock |-> "hash", todo |-> live, at |-> NULL]]
      BY <1>1, Zenon DEF Purge
    <3>2. [lock |-> "hash", todo |-> live, at |-> NULL] \in Killing
      BY <3>1, ChainedAreObjects, Zenon DEF Killing, Chained
    <3> QED BY <1>b, <3>1, <3>2, Zenon
  <2>2. ActorTypes' BY <1>1, <2>1, Zenon DEF Purge, Types, ActorTypes
  <2> QED BY <1>1, <1>a, <2>2, TypesFrame, Zenon DEF Purge, Types
<1>2. CASE CleanCache(k)
  <2>1. killer' \in [Killers -> Killing]
    <3>1. PICK todo \in SUBSET Obj :
                 killer' = [killer EXCEPT ![k] = [lock |-> "cache", todo |-> todo, at |-> NULL]]
      BY <1>2, Zenon DEF CleanCache
    <3>2. [lock |-> "cache", todo |-> todo, at |-> NULL] \in Killing
      BY Zenon DEF Killing
    <3> QED BY <1>b, <3>1, <3>2, Zenon
  <2>2. ActorTypes' BY <1>2, <2>1, Zenon DEF CleanCache, Types, ActorTypes
  <2>3. StoreTypes' BY <1>2, Zenon DEF CleanCache, Types, StoreTypes, diskVars, sizeVars
  <2> QED BY <1>2, <1>a, <2>2, <2>3, TypesFrame, Zenon DEF CleanCache, Types
<1>3. CASE DeadRead(k)
  <2>1. PICK o \in killer[k].todo : /\ killer' = [killer EXCEPT ![k].at = o]
                                    /\ window' = [window EXCEPT ![k] = flags[o]]
    BY <1>3, Zenon DEF DeadRead
  <2>2. ActorTypes' BY <1>3, <2>1, SMTT(30) DEF DeadRead, Types, ActorTypes, ObjTypes, Killing
  <2> QED BY <1>3, <1>a, <2>2, TypesFrame, Zenon DEF DeadRead, Types
<1>4. CASE DeadWrite(k)
  <2>1. killer[k] \in Killing /\ killer[k].at \in Obj /\ window[k] \in SUBSET Flags
    BY <1>4, Zenon DEF DeadWrite, Types, ActorTypes, Killing
  <2>2. killer' \in [Killers -> Killing]
    BY <1>4, <2>1, Zenon DEF DeadWrite, Types, ActorTypes, Killing
  <2>3. ActorTypes' BY <1>4, <2>2, Zenon DEF DeadWrite, Types, ActorTypes
  <2>4. ObjTypes' BY <1>4, <2>1, Zenon DEF DeadWrite, Types, ObjTypes, Flags
  <2>5. StoreTypes'
    BY <1>4, TypesFrame, Zenon DEF DeadWrite
  <2> QED BY <1>4, <1>a, <2>3, <2>4, <2>5, Zenon DEF DeadWrite, Types
<1> QED BY <1>1, <1>2, <1>3, <1>4, Zenon DEF KillerStep

LEMMA LoadIndexTypes ==
  ASSUME CacheAssumption, Types, NEW o \in Obj, LoadIndex(o)
  PROVE  Types'
<1>1. CacheAdd(o, "disk", {"IN_DISK"}) /\ "disk" \in Lists /\ {"IN_DISK"} \in SUBSET Flags
  BY DEF LoadIndex, Lists, Flags
<1>2. RqTypes' /\ ActorTypes'
  BY TypesFrame, Zenon DEF LoadIndex, rqVars, Types, RqTypes
<1>3. ObjTypes' BY <1>1, CacheAddTypes DEF LoadIndex, Types, ObjTypes
<1>4. StoreTypes' BY <1>1, CacheAddTypes, Zenon DEF LoadIndex, Types, StoreTypes
<1> QED BY <1>2, <1>3, <1>4, Zenon DEF Types

-----------------------------------------------------------------------------
(* The lists and the chain *)

\* An object of the chain is in one of the lists.
LEMMA InCacheChained ==
  ASSUME Types, ListsMatchChain, NEW o
  PROVE  in_cache(o) <=> o \in Chained
BY DEF ListsMatchChain, in_cache, InList, Lists, Chained

\* KObjectList::dead only reorders a list.
LEMMA AtHeadEffect ==
  ASSUME Types, ListsMatchChain, NEW o \in Obj, objList' = AtHead(o), hash' = hash
  PROVE  /\ ListsMatchChain' /\ Chained' = Chained
         /\ \A l \in Lists : Range(objList'[l]) = Range(objList[l])
<1>1. ASSUME NEW l \in Lists
      PROVE  IsInjective(objList'[l]) /\ Range(objList'[l]) = Range(objList[l])
  <2>1. objList[l] \in Seq(Obj) /\ IsInjective(objList[l])
    BY Zenon DEF Types, StoreTypes, ListsMatchChain
  <2>2. objList'[l] = IF InList(l, o) THEN <<o>> \o Unlinked(objList[l], o) ELSE objList[l]
    BY Zenon DEF AtHead
  <2>3. CASE InList(l, o)
    <3>1. /\ Unlinked(objList[l], o) \in Seq(Obj) /\ IsInjective(Unlinked(objList[l], o))
          /\ Range(Unlinked(objList[l], o)) = Range(objList[l]) \ {o}
      BY <2>1, UnlinkedFacts, Zenon
    <3>2. /\ Range(<<o>> \o Unlinked(objList[l], o)) = Range(Unlinked(objList[l], o)) \cup {o}
          /\ IsInjective(<<o>> \o Unlinked(objList[l], o))
      BY <3>1, PrependFacts
    <3> QED BY <2>2, <2>3, <3>1, <3>2, Zenon DEF InList
  <2> QED BY <2>1, <2>2, <2>3, Zenon
<1>2. "mem" \in Lists /\ "disk" \in Lists
  BY DEF Lists
<1> QED BY <1>1, <1>2, Zenon DEF ListsMatchChain, Chained

\* KCache::rate moves an object to the tail of the list its flags name.
LEMMA RatedEffect ==
  ASSUME Types, ListsMatchChain, NEW o \in Obj, in_cache(o), objList' = Rated(o),
         hash' = hash
  PROVE  /\ ListsMatchChain' /\ Chained' = Chained
         /\ Range(objList'["mem"]) = IF "IN_MEM" \in flags[o] THEN Range(objList["mem"]) \cup {o}
                                                            ELSE Range(objList["mem"]) \ {o}
<1> DEFINE home == IF "IN_MEM" \in flags[o] THEN "mem" ELSE "disk"
<1>1. ASSUME NEW l \in Lists
      PROVE  /\ IsInjective(objList'[l])
             /\ Range(objList'[l]) = IF l = home THEN Range(objList[l]) \cup {o}
                                                 ELSE Range(objList[l]) \ {o}
  <2>1. objList[l] \in Seq(Obj) /\ IsInjective(objList[l])
    BY Zenon DEF Types, StoreTypes, ListsMatchChain
  <2>2. objList'[l] = IF l = home THEN Append(Unlinked(objList[l], o), o)
                                  ELSE Unlinked(objList[l], o)
    BY Zenon DEF Rated
  <2>3. /\ Unlinked(objList[l], o) \in Seq(Obj) /\ IsInjective(Unlinked(objList[l], o))
        /\ Range(Unlinked(objList[l], o)) = Range(objList[l]) \ {o}
    BY <2>1, UnlinkedFacts, Zenon
  <2>4. /\ Range(Append(Unlinked(objList[l], o), o)) = Range(Unlinked(objList[l], o)) \cup {o}
        /\ IsInjective(Append(Unlinked(objList[l], o), o))
    BY <2>3, AppendFacts
  <2> HIDE DEF home
  <2> QED BY <2>2, <2>3, <2>4, Zenon
<1>2. "mem" \in Lists /\ "disk" \in Lists /\ home \in Lists
  BY DEF Lists
<1>3. o \in Range(hash)
  BY InCacheChained, Zenon DEF Chained
<1>4. Range(hash') = Range(objList'["mem"]) \cup Range(objList'["disk"])
  BY <1>1, <1>2, <1>3, ZenonT(30) DEF ListsMatchChain
<1>5. Range(objList'["mem"]) \cap Range(objList'["disk"]) = {}
  BY <1>1, <1>2, Zenon DEF ListsMatchChain
<1> QED BY <1>1, <1>2, <1>4, <1>5, Zenon DEF ListsMatchChain, Chained

\* KCache::add: the object enters the chain and one list.
LEMMA AddEffect ==
  ASSUME Types, ListsMatchChain, NEW o \in Obj, o \notin Chained, NEW l \in Lists,
         NEW bits, CacheAdd(o, l, bits)
  PROVE  /\ ListsMatchChain' /\ Chained' = Chained \cup {o}
         /\ Range(objList'["mem"]) = Range(objList["mem"]) \cup (IF l = "mem" THEN {o} ELSE {})
<1>1. hash' = <<o>> \o hash /\ objList' = [objList EXCEPT ![l] = Append(@, o)]
  BY Zenon DEF CacheAdd
<1>2. IsInjective(hash') /\ Range(hash') = Range(hash) \cup {o}
  BY <1>1, PrependFacts DEF Types, StoreTypes, ListsMatchChain, Chained
<1>3. ASSUME NEW m \in Lists
      PROVE  /\ IsInjective(objList'[m])
             /\ Range(objList'[m]) = Range(objList[m]) \cup (IF l = m THEN {o} ELSE {})
  <2>1. objList[m] \in Seq(Obj) /\ IsInjective(objList[m]) /\ o \notin Range(objList[m])
    BY Zenon DEF Types, StoreTypes, ListsMatchChain, Chained, Lists
  <2>2. objList'[m] = IF m = l THEN Append(objList[m], o) ELSE objList[m]
    BY <1>1, Zenon DEF Types, StoreTypes
  <2>3. /\ Range(Append(objList[m], o)) = Range(objList[m]) \cup {o}
        /\ IsInjective(Append(objList[m], o))
    BY <2>1, AppendFacts
  <2> QED BY <2>1, <2>2, <2>3, Zenon
<1>4. "mem" \in Lists /\ "disk" \in Lists /\ (l = "mem" \/ l = "disk")
  BY DEF Lists
<1> QED BY <1>2, <1>3, <1>4 DEF ListsMatchChain, Chained

\* swapout_result(true) moves an object from the memory list to the disk list.
LEMMA DemoteEffect ==
  ASSUME Types, ListsMatchChain, NEW c \in Collectors, gc[c].list = "mem",
         InList("mem", At(c)), objList' = Demoted(c), hash' = hash
  PROVE  /\ ListsMatchChain' /\ Chained' = Chained
         /\ Range(objList'["mem"]) = Range(objList["mem"]) \ {At(c)}
<1> DEFINE o == At(c)
<1>1. /\ objList["mem"] \in Seq(Obj) /\ IsInjective(objList["mem"]) /\ o \in Range(objList["mem"])
      /\ objList["disk"] \in Seq(Obj) /\ IsInjective(objList["disk"])
      /\ o \notin Range(objList["disk"])
  BY Zenon DEF Types, StoreTypes, ListsMatchChain, Lists, InList
<1>2. o \in Obj
  BY <1>1 DEF Range
<1>3. objList'["mem"] = Unlinked(objList["mem"], o) /\ objList'["disk"] = Append(objList["disk"], o)
  BY Zenon DEF Demoted, Types, StoreTypes, Lists
<1> HIDE DEF o
<1>4. /\ IsInjective(Unlinked(objList["mem"], o))
      /\ Range(Unlinked(objList["mem"], o)) = Range(objList["mem"]) \ {o}
  BY <1>1, UnlinkedFacts, Zenon
<1>5. /\ IsInjective(Append(objList["disk"], o))
      /\ Range(Append(objList["disk"], o)) = Range(objList["disk"]) \cup {o}
  BY <1>1, <1>2, AppendFacts, SMTT(30)
<1>6. ListsMatchChain'
  BY <1>1, <1>3, <1>4, <1>5, Zenon DEF ListsMatchChain, Lists
<1> QED BY <1>3, <1>4, <1>6, Zenon DEF Chained, o

\* swapout_result(false) takes an object from its list and from the chain.
LEMMA RemoveEffect ==
  ASSUME Types, ListsMatchChain, NEW l \in Lists, NEW o, InList(l, o),
         objList' = [objList EXCEPT ![l] = Unlinked(@, o)], hash' = Unlinked(hash, o)
  PROVE  /\ ListsMatchChain' /\ Chained' = Chained \ {o}
         /\ Range(objList'["mem"]) \subseteq Range(objList["mem"])
<1>1. IsInjective(hash') /\ Range(hash') = Range(hash) \ {o}
  BY UnlinkedFacts, Zenon DEF Types, StoreTypes, ListsMatchChain
<1>2. ASSUME NEW m \in Lists
      PROVE  /\ IsInjective(objList'[m])
             /\ Range(objList'[m]) = Range(objList[m]) \ {o}
  <2>1. objList[m] \in Seq(Obj) /\ IsInjective(objList[m])
    BY Zenon DEF Types, StoreTypes, ListsMatchChain
  <2>2. objList'[m] = IF m = l THEN Unlinked(objList[m], o) ELSE objList[m]
    BY Zenon DEF Types, StoreTypes
  <2>3. /\ IsInjective(Unlinked(objList[m], o))
        /\ Range(Unlinked(objList[m], o)) = Range(objList[m]) \ {o}
    BY <2>1, UnlinkedFacts, Zenon
  <2>4. m # l => o \notin Range(objList[m])
    BY DEF ListsMatchChain, InList, Lists
  <2> QED BY <2>1, <2>2, <2>3, <2>4, Zenon
<1>3. "mem" \in Lists /\ "disk" \in Lists
  BY DEF Lists
<1> QED BY <1>1, <1>2, <1>3, Zenon DEF ListsMatchChain, Chained

-----------------------------------------------------------------------------
(* What the exact reference count says: an object that is held or in the    *)
(* chain is allocated, and a collector finds no holder of what it removes.  *)

LEMMA HeldFacts ==
  ASSUME CacheAssumption, Cardinals, Types, RefsExact, NEW o \in Obj
  PROVE  /\ IsFiniteSet(Holders(o)) /\ Cardinality(Holders(o)) \in Nat /\ refs[o] \in Nat
         /\ o \in Chained \/ Holders(o) # {} \/ Freeing(o) => life[o] = "live"
         /\ o \in Chained /\ refs[o] <= 1 => Holders(o) = {}
         /\ refs[o] = 1 /\ Holders(o) # {} => o \notin Chained
<1>1. IsFiniteSet(Holders(o))
  <2>1. Holders(o) \in SUBSET Rq BY DEF Holders
  <2> QED BY <2>1, Zenon DEF Cardinals, CacheAssumption
<1>2. Cardinality(Holders(o)) \in Nat /\ (Holders(o) # {} => Cardinality(Holders(o)) # 0)
  BY <1>1, Zenon DEF Cardinals
<1>3. /\ refs[o] = Cardinality(Holders(o)) + (IF o \in Chained \/ Freeing(o) THEN 1 ELSE 0)
      /\ (life[o] = "live") = (refs[o] > 0)
  BY Zenon DEF RefsExact, Chained
<1> HIDE DEF Holders, Freeing
<1> QED BY <1>1, <1>2, <1>3

\* Who holds what.
LEMMA HoldersOf ==
  ASSUME NEW o PROVE \A r \in Rq : r \in Holders(o) <=> obj[r] = o \/ old_obj[r] = o
BY DEF Holders

\* A request's step touches the references of no other request.
LEMMA OthersKeep ==
  ASSUME Types, NEW r \in Rq, RequestStep(r), NEW q \in Rq, q # r
  PROVE  /\ obj'[q] = obj[q] /\ old_obj'[q] = old_obj[q]
         /\ ~NoticeWake(r) => pc'[q] = pc[q] /\ swapped'[q] = swapped[q]
<1> USE DEF Types, RqTypes, Goto
<1>1. CASE Find(r) BY <1>1, Zenon DEF Find
<1>2. CASE Miss(r) BY <1>2, Zenon DEF Miss
<1>3. CASE Check(r) BY <1>3, Zenon DEF Check
<1>4. CASE SwapInObject(r) BY <1>4, Zenon DEF SwapInObject
<1>5. CASE SwapIn(r) BY <1>5, Zenon DEF SwapIn
<1>6. CASE Notice(r) BY <1>6, Zenon DEF Notice
<1>7. CASE NoticeCount(r) BY <1>7, Zenon DEF NoticeCount
<1>8. CASE NoticeWake(r) BY <1>8, Zenon DEF NoticeWake
<1>9. CASE Failed(r) BY <1>9, Zenon DEF Failed
<1>10. CASE Fresh(r) BY <1>10, Zenon DEF Fresh
<1>11. CASE Expired(r) BY <1>11, Zenon DEF Expired
<1>12. CASE NotModified(r) BY <1>12, Zenon DEF NotModified
<1>13. CASE KeepBoth(r) BY <1>13, Zenon DEF KeepBoth
<1>14. CASE DeadOldObj(r) BY <1>14, Zenon DEF DeadOldObj
<1>15. CASE DropOldObj(r) BY <1>15, Zenon DEF DropOldObj
<1>16. CASE StoreRate(r) BY <1>16, Zenon DEF StoreRate
<1>17. CASE StoreDead(r) BY <1>17, Zenon DEF StoreDead
<1>18. CASE StoreNew(r) BY <1>18, Zenon DEF StoreNew
<1>19. CASE StoreSkip(r) BY <1>19, Zenon DEF StoreSkip
<1>20. CASE Release(r) BY <1>20, Zenon DEF Release
<1> QED
  BY <1>1, <1>2, <1>3, <1>4, <1>5, <1>6, <1>7, <1>8, <1>9, <1>10, <1>11, <1>12, <1>13,
     <1>14, <1>15, <1>16, <1>17, <1>18, <1>19, <1>20, Zenon DEF RequestStep

-----------------------------------------------------------------------------
(* What a step does to the chain and the lists *)

\* What the lemmas about steps rest on.
Known ==
  /\ CacheAssumption /\ Cardinals /\ Types /\ ListsMatchChain /\ RefsExact /\ Places /\ Killings /\ Passes

LEMMA SameLists ==
  ASSUME ListsMatchChain, hash' = hash, objList' = objList
  PROVE  /\ ListsMatchChain' /\ Chained' = Chained
         /\ \A l, o : InList(l, o)' <=> InList(l, o)
BY Zenon DEF ListsMatchChain, Chained, InList

LEMMA RequestChain ==
  ASSUME Known, NEW r \in Rq, RequestStep(r)
  PROVE  /\ ListsMatchChain'
         /\ ~StoreNew(r) => Chained' = Chained
         /\ StoreNew(r) => /\ obj[r] \in Obj /\ obj[r] \notin Chained
                           /\ Chained' = Chained \cup {obj[r]}
         /\ \A o \in Obj : InList("mem", o)' =>
              InList("mem", o) \/ "IN_MEM" \in flags[o] \/ (StoreNew(r) /\ o = obj[r])
<1> USE DEF Known
<1>1. CASE hash' = hash /\ objList' = objList
  <2>1. ~StoreNew(r)
    <3>1. hash \in Seq(Obj) BY Zenon DEF Types, StoreTypes
    <3>2. ASSUME NEW o PROVE Len(<<o>> \o hash) # Len(hash) BY <3>1
    <3> QED BY <1>1, <3>2, Zenon DEF StoreNew, CacheAdd
  <2> QED BY <1>1, <2>1, SameLists, Zenon
<1>2. CASE DeadOldObj(r) \/ StoreDead(r)
  <2>1. PICK o \in Obj : objList' = AtHead(o) /\ hash' = hash
    BY <1>2, Zenon DEF DeadOldObj, StoreDead, CacheDead, Places, Placed, Types, RqTypes
  <2>2. ~StoreNew(r)
    BY <1>2, Zenon DEF DeadOldObj, StoreDead, StoreNew
  <2>3. /\ ListsMatchChain' /\ Chained' = Chained
        /\ \A l \in Lists : Range(objList'[l]) = Range(objList[l])
    BY <2>1, AtHeadEffect, ZenonT(30)
  <2> QED BY <2>2, <2>3, Zenon DEF InList, Lists
<1>3. CASE StoreRate(r)
  <2>1. PICK o \in Obj : in_cache(o) /\ objList' = Rated(o) /\ hash' = hash
    BY <1>3, Zenon DEF StoreRate, Places, Placed, Types, RqTypes
  <2>2. /\ ListsMatchChain' /\ Chained' = Chained
        /\ Range(objList'["mem"]) = IF "IN_MEM" \in flags[o] THEN Range(objList["mem"]) \cup {o}
                                                           ELSE Range(objList["mem"]) \ {o}
    BY <2>1, RatedEffect, Zenon
  <2>3. ~StoreNew(r)
    <3>1. hash \in Seq(Obj) BY Zenon DEF Types, StoreTypes
    <3>2. ASSUME NEW x PROVE Len(<<x>> \o hash) # Len(hash) BY <3>1, SMTT(30)
    <3> QED BY <2>1, <3>2, Zenon DEF StoreNew, CacheAdd
  <2> QED BY <2>2, <2>3, Zenon DEF InList
<1>4. CASE StoreNew(r)
  <2>1. /\ obj[r] \in Obj /\ obj[r] \notin Chained /\ "mem" \in Lists
    BY <1>4, InCacheChained, Zenon DEF StoreNew, Places, Placed, Types, RqTypes, Lists
  <2>2. PICK bits : CacheAdd(obj[r], "mem", bits)
    BY <1>4, Zenon DEF StoreNew
  <2>3. /\ ListsMatchChain' /\ Chained' = Chained \cup {obj[r]}
        /\ Range(objList'["mem"]) = Range(objList["mem"]) \cup {obj[r]}
    BY <2>1, <2>2, AddEffect, Zenon
  <2> QED BY <1>4, <2>1, <2>3, Zenon DEF InList
<1>5. ~(DeadOldObj(r) \/ StoreDead(r) \/ StoreRate(r) \/ StoreNew(r))
      => hash' = hash /\ objList' = objList
  BY ZenonT(30) DEF RequestStep, Find, Miss, Check, SwapInObject, SwapIn, Notice, NoticeCount,
     NoticeWake, Failed, Fresh, Expired, NotModified, KeepBoth, DropOldObj, StoreSkip,
     Release, setVars
<1> QED BY <1>1, <1>2, <1>3, <1>4, <1>5, Zenon

\* Who may be demoted or removed is in the chain and held by nobody.
LEMMA DemotableFacts ==
  ASSUME Known, NEW c \in Collectors, gc[c].pc # "idle", Demotable(c)
  PROVE  At(c) \in Obj /\ At(c) \in Chained /\ Holders(At(c)) = {}
<1>1. At(c) \in Obj /\ gc[c].list \in Lists
  BY NextPickTypes, Zenon DEF Known, Types, ActorTypes, Collection
<1>2. At(c) \in Chained
  BY <1>1, InCacheChained, Zenon DEF Known, Demotable, in_cache
<1> QED BY <1>1, <1>2, HeldFacts, Zenon DEF Known, Demotable

LEMMA CollectorChain ==
  ASSUME Known, NEW c \in Collectors, FlushBegin(c) \/ Collect(c) \/ CollectorStep(c)
  PROVE  /\ ListsMatchChain'
         /\ \A o : InList("mem", o)' => InList("mem", o)
         /\ ~(SwapoutFalse(c) /\ Demotable(c)) => Chained' = Chained
         /\ SwapoutFalse(c) /\ Demotable(c) => Chained' = Chained \ {At(c)}
         /\ SwapoutTrue(c) /\ Demotable(c) => At(c) \notin Range(objList'["mem"])
<1> USE DEF Known
<1>1. CASE SwapoutTrue(c) /\ Demotable(c)
  <2>1. gc[c].pc = "moved" /\ objList' = Demoted(c) /\ hash' = hash
    BY <1>1, Zenon DEF SwapoutTrue
  <2>2. gc[c].list = "mem"
    BY <2>1, Zenon DEF Passes, Passing
  <2>3. InList("mem", At(c))
    BY <1>1, <2>2, Zenon DEF Demotable
  <2>4. /\ ListsMatchChain' /\ Chained' = Chained
        /\ Range(objList'["mem"]) = Range(objList["mem"]) \ {At(c)}
    BY <2>1, <2>2, <2>3, DemoteEffect, Zenon
  <2>5. ~SwapoutFalse(c) BY <2>1, Zenon DEF SwapoutFalse, Swaps
  <2> QED BY <2>4, <2>5, Zenon DEF InList
<1>2. CASE SwapoutFalse(c) /\ Demotable(c)
  <2>1. gc[c].list \in Lists BY Zenon DEF Types, ActorTypes, Collection
  <2>2. InList(gc[c].list, At(c)) BY <1>2, Zenon DEF Demotable
  <2>3. /\ objList' = [objList EXCEPT ![gc[c].list] = Unlinked(@, At(c))]
        /\ hash' = Unlinked(hash, At(c))
    BY <1>2, Zenon DEF SwapoutFalse
  <2>4. /\ ListsMatchChain' /\ Chained' = Chained \ {At(c)}
        /\ Range(objList'["mem"]) \subseteq Range(objList["mem"])
    BY <2>1, <2>2, <2>3, RemoveEffect, Zenon
  <2>5. ~SwapoutTrue(c) BY <1>2, Zenon DEF SwapoutTrue, SwapoutFalse, Swaps
  <2> QED BY <1>2, <2>4, <2>5, Zenon DEF InList
<1>3. CASE ~(SwapoutTrue(c) /\ Demotable(c)) /\ ~(SwapoutFalse(c) /\ Demotable(c))
  <2>1. hash' = hash /\ objList' = objList
    BY <1>3, Zenon DEF CollectorStep, FlushBegin, Collect, SwapoutHead, SwapoutBody, SwapoutTrue,
       SwapoutFalse, FreeObj, setVars
  <2> QED BY <1>3, <2>1, SameLists, Zenon
<1> QED BY <1>1, <1>2, <1>3, Zenon

LEMMA KillerChain ==
  ASSUME Known, NEW k \in Killers, Purge(k) \/ CleanCache(k) \/ KillerStep(k)
  PROVE  /\ ListsMatchChain' /\ Chained' = Chained
         /\ \A l, o : InList(l, o)' <=> InList(l, o)
<1>1. hash' = hash /\ objList' = objList
  BY Zenon DEF Purge, CleanCache, KillerStep, DeadRead, DeadWrite, setVars
<1> QED BY <1>1, SameLists, Zenon DEF Known

LEMMA LoadChain ==
  ASSUME Known, NEW o \in Obj, LoadIndex(o)
  PROVE  /\ ListsMatchChain' /\ Chained' = Chained \cup {o} /\ o \notin Chained
         /\ \A x : InList("mem", x)' => InList("mem", x)
<1>1. o \notin Chained /\ CacheAdd(o, "disk", {"IN_DISK"}) /\ "disk" \in Lists
  BY HeldFacts, Zenon DEF Known, LoadIndex, Lists
<1>2. /\ ListsMatchChain' /\ Chained' = Chained \cup {o}
      /\ Range(objList'["mem"]) = Range(objList["mem"]) \cup (IF "disk" = "mem" THEN {o} ELSE {})
  BY <1>1, AddEffect, Zenon DEF Known
<1> QED BY <1>1, <1>2, Zenon DEF InList

-----------------------------------------------------------------------------
(* Where requests stand *)

LEMMA PlacesRequest ==
  ASSUME Known, OneSwapper, NEW r \in Rq, RequestStep(r)
  PROVE  Places'
<1> USE DEF Known
<1>1. Chained \subseteq Chained'
  BY RequestChain, Zenon
<1>2. CASE NoticeWake(r)
  <2> SUFFICES ASSUME NEW q \in Rq PROVE Placed(q)'
    BY Zenon DEF Places
  <2>1. obj'[q] = obj[q] /\ old_obj'[q] = old_obj[q] /\ Placed(q)
    BY <1>2, Zenon DEF NoticeWake, Places
  <2>2. pc'[q] = pc[q] \/ (pc[q] \in {"wake", "wait"} /\ pc'[q] \in {"serve", "failed"})
    BY <1>2, Zenon DEF NoticeWake, Woken, OneSwapper, Types, RqTypes
  <2> QED BY <1>1, <2>1, <2>2, Zenon DEF Placed, Looking
<1>3. ASSUME ~NoticeWake(r), NEW q \in Rq, q # r PROVE Placed(q)'
  <2>1. obj'[q] = obj[q] /\ old_obj'[q] = old_obj[q] /\ pc'[q] = pc[q]
    BY <1>3, OthersKeep, Zenon
  <2>2. Placed(q)
    BY DEF Places
  <2> QED BY <1>1, <2>1, <2>2, Zenon DEF Placed
<1>4. Placed(r) /\ pc[r] \in RqPCs /\ obj[r] \in Obj \cup {NULL} /\ old_obj[r] \in Obj \cup {NULL}
      /\ NULL \notin Obj
  BY Zenon DEF Places, Types, RqTypes, CacheAssumption
<1>5. ASSUME ~NoticeWake(r) PROVE Placed(r)'
  <2> USE DEF Types, RqTypes, Goto
  <2>1. CASE Find(r)
    BY <1>1, <1>4, <2>1, ChainedAreObjects, SMTT(30) DEF Find, Hits, Placed, Looking
  <2>2. CASE Miss(r)
    BY <1>1, <1>4, <2>2, SMTT(30) DEF Miss, Placed, Looking
  <2>3. CASE Check(r) \/ Notice(r) \/ NoticeCount(r) \/ SwapIn(r)
    BY <1>1, <1>4, <2>3, SMTT(30) DEF Check, Notice, NoticeCount, SwapIn, Placed, Looking
  <2>4. CASE SwapInObject(r)
    BY <1>1, <1>4, <2>4 DEF SwapInObject, Placed, Looking
  <2>5. CASE Failed(r)
    BY <1>1, <1>4, <2>5, Zenon DEF Failed, Placed, Looking
  <2>6. CASE Fresh(r) \/ KeepBoth(r) \/ StoreSkip(r)
    BY <1>1, <1>4, <2>6, ChainedAreObjects DEF Fresh, KeepBoth, StoreSkip, Placed, Looking
  <2>7. CASE Expired(r)
    <3>1. PICK o \in Obj : life[o] = "unused" /\ obj' = [obj EXCEPT ![r] = o]
      BY <2>7, Zenon DEF Expired, Allocated
    <3>2. o \notin Chained
      BY <3>1, HeldFacts, Zenon
    <3>3. /\ pc'[r] = "reval" /\ obj'[r] = o /\ old_obj'[r] = obj[r]
          /\ obj[r] \in Chained
      BY <1>4, <2>7, <3>1, Zenon DEF Expired, Placed, Looking
    <3>4. obj[r] \in Obj
      BY <3>3, ChainedAreObjects, Zenon
    <3> QED BY <1>1, <1>4, <3>1, <3>2, <3>3, <3>4, Zenon DEF Placed, Looking
  <2>8. CASE NotModified(r)
    BY <1>1, <1>4, <2>8, Zenon DEF NotModified, Placed, Looking
  <2>9. CASE DeadOldObj(r) \/ StoreDead(r)
    BY <1>1, <1>4, <2>9, ZenonT(30) DEF DeadOldObj, StoreDead, Placed, Looking
  <2>10. CASE DropOldObj(r)
    BY <1>1, <1>4, <2>10, Zenon DEF DropOldObj, Placed, Looking
  <2>11. CASE StoreRate(r) \/ StoreNew(r)
    BY <1>1, <1>4, <2>11, SMTT(30) DEF StoreRate, StoreNew, Placed, Looking
  <2>12. CASE Release(r)
    BY <1>1, <1>4, <2>12, SMTT(30) DEF Release, Placed, Looking
  <2> QED
    BY <1>5, <2>1, <2>2, <2>3, <2>4, <2>5, <2>6, <2>7, <2>8, <2>9, <2>10, <2>11, <2>12,
       ZenonT(30) DEF RequestStep
<1> QED BY <1>2, <1>3, <1>5, Zenon DEF Places

\* Elsewhere a request keeps what it holds: nothing held leaves the chain.
LEMMA PlacesOther ==
  ASSUME Known, UNCHANGED rqVars,
         \A o \in Chained : o \in Chained' \/ Holders(o) = {}
  PROVE  Places'
<1> SUFFICES ASSUME NEW q \in Rq PROVE Placed(q)'
  BY Zenon DEF Places
<1>1. obj'[q] = obj[q] /\ old_obj'[q] = old_obj[q] /\ pc'[q] = pc[q] /\ Placed(q)
  BY Zenon DEF rqVars, Known, Places
<1>2. /\ obj[q] \in Chained => obj[q] \in Chained'
      /\ old_obj[q] \in Chained => old_obj[q] \in Chained'
  BY HoldersOf, Zenon
<1> QED BY <1>1, <1>2, Zenon DEF Placed

-----------------------------------------------------------------------------
(* Killers *)

LEMMA KillingsOther ==
  ASSUME Known, killer' = killer, Chained \subseteq Chained' \/ (CacheLockFree /\ HashLockFree)
  PROVE  Killings'
<1> SUFFICES ASSUME NEW k \in Killers
             PROVE  /\ killer[k].at # NULL => killer[k].at \in killer[k].todo
                    /\ killer[k].lock \in {"idle", "done"} => killer[k].todo = {}
                    /\ killer[k].todo \subseteq Chained'
  BY Zenon DEF Killings
<1>1. /\ killer[k].at # NULL => killer[k].at \in killer[k].todo
      /\ killer[k].lock \in {"idle", "done"} => killer[k].todo = {}
      /\ killer[k].todo \subseteq Chained
  BY Zenon DEF Known, Killings
<1>2. killer[k].lock \in {"idle", "done", "hash", "cache"}
  BY Zenon DEF Known, Types, ActorTypes, Killing
<1> QED BY <1>1, <1>2, Zenon DEF CacheLockFree, HashLockFree

LEMMA KillingsKiller ==
  ASSUME Known, NEW k \in Killers, Purge(k) \/ CleanCache(k) \/ KillerStep(k)
  PROVE  Killings'
<1> USE DEF Known
<1>1. Chained' = Chained
  BY KillerChain, Zenon
<1>2. killer \in [Killers -> Killing]
  BY Zenon DEF Types, ActorTypes
<1>3. /\ killer[k].at # NULL => killer[k].at \in killer[k].todo
      /\ killer[k].lock \in {"idle", "done"} => killer[k].todo = {}
      /\ killer[k].todo \subseteq Chained
  BY Zenon DEF Killings
<1>4. PICK x : /\ killer' = [killer EXCEPT ![k] = x]
               /\ x.at # NULL => x.at \in x.todo
               /\ x.lock \in {"idle", "done"} => x.todo = {}
               /\ x.todo \subseteq Chained
  <2>1. CASE Purge(k)
    <3>1. PICK live : /\ live \subseteq Chained
                      /\ killer' = [killer EXCEPT ![k] = [lock |-> "hash", todo |-> live, at |-> NULL]]
      BY <2>1, Zenon DEF Purge, Chained
    <3> DEFINE x == [lock |-> "hash", todo |-> live, at |-> NULL]
    <3>2. x.at = NULL /\ x.todo = live /\ x.lock \notin {"idle", "done"}
      BY Zenon
    <3>3. killer' = [killer EXCEPT ![k] = x]
      BY <3>1, Zenon
    <3> HIDE DEF x
    <3> QED BY <3>1, <3>2, <3>3, Zenon
  <2>2. CASE CleanCache(k)
    <3>1. PICK todo \in SUBSET {o \in Obj : in_cache(o)} :
            killer' = [killer EXCEPT ![k] = [lock |-> "cache", todo |-> todo, at |-> NULL]]
      BY <2>2, Zenon DEF CleanCache
    <3> DEFINE x == [lock |-> "cache", todo |-> todo, at |-> NULL]
    <3>2. todo \subseteq Chained
      BY <3>1, InCacheChained, Zenon
    <3>3. x.at = NULL /\ x.todo = todo /\ x.lock \notin {"idle", "done"}
      BY Zenon
    <3>4. killer' = [killer EXCEPT ![k] = x]
      BY <3>1, Zenon
    <3> HIDE DEF x
    <3> QED BY <3>2, <3>3, <3>4, Zenon
  <2>3. CASE DeadRead(k)
    <3>1. PICK o \in killer[k].todo : killer' = [killer EXCEPT ![k].at = o]
      BY <2>3, Zenon DEF DeadRead
    <3>2. killer' = [killer EXCEPT ![k] = [killer[k] EXCEPT !.at = o]]
      BY <3>1, Zenon
    <3>3. /\ [killer[k] EXCEPT !.at = o].at = o
          /\ [killer[k] EXCEPT !.at = o].todo = killer[k].todo
          /\ [killer[k] EXCEPT !.at = o].lock = killer[k].lock
      BY <1>2, Zenon DEF Killing
    <3> QED BY <1>3, <3>1, <3>2, <3>3, Zenon
  <2>4. CASE DeadWrite(k)
    <3> DEFINE left == killer[k].todo \ {killer[k].at}
               x == [lock |-> IF left = {} THEN "done" ELSE killer[k].lock,
                     todo |-> left, at |-> NULL]
    <3>1. killer' = [killer EXCEPT ![k] = x]
      BY <2>4, <1>2, Zenon DEF DeadWrite
    <3>2. killer[k].at # NULL
      BY <2>4, Zenon DEF DeadWrite
    <3>3. x.at = NULL /\ x.todo = left /\ x.lock = IF left = {} THEN "done" ELSE killer[k].lock
      BY Zenon
    <3> HIDE DEF x
    <3>4. left \subseteq Chained /\ (x.lock \in {"idle", "done"} => left = {})
      BY <1>3, <3>2, <3>3, Zenon
    <3> QED BY <3>1, <3>3, <3>4, Zenon
  <2> QED BY <2>1, <2>2, <2>3, <2>4, Zenon DEF KillerStep
<1>5. ASSUME NEW j \in Killers PROVE killer'[j] = IF j = k THEN x ELSE killer[j]
  BY <1>2, <1>4, Zenon
<1> QED BY <1>1, <1>4, <1>5, Zenon DEF Killings

-----------------------------------------------------------------------------
(* The collectors' lists *)

\* Where a request takes its objects from: from itself, from the chain, or new.
LEMMA TakesFrom ==
  ASSUME Known, NEW r \in Rq, RequestStep(r)
  PROVE  /\ \/ obj'[r] \in {obj[r], old_obj[r], NULL} \/ obj'[r] \in Chained
            \/ (obj'[r] \in Obj /\ life[obj'[r]] = "unused")
         /\ old_obj'[r] \in {obj[r], old_obj[r], NULL}
         /\ \A o \in Obj : life[o] # "unused" => life'[o] # "unused"
<1> USE DEF Known, Types, RqTypes, ObjTypes
<1>1. CASE Find(r) BY <1>1, ChainedAreObjects, SMTT(30) DEF Find, Hits
<1>2. CASE Miss(r) BY <1>2 DEF Miss, Allocated
<1>3. CASE Check(r) BY <1>3, Zenon DEF Check, objVars
<1>4. CASE SwapInObject(r) BY <1>4, Zenon DEF SwapInObject
<1>5. CASE SwapIn(r) BY <1>5, Zenon DEF SwapIn
<1>6. CASE Notice(r) BY <1>6, Zenon DEF Notice
<1>7. CASE NoticeCount(r) BY <1>7, Zenon DEF NoticeCount, objVars
<1>8. CASE NoticeWake(r) BY <1>8, Zenon DEF NoticeWake, objVars
<1>9. CASE Failed(r) BY <1>9, Zenon DEF Failed, Unref
<1>10. CASE Fresh(r) BY <1>10, Zenon DEF Fresh, objVars
<1>11. CASE Expired(r) BY <1>11 DEF Expired, Allocated
<1>12. CASE NotModified(r) BY <1>12, Zenon DEF NotModified, Unref
<1>13. CASE KeepBoth(r) BY <1>13, Zenon DEF KeepBoth, objVars
<1>14. CASE DeadOldObj(r) BY <1>14, Zenon DEF DeadOldObj
<1>15. CASE DropOldObj(r) BY <1>15, Zenon DEF DropOldObj, Unref
<1>16. CASE StoreRate(r) BY <1>16, Zenon DEF StoreRate, objVars
<1>17. CASE StoreDead(r) BY <1>17, Zenon DEF StoreDead
<1>18. CASE StoreNew(r) BY <1>18, Zenon DEF StoreNew
<1>19. CASE StoreSkip(r) BY <1>19, Zenon DEF StoreSkip, objVars
<1>20. CASE Release(r) BY <1>20 DEF Release, Unref
<1> QED
  BY <1>1, <1>2, <1>3, <1>4, <1>5, <1>6, <1>7, <1>8, <1>9, <1>10, <1>11, <1>12, <1>13,
     <1>14, <1>15, <1>16, <1>17, <1>18, <1>19, <1>20, Zenon DEF RequestStep

\* What has left the chain and is held by nobody never comes back.
LEMMA GoneForGood ==
  ASSUME Known, NEW r \in Rq, RequestStep(r), NEW o \in Obj, o \notin Chained,
         Holders(o) = {}, life[o] # "unused"
  PROVE  Holders(o)' = {} /\ o \notin Chained'
<1>1. \A q \in Rq : obj[q] # o /\ old_obj[q] # o
  BY HoldersOf, Zenon
<1>2. obj'[r] # o /\ old_obj'[r] # o
  <2>1. o # NULL BY Zenon DEF Known, CacheAssumption
  <2> QED BY <1>1, <2>1, TakesFrom, Zenon
<1>3. \A q \in Rq : obj'[q] # o /\ old_obj'[q] # o
  BY <1>1, <1>2, OthersKeep, Zenon DEF Known
<1>4. Holders(o)' = {}
  BY <1>3, Zenon DEF Holders
<1>5. o \notin Chained'
  BY <1>1, RequestChain, Zenon
<1> QED BY <1>4, <1>5, Zenon

\* A collector at rest keeps its list.
LEMMA PassingFrame ==
  ASSUME Known, NEW c \in Collectors, gc'[c] = gc[c],
         \A o \in Obj : life[o] # "unused" => life'[o] # "unused",
         \A o \in Obj : o \notin Chained /\ Holders(o) = {} /\ life[o] # "unused"
                        => o \notin Chained' /\ Holders(o)' = {},
         \A o \in Obj : o \in Chained => o \in Chained' \/ Holders(o)' = {}
  PROVE  Passing(c)' /\ (gc[c].pc # "idle" => At(c)' = At(c))
<1>1. gc[c] \in Collection /\ Passing(c)
  BY Zenon DEF Known, Types, ActorTypes, Passes
<1>2. At(c)' = At(c)
  BY Zenon DEF At
<1>3. ASSUME NEW i \in 1..Len(gc[c].todo)
      PROVE  /\ gc[c].todo[i].o \in Obj
             /\ life'[gc[c].todo[i].o] # "unused"
             /\ gc[c].todo[i].o \in Chained' \/ Holders(gc[c].todo[i].o)' = {}
  <2>a. gc[c].todo \in Seq(Picked) BY <1>1, Zenon DEF Collection
  <2>b. gc[c].todo[i] \in Picked BY <2>a
  <2>1. gc[c].todo[i].o \in Obj BY <2>b, Zenon DEF Picked
  <2>2. /\ life[gc[c].todo[i].o] # "unused"
        /\ gc[c].todo[i].o \in Chained \/ Holders(gc[c].todo[i].o) = {}
    BY <1>1, Zenon DEF Passing
  <2> DEFINE o == gc[c].todo[i].o
  <2>3. o' = o BY Zenon
  <2>4. PICK x \in Obj : x = o BY <2>1, Zenon
  <2>5. Holders(o)' = Holders(x)' BY <2>3, <2>4, Zenon DEF Holders
  <2>6. life'[x] # "unused" /\ (x \in Chained' \/ Holders(x)' = {})
    BY <2>2, <2>4, Zenon
  <2> QED BY <2>1, <2>4, <2>5, <2>6, Zenon
<1>4. ASSUME gc[c].pc = "free" PROVE At(c) \notin Chained'
  <2>1. Len(gc[c].todo) \in Nat /\ Len(gc[c].todo) > 0 /\ At(c) \notin Chained
    BY <1>1, <1>4, SMTT(30) DEF Passing, Collection
  <2>2. 1 \in 1..Len(gc[c].todo) BY <2>1
  <2>3. /\ At(c) \in Obj /\ life[At(c)] # "unused"
        /\ At(c) \in Chained \/ Holders(At(c)) = {}
    BY <1>1, <1>3, <2>2, Zenon DEF Passing, At
  <2> QED BY <2>1, <2>3, ZenonT(30)
<1> QED BY <1>1, <1>2, <1>3, <1>4, Zenon DEF Passing

LEMMA PassesRequest ==
  ASSUME Known, NEW r \in Rq, RequestStep(r)
  PROVE  Passes'
<1> USE DEF Known
<1>1. gc' = gc
  BY Zenon DEF RequestStep, Find, Miss, Check, SwapInObject, SwapIn, Notice, NoticeCount,
     NoticeWake, Failed, Fresh, Expired, NotModified, KeepBoth, DeadOldObj, DropOldObj,
     StoreRate, StoreDead, StoreNew, StoreSkip, Release
<1>2. \A o \in Obj : life[o] # "unused" => life'[o] # "unused"
  BY TakesFrom, Zenon
<1>3. \A o \in Obj : o \notin Chained /\ Holders(o) = {} /\ life[o] # "unused"
                     => o \notin Chained' /\ Holders(o)' = {}
  BY GoneForGood, Zenon
<1>4. Chained \subseteq Chained'
  BY RequestChain, Zenon
<1>5. \A c \in Collectors : Passing(c)'
  BY <1>1, <1>2, <1>3, <1>4, PassingFrame, Zenon
<1> QED BY <1>1, <1>5, Zenon DEF Passes, FreedOnce, At

\* Neither the loader nor a killer takes or gives a reference that counts here.
LEMMA PassesOther ==
  ASSUME Known, UNCHANGED <<rqVars, gc>>, Chained \subseteq Chained',
         \A o \in Obj : life[o] # "unused" => life'[o] # "unused",
         \A o \in Chained' : o \in Chained \/ life[o] = "unused"
  PROVE  Passes'
<1>1. \A o : Holders(o)' = Holders(o)
  BY Zenon DEF Holders, rqVars
<1>2. \A c \in Collectors : Passing(c)'
  <2> TAKE c \in Collectors
  <2>1. gc'[c] = gc[c] BY Zenon
  <2>2. \A o \in Obj : o \notin Chained /\ Holders(o) = {} /\ life[o] # "unused"
                       => o \notin Chained' /\ Holders(o)' = {}
    BY <1>1, Zenon
  <2>3. \A o \in Obj : o \in Chained => o \in Chained' \/ Holders(o)' = {}
    BY Zenon
  <2> QED BY <2>1, <2>2, <2>3, PassingFrame, Zenon
<1> QED BY <1>2, Zenon DEF Known, Passes, FreedOnce, At

\* The entries of a collector's list, seen after a collector's step.
LEMMA EntriesAfter ==
  ASSUME Known, NEW c \in Collectors, FlushBegin(c) \/ Collect(c) \/ CollectorStep(c)
  PROVE  /\ \A o : Holders(o)' = Holders(o)
         /\ \A o \in Obj : life[o] # "unused" => life'[o] # "unused"
         /\ \A o \in Obj : o \in Chained => o \in Chained' \/ Holders(o) = {}
         /\ Chained' \subseteq Chained
<1> USE DEF Known
<1>1. UNCHANGED rqVars
  BY Zenon DEF CollectorStep, FlushBegin, Collect, SwapoutHead, SwapoutBody, SwapoutTrue,
     SwapoutFalse, FreeObj
<1>2. \A o : Holders(o)' = Holders(o)
  BY <1>1, Zenon DEF Holders, rqVars
<1>3. \A o \in Obj : life[o] # "unused" => life'[o] # "unused"
  <2>1. CASE FreeObj(c) BY <2>1, Zenon DEF FreeObj, Unref, Types, ObjTypes
  <2>2. CASE ~FreeObj(c)
    BY <2>2, Zenon DEF CollectorStep, FlushBegin, Collect, SwapoutHead, SwapoutBody,
       SwapoutTrue, SwapoutFalse, objVars
  <2> QED BY <2>1, <2>2, Zenon
<1>4. \A o \in Obj : o \in Chained => o \in Chained' \/ Holders(o) = {}
  <2>1. CASE SwapoutFalse(c) /\ Demotable(c)
    <3>1. gc[c].pc # "idle" BY <2>1, Zenon DEF SwapoutFalse, Swaps
    <3> QED BY <2>1, <3>1, CollectorChain, DemotableFacts, Zenon
  <2>2. CASE ~(SwapoutFalse(c) /\ Demotable(c))
    BY <2>2, CollectorChain, Zenon
  <2> QED BY <2>1, <2>2, Zenon
<1>5. Chained' \subseteq Chained
  BY CollectorChain, Zenon
<1> QED BY <1>2, <1>3, <1>4, <1>5, Zenon

\* A list whose entries are fit, and the place its collector is at.
Fit(t, p, list, swapout) ==
  /\ p # "idle" => Len(t) > 0
  /\ swapout => list = "mem"
  /\ p = "moved" => swapout
  /\ p = "free" => t[1].o \notin Chained
  /\ \A i \in 1..Len(t) :
       /\ life[t[i].o] # "unused"
       /\ t[i].o \in Chained \/ Holders(t[i].o) = {}
  /\ \A i, j \in 1..Len(t) : t[i].o = t[j].o => i = j

LEMMA FitIsPassing ==
  ASSUME NEW c, NEW t, NEW p, NEW l, NEW sw, Fit(t, p, l, sw)',
         gc'[c].todo = t, gc'[c].pc = p, gc'[c].list = l, gc'[c].swapout = sw
  PROVE  Passing(c)'
BY Zenon DEF Fit, Passing, At

\* What is left of a list after its head stays fit.
LEMMA FitTail ==
  ASSUME Known, NEW c \in Collectors, CollectorStep(c), gc[c].pc # "idle", NextPick(c)
  PROVE  Passing(c)'
<1>1. gc \in [Collectors -> Collection] /\ gc[c] \in Collection /\ Passing(c)
  BY Zenon DEF Known, Types, ActorTypes, Passes
<1> DEFINE t == gc[c].todo
           u == Tail(t)
           p == IF Len(t) = 1 THEN "idle" ELSE "pick"
<1>2. t \in Seq(Picked) /\ Len(t) > 0
  BY <1>1, Zenon DEF Collection, Passing
<1>3. /\ Len(u) = Len(t) - 1 /\ Len(t) \in Nat /\ u \in Seq(Picked)
      /\ \A i \in 1..Len(u) : i + 1 \in 1..Len(t) /\ u[i] = t[i + 1]
  BY <1>2, TailFacts, Zenon
<1>4. /\ gc'[c].todo = u /\ gc'[c].pc = p
      /\ gc'[c].list = gc[c].list /\ gc'[c].swapout = gc[c].swapout
  BY <1>1, Zenon DEF NextPick, Collection
<1> HIDE DEF u, p
<1>5. ASSUME NEW i \in 1..Len(u)
      PROVE  /\ life'[u[i].o] # "unused"
             /\ \A x \in Obj : x = u[i].o => x \in Chained' \/ Holders(x)' = {}
             /\ u[i].o \in Obj
  <2>1. u[i].o \in Obj
    <3>1. u[i] \in Picked BY <1>3
    <3> QED BY <3>1, Zenon DEF Picked
  <2>2. i + 1 \in 1..Len(t) /\ u[i].o = t[i + 1].o
    BY <1>3, Zenon
  <2>3. life[u[i].o] # "unused" /\ (u[i].o \in Chained \/ Holders(u[i].o) = {})
    BY <1>1, <2>2, Zenon DEF Passing
  <2>4. PICK x \in Obj : x = u[i].o BY <2>1, Zenon
  <2>5. life'[x] # "unused" /\ (x \in Chained' \/ Holders(x)' = {})
    BY <2>3, <2>4, EntriesAfter, Zenon
  <2> QED BY <2>1, <2>4, <2>5, Zenon
<1>6. \A i, j \in 1..Len(u) : u[i].o = u[j].o => i = j
  <2> TAKE i, j \in 1..Len(u)
  <2>1. /\ i + 1 \in 1..Len(t) /\ u[i].o = t[i + 1].o
        /\ j + 1 \in 1..Len(t) /\ u[j].o = t[j + 1].o
    BY <1>3, Zenon
  <2>2. u[i].o = u[j].o => i + 1 = j + 1
    BY <1>1, <2>1, Zenon DEF Passing
  <2> QED BY <2>2
<1>7. /\ p # "idle" => Len(u) > 0
      /\ p # "moved" /\ p # "free"
  <2>1. Len(t) \in Nat /\ Len(t) > 0 /\ Len(u) = Len(t) - 1 BY <1>2, <1>3, Zenon
  <2> HIDE DEF t
  <2> QED BY <2>1 DEF p
<1>8. gc[c].swapout => gc[c].list = "mem"
  BY <1>1, Zenon DEF Passing
<1>9. ASSUME NEW y, NEW q, NEW l, NEW sw, y = u, q = p, l = gc[c].list, sw = gc[c].swapout
      PROVE  Fit(y, q, l, sw)'
  <2>1. ASSUME NEW i \in 1..Len(y)
        PROVE  /\ life'[y[i].o] # "unused"
               /\ y[i].o \in Chained' \/ Holders(y[i].o)' = {}
    <3>1. i \in 1..Len(u) /\ y[i].o = u[i].o BY <1>9, Zenon
    <3>2. PICK x \in Obj : x = y[i].o BY <1>5, <3>1, Zenon
    <3>3. life'[x] # "unused" /\ (x \in Chained' \/ Holders(x)' = {})
      BY <1>5, <3>1, <3>2, Zenon
    <3> QED BY <3>2, <3>3, Zenon
  <2>2. \A i, j \in 1..Len(y) : y[i].o = y[j].o => i = j
    BY <1>6, <1>9, Zenon
  <2> QED BY <1>7, <1>8, <1>9, <2>1, <2>2, Zenon DEF Fit
<1> QED BY <1>4, <1>9, FitIsPassing, Zenon

\* A list that only its collector's place has moved in.
LEMMA FitSame ==
  ASSUME Known, NEW c \in Collectors, CollectorStep(c), gc[c].pc # "idle",
         NEW p \in {"moved", "failed", "free"}, gc' = [gc EXCEPT ![c].pc = p],
         p = "moved" => gc[c].swapout,
         p = "free" => At(c) \notin Chained'
  PROVE  Passing(c)'
<1>1. gc \in [Collectors -> Collection] /\ gc[c] \in Collection /\ Passing(c)
  BY Zenon DEF Known, Types, ActorTypes, Passes
<1>2. /\ gc'[c].todo = gc[c].todo /\ gc'[c].pc = p
      /\ gc'[c].list = gc[c].list /\ gc'[c].swapout = gc[c].swapout
  BY <1>1, Zenon DEF Collection
<1>3. ASSUME NEW y, NEW l, NEW sw, y = gc[c].todo, l = gc[c].list, sw = gc[c].swapout
      PROVE  Fit(y, p, l, sw)'
  <2>1. ASSUME NEW i \in 1..Len(y)
        PROVE  /\ life'[y[i].o] # "unused"
               /\ y[i].o \in Chained' \/ Holders(y[i].o)' = {}
    <3>1. y[i] \in Picked BY <1>1, <1>3 DEF Collection
    <3>2. PICK x \in Obj : x = y[i].o BY <3>1, Zenon DEF Picked
    <3>3. life[x] # "unused" /\ (x \in Chained \/ Holders(x) = {})
      BY <1>1, <1>3, <3>2, Zenon DEF Passing
    <3>4. life'[x] # "unused" /\ (x \in Chained' \/ Holders(x)' = {})
      BY <3>3, EntriesAfter, Zenon
    <3> QED BY <3>2, <3>4, Zenon
  <2>2. /\ \A i, j \in 1..Len(y) : y[i].o = y[j].o => i = j
        /\ sw => l = "mem"
        /\ Len(y) > 0
    BY <1>1, <1>3, Zenon DEF Passing
  <2>3. p = "free" => y[1].o \notin Chained'
    BY <1>3, Zenon DEF At
  <2> QED BY <1>3, <2>1, <2>2, <2>3, Zenon DEF Fit
<1>4. PICK y, l, sw : y = gc[c].todo /\ l = gc[c].list /\ sw = gc[c].swapout
  BY Zenon
<1>5. Fit(y, p, l, sw)' BY <1>3, <1>4, Zenon
<1>6. gc'[c].todo = y /\ gc'[c].pc = p /\ gc'[c].list = l /\ gc'[c].swapout = sw
  BY <1>2, <1>4, Zenon
<1> QED BY <1>5, <1>6, FitIsPassing, Zenon

\* A new list.
LEMMA FitNew ==
  ASSUME Known, NEW c \in Collectors, Collect(c)
  PROVE  Passing(c)' /\ gc'[c].pc # "free" /\ \A d \in Collectors : d # c => gc'[d] = gc[d]
<1> USE DEF Known
<1>1. PICK l \in Lists, sw \in BOOLEAN :
        \E kill \in 0..Len(objList[l]) : \E s \in LastFirst(Picks(l, kill)) :
           /\ sw => l = "mem"
           /\ gc' = [gc EXCEPT ![c] =
                 [pc |-> IF s = <<>> THEN "idle" ELSE "pick", list |-> l,
                  swapout |-> sw, todo |-> Todo(l, s, sw)]]
  BY ZenonT(30) DEF Collect
<1>2. PICK kill, s : /\ s \in LastFirst(Picks(l, kill))
                     /\ sw => l = "mem"
                     /\ gc' = [gc EXCEPT ![c] =
                           [pc |-> IF s = <<>> THEN "idle" ELSE "pick", list |-> l,
                            swapout |-> sw, todo |-> Todo(l, s, sw)]]
  BY <1>1, Zenon
<1>3. IsInjective(objList[l])
  BY Zenon DEF ListsMatchChain
<1>4. /\ Len(Todo(l, s, sw)) = Len(s) /\ Len(s) \in Nat /\ (s = <<>> <=> Len(s) = 0)
      /\ Todo(l, s, sw) \in Seq(Picked)
      /\ \A i \in 1..Len(s) : InList(l, Todo(l, s, sw)[i].o)
      /\ \A i, j \in 1..Len(s) : Todo(l, s, sw)[i].o = Todo(l, s, sw)[j].o => i = j
  <2>1. Types /\ s \in LastFirst(Picks(l, kill)) BY <1>2, Zenon
  <2> QED BY <1>3, <2>1, PicksFacts, SMTT(30)
<1>5. PICK p, t : p = (IF s = <<>> THEN "idle" ELSE "pick") /\ t = Todo(l, s, sw)
  BY Zenon
<1>6. gc' = [gc EXCEPT ![c] = [pc |-> p, list |-> l, swapout |-> sw, todo |-> t]]
  BY <1>2, <1>5, Zenon
<1>7. gc'[c] = [pc |-> p, list |-> l, swapout |-> sw, todo |-> t]
      /\ \A d \in Collectors : d # c => gc'[d] = gc[d]
  BY <1>6, Zenon DEF Types, ActorTypes
<1>8. gc'[c].pc = p /\ gc'[c].list = l /\ gc'[c].swapout = sw /\ gc'[c].todo = t
  BY <1>7
<1>9. ASSUME NEW i \in 1..Len(t)
      PROVE  /\ life'[t[i].o] # "unused"
             /\ t[i].o \in Chained' \/ Holders(t[i].o)' = {}
  <2>1. i \in 1..Len(s) /\ t[i] \in Picked BY <1>4, <1>5
  <2>2. PICK x \in Obj : x = t[i].o BY <2>1, Zenon DEF Picked
  <2>3. x \in Chained
    <3>1. InList(l, x) BY <1>4, <1>5, <2>1, <2>2, Zenon
    <3> QED BY <3>1, InCacheChained, Zenon DEF in_cache
  <2>4. life[x] = "live"
    BY <2>3, HeldFacts, Zenon
  <2>5. life'[x] # "unused" /\ (x \in Chained' \/ Holders(x)' = {})
    BY <2>3, <2>4, EntriesAfter, Zenon
  <2> QED BY <2>2, <2>5, Zenon
<1>10. /\ p # "idle" => Len(t) > 0
       /\ p # "moved" /\ p # "free"
  BY <1>4, <1>5
<1>11. \A i, j \in 1..Len(t) : t[i].o = t[j].o => i = j
  BY <1>4, <1>5, Zenon
<1>12. Fit(t, p, l, sw)'
  BY <1>2, <1>9, <1>10, <1>11, Zenon DEF Fit
<1> QED BY <1>7, <1>8, <1>10, <1>12, FitIsPassing, Zenon

LEMMA PassesCollector ==
  ASSUME Known, NEW c \in Collectors, FlushBegin(c) \/ Collect(c) \/ CollectorStep(c)
  PROVE  Passes'
<1> USE DEF Known
<1>1. gc \in [Collectors -> Collection] /\ gc[c] \in Collection /\ Passing(c)
  BY Zenon DEF Types, ActorTypes, Passes
<1>2. ASSUME NEW d \in Collectors, gc'[d] = gc[d] PROVE Passing(d)' /\ At(d)' = At(d)
  <2>1. \A o \in Obj : life[o] # "unused" => life'[o] # "unused"
    BY EntriesAfter, Zenon
  <2>2. \A o \in Obj : o \notin Chained /\ Holders(o) = {} /\ life[o] # "unused"
                       => o \notin Chained' /\ Holders(o)' = {}
    BY EntriesAfter, Zenon
  <2>3. \A o \in Obj : o \in Chained => o \in Chained' \/ Holders(o)' = {}
    BY EntriesAfter, Zenon
  <2>4. At(d)' = At(d) BY <1>2, Zenon DEF At
  <2> QED BY <1>2, <2>1, <2>2, <2>3, <2>4, PassingFrame, Zenon
  \* Whoever is freeing after the step was freeing before it, or has just taken its
  \* object out of the chain.
<1>3. ASSUME Passing(c)', \A d \in Collectors : d # c => gc'[d] = gc[d],
             gc'[c].pc = "free" => \/ gc'[c] = gc[c]
                                   \/ At(c)' \in Chained
      PROVE  Passes'
  <2>1. \A d \in Collectors : Passing(d)'
    BY <1>2, <1>3, Zenon
  <2>2. \A d \in Collectors : d # c => gc'[d] = gc[d] /\ At(d)' = At(d)
    BY <1>2, <1>3, Zenon
  <2>3. \A d \in Collectors : gc[d].pc = "free" => At(d) \notin Chained
    BY Zenon DEF Passes, Passing
  <2>4. FreedOnce'
    <3> SUFFICES ASSUME NEW d \in Collectors, NEW e \in Collectors, gc'[d].pc = "free",
                        gc'[e].pc = "free", At(d)' = At(e)'
                 PROVE  d = e
      BY Zenon DEF FreedOnce
    <3>1. CASE gc'[c] = gc[c]
      <4>1. At(c)' = At(c) BY <3>1, Zenon DEF At
      <4>2. gc'[d] = gc[d] /\ At(d)' = At(d) /\ gc'[e] = gc[e] /\ At(e)' = At(e)
        BY <2>2, <3>1, <4>1, Zenon
      <4> QED BY <4>2, Zenon DEF Passes, FreedOnce
    <3>2. CASE gc'[c] # gc[c]
      <4>1. gc'[c].pc = "free" => At(c)' \in Chained BY <1>3, <3>2, Zenon
      <4>2. CASE d = c
        BY <2>2, <2>3, <4>1, <4>2, Zenon
      <4>3. CASE e = c
        BY <2>2, <2>3, <4>1, <4>3, Zenon
      <4>4. CASE d # c /\ e # c
        <5>1. gc'[d] = gc[d] /\ At(d)' = At(d) /\ gc'[e] = gc[e] /\ At(e)' = At(e)
          BY <2>2, <4>4, Zenon
        <5> QED BY <5>1, Zenon DEF Passes, FreedOnce
      <4> QED BY <4>2, <4>3, <4>4, Zenon
    <3> QED BY <3>1, <3>2, Zenon
  <2> QED BY <2>1, <2>4, Zenon DEF Passes
<1>4. CASE FlushBegin(c)
  <2>1. gc' = gc BY <1>4, Zenon DEF FlushBegin
  <2> QED BY <1>2, <1>3, <2>1, Zenon
<1>5. CASE Collect(c)
  BY <1>3, <1>5, FitNew, Zenon
<1>6. ASSUME CollectorStep(c), gc[c].pc # "idle", NextPick(c) PROVE Passes'
  <2>1. gc'[c].pc # "free" /\ \A d \in Collectors : d # c => gc'[d] = gc[d]
    BY <1>1, <1>6, Zenon DEF NextPick, Collection
  <2> QED BY <1>3, <1>6, <2>1, FitTail, Zenon
<1>7. ASSUME CollectorStep(c), gc[c].pc # "idle", NEW p \in {"moved", "failed", "free"},
             gc' = [gc EXCEPT ![c].pc = p], p = "moved" => gc[c].swapout,
             p = "free" => At(c) \notin Chained' /\ At(c) \in Chained
      PROVE  Passes'
  <2>1. \A d \in Collectors : d # c => gc'[d] = gc[d]
    BY <1>1, <1>7, Zenon
  <2>2. gc'[c].pc = p /\ gc'[c].todo = gc[c].todo
    BY <1>1, <1>7, Zenon DEF Collection
  <2>3. At(c)' = At(c) BY <2>2, Zenon DEF At
  <2>4. Passing(c)' BY <1>7, FitSame, Zenon
  <2> QED BY <1>3, <1>7, <2>1, <2>2, <2>3, <2>4, Zenon
<1>8. CASE SwapoutHead(c) \/ SwapoutBody(c)
  <2>1. CollectorStep(c) /\ gc[c].pc # "idle" /\ gc[c].swapout
    BY <1>8, Zenon DEF CollectorStep, SwapoutHead, SwapoutBody, Swaps
  <2>2. gc' = [gc EXCEPT ![c].pc = "moved"] \/ gc' = [gc EXCEPT ![c].pc = "failed"]
    BY <1>8, ZenonT(30) DEF SwapoutHead, SwapoutBody
  <2> QED BY <1>7, <2>1, <2>2, Zenon
<1>9. CASE SwapoutTrue(c) \/ FreeObj(c)
  BY <1>6, <1>9, Zenon DEF CollectorStep, SwapoutTrue, FreeObj
<1>10. CASE SwapoutFalse(c)
  <2>1. CollectorStep(c) /\ gc[c].pc # "idle"
    BY <1>10, Zenon DEF CollectorStep, SwapoutFalse, Swaps
  <2>2. CASE Demotable(c)
    <3>1. At(c) \in Chained /\ At(c) \notin Chained'
      BY <1>10, <2>1, <2>2, DemotableFacts, CollectorChain, Zenon
    <3>2. gc' = [gc EXCEPT ![c].pc = "free"]
      BY <1>10, <2>2, Zenon DEF SwapoutFalse
    <3> QED BY <1>7, <2>1, <3>1, <3>2, ZenonT(30)
  <2>3. CASE ~Demotable(c)
    BY <1>6, <1>10, <2>1, <2>3, Zenon DEF SwapoutFalse
  <2> QED BY <2>2, <2>3, Zenon
<1> QED BY <1>4, <1>5, <1>8, <1>9, <1>10, Zenon DEF CollectorStep

=============================================================================
