----------------------- MODULE ObjectCacheBodyProofs ------------------------
(***************************************************************************)
(* The bodies of the objects: who reads them in, who has them in memory,   *)
(* which of them are on disk, and what a single collector may rely on.     *)
(***************************************************************************)
EXTENDS ObjectCacheProofs

-----------------------------------------------------------------------------
(* Bodies, readers and waiters *)

Safe == Known /\ Bodies /\ OneReader /\ ServedHasBody

\* A request's step takes no body away; it gives one to a new object, or takes
\* up or ends the reading of one.
LEMMA DataRequest ==
  ASSUME Safe, NEW r \in Rq, RequestStep(r)
  PROVE  /\ \A o \in Obj : \/ data'[o] = data[o]
                           \/ life[o] = "unused" /\ data[o] = NULL /\ data'[o] = "mem"
                           \/ SwapInObject(r) /\ o = obj[r] /\ data[o] = NULL /\ data'[o] = r
                           \/ SwapIn(r) /\ o = obj[r] /\ data[o] = r
         /\ \A o \in Obj : data[o] = "mem" => data'[o] = "mem"
         /\ \A o \in Obj : life'[o] = "unused" => life[o] = "unused" /\ data'[o] = data[o]
<1> USE DEF Safe, Known
<1>1. /\ data \in [Obj -> {NULL, "mem"} \cup Rq] /\ life \in [Obj -> {"unused", "live", "freed"}]
      /\ "mem" \notin Rq /\ NULL \notin Rq /\ NULL # "mem"
  BY DEF Types, ObjTypes, CacheAssumption
<1>2. \A o \in Obj : life[o] = "unused" => data[o] = NULL
  BY Zenon DEF Bodies
<1>3. CASE Miss(r) \/ Expired(r)
  <2>1. CASE data' = data /\ life' = life
    BY <1>1, <2>1, Zenon
  <2>2. CASE \E o \in Obj : Allocated(o)
    <3>1. PICK o \in Obj : Allocated(o) BY <2>2, Zenon
    <3>2. life[o] = "unused" /\ data[o] = NULL BY <1>2, <3>1, Zenon DEF Allocated
    <3>3. /\ data'[o] = "mem" /\ life'[o] = "live"
          /\ \A x \in Obj : x # o => data'[x] = data[x] /\ life'[x] = life[x]
      BY <1>1, <3>1, Zenon DEF Allocated
    <3> QED BY <1>1, <3>2, <3>3, Zenon
  <2> QED BY <1>3, <2>1, <2>2, Zenon DEF Miss, Expired
<1>4. CASE SwapInObject(r)
  <2>1. obj[r] \in Obj /\ life[obj[r]] = "live"
    <3>1. obj[r] \in Chained /\ Chained \subseteq Obj
      BY <1>4, ChainedAreObjects, Zenon DEF SwapInObject, Places, Placed, Looking
    <3> QED BY <3>1, HeldFacts, Zenon
  <2>2. life' = life BY <1>4, Zenon DEF SwapInObject
  <2>3. CASE data' = data
    BY <1>1, <2>2, <2>3, Zenon
  <2>4. CASE data[obj[r]] = NULL /\ data' = [data EXCEPT ![obj[r]] = r]
    BY <1>1, <1>4, <2>1, <2>2, <2>4, Zenon
  <2> QED BY <1>4, <2>3, <2>4, Zenon DEF SwapInObject, BodyMissing
<1>5. CASE SwapIn(r)
  <2>1. obj[r] \in Obj /\ life[obj[r]] = "live"
    <3>1. obj[r] \in Chained /\ Chained \subseteq Obj
      BY <1>5, ChainedAreObjects, Zenon DEF SwapIn, Places, Placed, Looking
    <3> QED BY <3>1, HeldFacts, Zenon
  <2>2. life' = life /\ data[obj[r]] = r
    BY <1>5, Zenon DEF SwapIn, ServedHasBody, OneSwapper
  <2>3. \A o \in Obj : o # obj[r] => data'[o] = data[o]
    BY <1>1, <1>5, Zenon DEF SwapIn
  <2> QED BY <1>1, <1>5, <2>1, <2>2, <2>3, Zenon
<1>6. CASE ~(Miss(r) \/ Expired(r) \/ SwapInObject(r) \/ SwapIn(r))
  <2>1. data' = data
    BY <1>6, ZenonT(30) DEF RequestStep, Find, Check, Notice, NoticeCount, NoticeWake, Failed, Fresh,
       NotModified, KeepBoth, DeadOldObj, DropOldObj, StoreRate, StoreDead, StoreNew,
       StoreSkip, Release, objVars
  <2>2. life' = life \/ \E o \in Obj : Unref(o)
    <3>1. obj[r] \in Obj \cup {NULL} /\ old_obj[r] \in Obj \cup {NULL} /\ Placed(r)
      BY DEF Types, RqTypes, Places
    <3>2. CASE Failed(r) \/ NotModified(r) \/ DropOldObj(r) \/ Release(r)
      <4>1. ASSUME Failed(r) PROVE obj[r] \in Obj /\ Unref(obj[r])
        BY <3>1, <4>1, ChainedAreObjects, Zenon DEF Failed, Placed, Looking
      <4>2. ASSUME NotModified(r) PROVE obj[r] \in Obj /\ Unref(obj[r])
        BY <3>1, <4>2, Zenon DEF NotModified, Placed
      <4>3. ASSUME DropOldObj(r) PROVE old_obj[r] \in Obj /\ Unref(old_obj[r])
        BY <3>1, <4>3, Zenon DEF DropOldObj, Placed
      <4>4. ASSUME Release(r) PROVE \E o \in Obj : Unref(o)
        <5>1. CASE obj[r] # NULL
          BY <3>1, <4>4, <5>1, Zenon DEF Release
        <5>2. CASE obj[r] = NULL
          BY <3>1, <4>4, <5>2, ZenonT(20) DEF Release, Placed
        <5> QED BY <5>1, <5>2, Zenon
      <4> QED BY <3>2, <4>1, <4>2, <4>3, <4>4, Zenon
    <3>3. CASE ~(Failed(r) \/ NotModified(r) \/ DropOldObj(r) \/ Release(r))
      BY <1>6, <3>3, ZenonT(30) DEF RequestStep, Find, Check, Notice, NoticeCount, NoticeWake, Fresh,
         KeepBoth, DeadOldObj, StoreRate, StoreDead, StoreNew, StoreSkip, objVars
    <3> QED BY <3>2, <3>3, Zenon
  <2>3. \A o \in Obj : life'[o] = "unused" => life[o] = "unused"
    BY <1>1, <2>2, Zenon DEF Unref
  <2> QED BY <2>1, <2>3, Zenon
<1> QED BY <1>3, <1>4, <1>5, <1>6, Zenon

\* The steps of a request that have to do with reading a body.
Reading(r) == SwapInObject(r) \/ SwapIn(r) \/ Notice(r) \/ NoticeCount(r) \/ NoticeWake(r)
ReaderPCs == {"swapin", "notice", "count", "wake"}

LEMMA PlainRequest ==
  ASSUME Types, NEW r \in Rq, RequestStep(r), ~Reading(r)
  PROVE  /\ pc[r] \notin ReaderPCs \cup {"wait"} /\ pc'[r] \notin ReaderPCs \cup {"wait"}
         /\ waiter' = waiter /\ swapped' = swapped /\ window' = window
<1>1. pc \in [Rq -> RqPCs] BY DEF Types, RqTypes
<1>2. CASE Find(r) \/ Miss(r) \/ Check(r)
  BY <1>1, <1>2, Zenon DEF Find, Miss, Check, Goto, rqVars, ReaderPCs
<1>3. CASE Failed(r) \/ Fresh(r) \/ Expired(r) \/ NotModified(r) \/ KeepBoth(r)
  BY <1>1, <1>3, Zenon DEF Failed, Fresh, Expired, NotModified, KeepBoth, Goto, ReaderPCs
<1>4. CASE DeadOldObj(r) \/ DropOldObj(r) \/ StoreRate(r) \/ StoreDead(r)
  BY <1>1, <1>4, Zenon DEF DeadOldObj, DropOldObj, StoreRate, StoreDead, Goto, ReaderPCs
<1>5. CASE StoreNew(r) \/ StoreSkip(r) \/ Release(r)
  BY <1>1, <1>5, Zenon DEF StoreNew, StoreSkip, Release, Goto, ReaderPCs
<1> QED BY <1>2, <1>3, <1>4, <1>5, Zenon DEF RequestStep, Reading

\* A step that is nobody's reading leaves the readers and who waits for them.
LEMMA SwapperFrame ==
  ASSUME Types, Places, OneSwapper, OneReader, NEW R \in SUBSET Rq,
         \A r \in R : pc[r] \notin ReaderPCs \cup {"wait"} /\ pc'[r] \notin ReaderPCs \cup {"wait"},
         \A r \in Rq \ R : pc'[r] = pc[r] /\ obj'[r] = obj[r],
         waiter' = waiter,
         \A o \in Obj : \/ data'[o] = data[o]
                        \/ data[o] \notin Rq /\ data'[o] \notin Rq
  PROVE  OneSwapper' /\ OneReader'
<1>1. \A r \in Rq : pc'[r] \in ReaderPCs \cup {"wait"} => r \notin R
  BY Zenon
<1>2. \A r \in Rq : pc[r] \in ReaderPCs \cup {"wait"} => pc'[r] = pc[r] /\ obj'[r] = obj[r]
  BY Zenon
<1>3. \A r \in Rq : pc'[r] \in ReaderPCs \cup {"wait"} => pc'[r] = pc[r] /\ obj'[r] = obj[r]
  BY <1>1, Zenon
<1>4. \A p \in ReaderPCs : p \in ReaderPCs \cup {"wait"}
  OBVIOUS
<1>5. "wait" \in ReaderPCs \cup {"wait"} /\ "swapin" \in ReaderPCs /\ "notice" \in ReaderPCs
  BY DEF ReaderPCs
<1>6. \A o \in Obj : data'[o] \in Rq => data'[o] = data[o]
  BY Zenon
<1>7. \A o \in Obj : data[o] \in Rq => data'[o] = data[o]
  BY Zenon
<1>8. \A r \in Rq : pc[r] \in {"swapin", "notice"} => obj[r] \in Obj
  BY ChainedAreObjects, Zenon DEF Places, Placed, Looking
<1>9. OneReader'
  <2>1. \A r \in Rq : pc'[r] = "notice" => pc[r] = "notice" /\ obj'[r] = obj[r]
    BY <1>3, <1>4, <1>5, Zenon
  <2>2. \A r \in Rq : pc'[r] = "notice" => data'[obj'[r]] \notin Rq
    <3> SUFFICES ASSUME NEW r \in Rq, pc'[r] = "notice" PROVE data'[obj'[r]] \notin Rq
      BY Zenon
    <3>1. pc[r] = "notice" /\ obj'[r] = obj[r] /\ obj[r] \in Obj BY <1>8, <2>1, Zenon
    <3>2. data[obj[r]] \notin Rq BY <3>1, Zenon DEF OneReader
    <3> QED BY <1>6, <3>1, <3>2, Zenon
  <2>3. \A q, r \in Rq : pc'[q] = "notice" /\ pc'[r] = "notice" /\ obj'[q] = obj'[r] => q = r
    <3> SUFFICES ASSUME NEW q \in Rq, NEW r \in Rq, pc'[q] = "notice", pc'[r] = "notice",
                        obj'[q] = obj'[r]
                 PROVE  q = r
      BY Zenon
    <3> QED BY <2>1, ZenonT(30) DEF OneReader
  <2> QED BY <2>2, <2>3, Zenon DEF OneReader
<1>10. \A o \in Obj : data'[o] \in Rq => pc'[data'[o]] = "swapin" /\ obj'[data'[o]] = o
  <2> SUFFICES ASSUME NEW o \in Obj, data'[o] \in Rq
               PROVE  pc'[data'[o]] = "swapin" /\ obj'[data'[o]] = o
    BY Zenon
  <2>1. data'[o] = data[o] BY <1>6, Zenon
  <2>2. PICK r \in Rq : r = data[o] BY <2>1, Zenon
  <2>3. pc[r] = "swapin" /\ obj[r] = o BY <2>2, Zenon DEF OneSwapper
  <2>4. pc'[r] = pc[r] /\ obj'[r] = obj[r] BY <1>2, <1>4, <1>5, <2>3, Zenon
  <2> QED BY <2>1, <2>2, <2>3, <2>4, Zenon
<1>11. \A r \in Rq : pc'[r] = "swapin" => data'[obj'[r]] = r
  <2> SUFFICES ASSUME NEW r \in Rq, pc'[r] = "swapin" PROVE data'[obj'[r]] = r
    BY Zenon
  <2>1. pc[r] = "swapin" /\ obj'[r] = obj[r] BY <1>3, <1>4, <1>5, Zenon
  <2>2. data[obj[r]] = r BY <2>1, Zenon DEF OneSwapper
  <2>3. obj[r] \in Obj BY <1>8, <2>1, Zenon
  <2> QED BY <1>7, <2>1, <2>2, <2>3, Zenon
<1>12. \A r, q \in Rq : q \in waiter'[r] =>
         pc'[q] = "wait" /\ obj'[q] = obj'[r] /\ pc'[r] \in ReaderPCs
  <2> SUFFICES ASSUME NEW r \in Rq, NEW q \in Rq, q \in waiter'[r]
               PROVE  pc'[q] = "wait" /\ obj'[q] = obj'[r] /\ pc'[r] \in ReaderPCs
    BY Zenon
  <2>1. pc[q] = "wait" /\ obj[q] = obj[r] /\ pc[r] \in ReaderPCs
    BY Zenon DEF OneSwapper, ReaderPCs
  <2> QED BY <1>2, <1>4, <1>5, <2>1, Zenon
<1>13. \A q \in Rq : pc'[q] = "wait" => \E r \in Rq : q \in waiter'[r]
  <2> SUFFICES ASSUME NEW q \in Rq, pc'[q] = "wait" PROVE \E r \in Rq : q \in waiter'[r]
    BY Zenon
  <2>1. pc[q] = "wait" BY <1>3, <1>5, Zenon
  <2> QED BY <2>1, Zenon DEF OneSwapper
<1> QED BY <1>9, <1>10, <1>11, <1>12, <1>13, Zenon DEF OneSwapper, ReaderPCs

LEMMA SwapperRequest ==
  ASSUME Safe, NEW r \in Rq, RequestStep(r)
  PROVE  OneSwapper' /\ OneReader'
<1> USE DEF Safe, Known
<1>1. /\ pc \in [Rq -> RqPCs] /\ waiter \in [Rq -> SUBSET Rq] /\ swapped \in [Rq -> BOOLEAN]
      /\ data \in [Obj -> {NULL, "mem"} \cup Rq]
      /\ "mem" \notin Rq /\ NULL \notin Rq
      /\ OneSwapper /\ OneReader
  BY Zenon DEF Types, ObjTypes, RqTypes, CacheAssumption, ServedHasBody
<1>2. \A q \in Rq : pc[q] \in {"lock", "swapin", "notice", "count", "wake", "wait"} => obj[q] \in Obj
  BY ChainedAreObjects, Zenon DEF Places, Placed, Looking
<1>3. ASSUME ~(\E o \in Obj : data[o] \in Rq /\ data'[o] # data[o]),
             ~(\E o \in Obj : data'[o] \in Rq /\ data'[o] # data[o]),
             pc[r] \notin ReaderPCs \cup {"wait"}, pc'[r] \notin ReaderPCs \cup {"wait"},
             waiter' = waiter, ~NoticeWake(r)
      PROVE  OneSwapper' /\ OneReader'
  <2>1. \A q \in Rq \ {r} : pc'[q] = pc[q] /\ obj'[q] = obj[q]
    BY <1>3, OthersKeep, Zenon
  <2>2. \A o \in Obj : data'[o] = data[o] \/ (data[o] \notin Rq /\ data'[o] \notin Rq)
    BY <1>3, Zenon
  <2>3. PICK R \in SUBSET Rq : R = {r} BY Zenon
  <2>4. /\ \A q \in R : pc[q] \notin ReaderPCs \cup {"wait"} /\ pc'[q] \notin ReaderPCs \cup {"wait"}
        /\ \A q \in Rq \ R : pc'[q] = pc[q] /\ obj'[q] = obj[q]
    BY <1>3, <2>1, <2>3, Zenon
  <2> QED BY <1>1, <1>3, <2>2, <2>4, SwapperFrame, Zenon
<1>4. CASE ~Reading(r)
  <2>1. \A o \in Obj : data'[o] = data[o] \/ (data[o] = NULL /\ data'[o] = "mem")
    BY <1>4, DataRequest, Zenon DEF Reading
  <2>2. pc[r] \notin ReaderPCs \cup {"wait"} /\ pc'[r] \notin ReaderPCs \cup {"wait"} /\ waiter' = waiter
    BY <1>4, PlainRequest, Zenon
  <2>3. ~NoticeWake(r) BY <1>4, Zenon DEF Reading
  <2> QED BY <1>1, <1>3, <2>1, <2>2, <2>3, Zenon
<1>5. CASE SwapInObject(r)
  <2>1. /\ pc[r] = "lock" /\ obj' = obj /\ ~NoticeWake(r) /\ obj[r] \in Obj /\ ObjLockFree(obj[r])
    BY <1>2, <1>5, Zenon DEF SwapInObject, NoticeWake
  <2>2. CASE Goto(r, "failed") /\ data' = data /\ waiter' = waiter
    BY <1>1, <1>3, <2>1, <2>2, Zenon DEF Goto, ReaderPCs
  <2>3. CASE Goto(r, "serve") /\ data' = data /\ waiter' = waiter
    BY <1>1, <1>3, <2>1, <2>3, Zenon DEF Goto, ReaderPCs
  <2>4. CASE data[obj[r]] = NULL /\ data' = [data EXCEPT ![obj[r]] = r] /\ Goto(r, "swapin")
             /\ waiter' = waiter
    <3>1. /\ pc'[r] = "swapin" /\ \A q \in Rq : q # r => pc'[q] = pc[q]
          /\ data'[obj[r]] = r /\ \A o \in Obj : o # obj[r] => data'[o] = data[o]
      BY <1>1, <2>1, <2>4, Zenon DEF Goto
    <3>2. OneSwapper'
      BY <1>1, <1>2, <2>1, <2>4, <3>1, SMTT(30) DEF OneSwapper
    <3>3. OneReader'
      BY <1>1, <1>2, <2>1, <2>4, <3>1, SMTT(30) DEF OneReader, ObjLockFree
    <3> QED BY <3>2, <3>3, Zenon
  <2>5. CASE data[obj[r]] \in Rq /\ waiter' = [waiter EXCEPT ![data[obj[r]]] = @ \cup {r}]
             /\ Goto(r, "wait") /\ data' = data
    <3>1. PICK s \in Rq : s = data[obj[r]] BY <2>5, Zenon
    <3>2. pc[s] = "swapin" /\ obj[s] = obj[r] /\ s # r
      BY <1>1, <2>1, <3>1, Zenon DEF OneSwapper
    <3>3. /\ pc'[r] = "wait" /\ \A q \in Rq : q # r => pc'[q] = pc[q]
          /\ waiter'[s] = waiter[s] \cup {r} /\ \A q \in Rq : q # s => waiter'[q] = waiter[q]
      BY <1>1, <2>5, <3>1, Zenon DEF Goto
    <3>4. \A q \in Rq : r \notin waiter[q] /\ waiter[r] = {}
      BY <1>1, <2>1, SMTT(30) DEF OneSwapper
    <3>5. OneSwapper'
      BY <1>1, <2>1, <2>5, <3>2, <3>3, <3>4, SMTT(30) DEF OneSwapper
    <3>6. OneReader'
      BY <1>1, <2>1, <2>5, <3>2, <3>3, <3>4, SMTT(30) DEF OneReader
    <3> QED BY <3>5, <3>6, Zenon
  <2> QED BY <1>5, <2>2, <2>3, <2>4, <2>5, Zenon DEF SwapInObject, BodyMissing
<1>6. CASE SwapIn(r)
  <2>1. /\ pc[r] = "swapin" /\ pc'[r] = "notice" /\ \A q \in Rq : q # r => pc'[q] = pc[q]
        /\ obj' = obj /\ waiter' = waiter /\ obj[r] \in Obj /\ data[obj[r]] = r
        /\ data'[obj[r]] \in {"mem", NULL}
        /\ \A o \in Obj : o # obj[r] => data'[o] = data[o]
    BY <1>1, <1>2, <1>6, SMTT(30) DEF SwapIn, Goto, OneSwapper
  <2>2. OneSwapper'
    BY <1>1, <1>2, <2>1, SMTT(30) DEF OneSwapper
  <2>3. OneReader'
    BY <1>1, <1>2, <2>1 DEF OneReader
  <2> QED BY <2>2, <2>3, Zenon
<1>7. CASE Notice(r) \/ NoticeCount(r)
  <2>1. /\ pc[r] \in {"notice", "count"} /\ pc'[r] \in {"count", "wake"}
        /\ \A q \in Rq : q # r => pc'[q] = pc[q]
        /\ obj' = obj /\ waiter' = waiter /\ data' = data
    BY <1>1, <1>7, Zenon DEF Notice, NoticeCount, Goto, objVars
  <2>2. OneSwapper'
    BY <1>1, <2>1, SMTT(30) DEF OneSwapper
  <2>3. OneReader'
    BY <1>1, <2>1 DEF OneReader
  <2> QED BY <2>2, <2>3, Zenon
<1>8. CASE NoticeWake(r)
  <2>1. /\ pc[r] = "wake" /\ obj' = obj /\ data' = data
        /\ \A q \in Rq : q = r \/ q \in waiter[r] => pc'[q] \in {"serve", "failed"}
        /\ \A q \in Rq : q # r /\ q \notin waiter[r] => pc'[q] = pc[q]
        /\ waiter'[r] = {} /\ \A q \in Rq : q # r => waiter'[q] = waiter[q]
    BY <1>1, <1>8, Zenon DEF NoticeWake, Woken, objVars
  <2>2. \A q \in Rq : q \in waiter[r] => pc[q] = "wait" BY <1>1, Zenon DEF OneSwapper
  <2>3. OneSwapper'
    BY <1>1, <2>1, <2>2, SMTT(30) DEF OneSwapper, OneReader
  <2>4. OneReader'
    BY <1>1, <2>1, <2>2 DEF OneReader
  <2> QED BY <2>3, <2>4, Zenon
<1> QED BY <1>4, <1>5, <1>6, <1>7, <1>8, Zenon DEF Reading

\* What ServedHasBody says of one request.
Served(r) ==
  /\ pc[r] \in {"serve", "reval", "store"} =>
       data[obj[r]] = "mem" /\ (old_obj[r] # NULL => data[old_obj[r]] = "mem")
  /\ pc[r] = "drop" => data[old_obj[r]] = "mem"

LEMMA ServedIs == ServedHasBody <=> OneSwapper /\ \A r \in Rq : Served(r)
BY Zenon DEF ServedHasBody, Served

LEMMA ServedRequest ==
  ASSUME Safe, NEW r \in Rq, RequestStep(r), NEW q \in Rq
  PROVE  Served(q)'
<1> USE DEF Safe, Known
<1>1. /\ pc \in [Rq -> RqPCs] /\ obj \in [Rq -> Obj \cup {NULL}]
      /\ old_obj \in [Rq -> Obj \cup {NULL}] /\ NULL \notin Obj /\ data \in [Obj -> {NULL, "mem"} \cup Rq]
      /\ Served(q) /\ Placed(q) /\ Placed(r) /\ Served(r)
  BY ServedIs, Zenon DEF Types, ObjTypes, RqTypes, CacheAssumption, Places
<1>2. \A o \in Obj : data[o] = "mem" => data'[o] = "mem"
  BY DataRequest, Zenon
<1>3. \A p \in Rq : /\ pc[p] \in {"serve", "reval", "store", "drop"} => obj[p] \in Obj
                    /\ old_obj[p] # NULL => old_obj[p] \in Obj
  BY <1>1, ChainedAreObjects, Zenon DEF Places, Placed, Looking
<1>4. ASSUME pc'[q] = pc[q], obj'[q] = obj[q], old_obj'[q] = old_obj[q] PROVE Served(q)'
  BY <1>1, <1>2, <1>3, <1>4, Zenon DEF Served, Placed
<1>5. CASE NoticeWake(r)
  <2>1. obj' = obj /\ old_obj' = old_obj /\ data' = data
    BY <1>5, Zenon DEF NoticeWake, objVars
  <2>2. CASE q \in Woken(r)
    <3>1. pc[q] \in {"wait", "wake"} /\ obj[q] = obj[r] /\ pc[r] = "wake"
      BY <1>5, <2>2, ZenonT(30) DEF Woken, NoticeWake, ServedHasBody, OneSwapper
    <3>2. old_obj[q] = NULL BY <1>1, <3>1, Zenon DEF Placed, Looking
    <3>3. pc'[q] = "serve" => swapped[r] /\ pc'[q] # "drop"
      BY <1>5, <2>2, Zenon DEF NoticeWake
    <3>4. pc'[q] \in {"serve", "failed"} BY <1>5, <2>2, Zenon DEF NoticeWake
    <3>5. swapped[r] => data[obj[r]] = "mem" BY <3>1, Zenon DEF Bodies
    <3> QED BY <2>1, <3>1, <3>2, <3>3, <3>4, <3>5, Zenon DEF Served
  <2>3. CASE q \notin Woken(r)
    <3>1. pc'[q] = pc[q] BY <1>5, <2>3, Zenon DEF NoticeWake
    <3> QED BY <1>4, <2>1, <3>1, Zenon
  <2> QED BY <2>2, <2>3, Zenon
<1>6. CASE ~NoticeWake(r) /\ q # r
  BY <1>4, <1>6, OthersKeep, Zenon
<1>7. CASE ~NoticeWake(r) /\ q = r
  <2> SUFFICES Served(r)' BY <1>7
  <2>1. CASE Check(r)
    <3>1. /\ pc[r] = "check" /\ obj' = obj /\ old_obj' = old_obj /\ data' = data
          /\ pc'[r] = IF "IN_MEM" \in flags[obj[r]] THEN "serve" ELSE "lock"
      BY <1>1, <2>1, Zenon DEF Check, Goto, objVars
    <3>2. obj[r] \in Obj /\ old_obj[r] = NULL
      BY <1>1, <3>1, ChainedAreObjects, Zenon DEF Placed, Looking
    <3>3. "IN_MEM" \in flags[obj[r]] => data[obj[r]] = "mem"
      BY <3>2, Zenon DEF Bodies, InMem
    <3> QED BY <3>1, <3>2, <3>3, Zenon DEF Served
  <2>2. CASE SwapInObject(r)
    <3>1. /\ pc[r] = "lock" /\ obj' = obj /\ old_obj' = old_obj
          /\ pc'[r] \in {"failed", "swapin", "wait"} \/ (pc'[r] = "serve" /\ data' = data /\ data[obj[r]] = "mem")
      BY <1>1, <2>2, Zenon DEF SwapInObject, Goto
    <3>2. old_obj[r] = NULL
      BY <1>1, <3>1, Zenon DEF Placed, Looking
    <3> QED BY <3>1, <3>2, Zenon DEF Served
  <2>3. CASE Miss(r)
    <3>1. CASE pc'[r] = "done"
      BY <3>1 DEF Served
    <3>2. CASE \E o \in Obj : Allocated(o) /\ obj' = [obj EXCEPT ![r] = o] /\ Goto(r, "store")
      <4>1. PICK o \in Obj : Allocated(o) /\ obj' = [obj EXCEPT ![r] = o] /\ Goto(r, "store")
        BY <3>2, Zenon
      <4>2. obj'[r] = o /\ pc'[r] = "store" /\ data'[o] = "mem"
        BY <1>1, <4>1, Zenon DEF Allocated, Goto
      <4>3. old_obj'[r] = NULL
        BY <1>1, <2>3, Zenon DEF Miss, Placed
      <4> QED BY <4>2, <4>3, Zenon DEF Served
    <3> QED BY <1>1, <2>3, <3>1, <3>2, Zenon DEF Miss, Goto
  <2>4. CASE Expired(r)
    <3>1. PICK o \in Obj : Allocated(o) /\ obj' = [obj EXCEPT ![r] = o]
      BY <2>4, Zenon DEF Expired
    <3>2. /\ obj'[r] = o /\ data'[o] = "mem" /\ pc[r] = "serve" /\ pc'[r] = "reval"
          /\ old_obj'[r] = obj[r]
      BY <1>1, <2>4, <3>1, Zenon DEF Allocated, Expired, Goto
    <3>3. obj[r] \in Obj /\ data'[obj[r]] = "mem"
      BY <1>1, <1>2, <1>3, <3>2, Zenon DEF Served
    <3> QED BY <3>2, <3>3, Zenon DEF Served
  <2>5. CASE Fresh(r) \/ KeepBoth(r)
    <3>1. obj'[r] = obj[r] /\ old_obj'[r] = old_obj[r] /\ pc[r] \in {"serve", "reval"} /\ pc'[r] = "store"
      BY <1>1, <2>5, Zenon DEF Fresh, KeepBoth, Goto
    <3> QED BY <1>1, <1>2, <1>3, <3>1, Zenon DEF Served
  <2>6. CASE NotModified(r)
    <3>1. obj'[r] = old_obj[r] /\ old_obj'[r] = NULL /\ pc[r] = "reval" /\ pc'[r] = "store"
      BY <1>1, <2>6, Zenon DEF NotModified, Goto
    <3>2. old_obj[r] # NULL BY <1>1, <3>1, Zenon DEF Placed
    <3> QED BY <1>1, <1>2, <1>3, <3>1, <3>2, Zenon DEF Served
  <2>7. CASE DeadOldObj(r)
    <3>1. obj'[r] = obj[r] /\ old_obj'[r] = old_obj[r] /\ pc[r] = "reval" /\ pc'[r] = "drop"
      BY <1>1, <2>7, Zenon DEF DeadOldObj, Goto
    <3>2. old_obj[r] # NULL BY <1>1, <3>1, Zenon DEF Placed
    <3> QED BY <1>1, <1>2, <1>3, <3>1, <3>2, Zenon DEF Served
  <2>8. CASE DropOldObj(r)
    <3>1. obj'[r] = obj[r] /\ old_obj'[r] = NULL /\ pc[r] = "drop" /\ pc'[r] = "store" /\ data' = data
      BY <1>1, <2>8, Zenon DEF DropOldObj, Goto
    <3>2. data[obj[r]] = "mem" BY <3>1, Zenon DEF Bodies
    <3> QED BY <3>1, <3>2, Zenon DEF Served
  <2>9. CASE ~(Check(r) \/ SwapInObject(r) \/ Miss(r) \/ Expired(r) \/ Fresh(r) \/ KeepBoth(r)
               \/ NotModified(r) \/ DeadOldObj(r) \/ DropOldObj(r))
    <3>1. pc'[r] \notin {"serve", "reval", "store", "drop"}
      BY <1>1, <1>7, <2>9, ZenonT(30) DEF RequestStep, Find, SwapIn, Notice, NoticeCount, Failed, StoreRate,
         StoreDead, StoreNew, StoreSkip, Release, Goto
    <3> QED BY <3>1, Zenon DEF Served
  <2> QED BY <2>1, <2>2, <2>3, <2>4, <2>5, <2>6, <2>7, <2>8, <2>9, Zenon
<1> QED BY <1>5, <1>6, <1>7, Zenon

\* A request that gives notice keeps an object's lock as long as it does.
LEMMA LocksRequest ==
  ASSUME Safe, NEW r \in Rq, RequestStep(r), NEW o \in Obj, InMem(o)
  PROVE  InMem(o)'
<1> USE DEF Safe, Known
<1>1. data'[o] = "mem" BY DataRequest, Zenon DEF InMem
<1>2. pc \in [Rq -> RqPCs] /\ obj \in [Rq -> Obj \cup {NULL}] /\ "mem" \notin Rq
  BY DEF Types, RqTypes, CacheAssumption
<1>3. ASSUME NEW q \in Rq, pc'[q] = "notice", obj'[q] = o PROVE FALSE
  <2>1. CASE SwapIn(r) /\ q = r
    <3>1. data[obj[r]] = r /\ obj'[r] = obj[r]
      BY <2>1, Zenon DEF SwapIn, ServedHasBody, OneSwapper
    <3> QED BY <1>2, <1>3, <2>1, <3>1, Zenon DEF InMem
  <2>2. CASE NoticeWake(r)
    <3>1. pc[q] = "notice" /\ obj[q] = o
      BY <1>2, <1>3, <2>2, Zenon DEF NoticeWake
    <3> QED BY <3>1 DEF InMem, ObjLockFree
  <2>3. CASE q # r /\ ~NoticeWake(r)
    <3>1. pc[q] = "notice" /\ obj[q] = o
      BY <1>3, <2>3, OthersKeep, Zenon
    <3> QED BY <3>1 DEF InMem, ObjLockFree
  <2>4. CASE q = r /\ ~SwapIn(r) /\ ~NoticeWake(r)
    <3>1. CASE Reading(r)
      BY <1>2, <1>3, <2>4, <3>1, Zenon DEF Reading, SwapInObject, Notice, NoticeCount, Goto
    <3>2. CASE ~Reading(r)
      BY <1>3, <2>4, <3>2, PlainRequest, Zenon DEF ReaderPCs
    <3> QED BY <3>1, <3>2, Zenon
  <2> QED BY <2>1, <2>2, <2>3, <2>4, Zenon
<1>4. ObjLockFree(o)' BY <1>3, Zenon DEF ObjLockFree
<1> QED BY <1>1, <1>4, Zenon DEF InMem

\* An object outside the chain is given notice of by nobody.
LEMMA NoNotice ==
  ASSUME Places, NEW o, o \notin Chained
  PROVE  ObjLockFree(o)
BY DEF Places, Placed, Looking, ObjLockFree

\* IN_MEM is set on a body that is there.
LEMMA FlagsRequest ==
  ASSUME Safe, NEW r \in Rq, RequestStep(r), NEW o \in Obj, "IN_MEM" \in flags'[o]
  PROVE  InMem(o)'
<1> USE DEF Safe, Known
<1>1. /\ flags \in [Obj -> SUBSET Flags] /\ data \in [Obj -> {NULL, "mem"} \cup Rq]
      /\ pc \in [Rq -> RqPCs] /\ Placed(r) /\ obj \in [Rq -> Obj \cup {NULL}] /\ NULL \notin Obj
  BY Zenon DEF Types, ObjTypes, RqTypes, CacheAssumption, Places
<1>2. ASSUME "IN_MEM" \in flags[o] PROVE InMem(o)'
  <2>1. InMem(o) BY <1>2, Zenon DEF Bodies
  <2> QED BY <2>1, LocksRequest, Zenon
<1>3. CASE Miss(r) \/ Expired(r)
  <2>1. CASE flags' = flags
    BY <1>2, <2>1, Zenon
  <2>2. CASE \E x \in Obj : Allocated(x) /\ obj' = [obj EXCEPT ![r] = x] /\ (Goto(r, "store") \/ Goto(r, "reval"))
    <3>1. PICK x \in Obj : Allocated(x) /\ obj' = [obj EXCEPT ![r] = x] /\ (Goto(r, "store") \/ Goto(r, "reval"))
      BY <2>2, Zenon
    <3>2. CASE o # x
      BY <1>1, <1>2, <3>1, <3>2, Zenon DEF Allocated
    <3>3. CASE o = x
      <4>1. data'[o] = "mem" /\ life[o] = "unused"
        BY <1>1, <3>1, <3>3, Zenon DEF Allocated
      <4>2. o \notin Chained
        BY <4>1, HeldFacts, Zenon
      <4>3. ObjLockFree(o) BY <4>2, NoNotice, Zenon
      <4>4. ASSUME NEW q \in Rq, pc'[q] = "notice", obj'[q] = o PROVE FALSE
        <5>1. q # r BY <1>1, <3>1, <4>4, Zenon DEF Goto
        <5>2. pc[q] = "notice" /\ obj[q] = o BY <1>1, <3>1, <4>4, <5>1, Zenon DEF Goto
        <5> QED BY <4>3, <5>2, Zenon DEF ObjLockFree
      <4> QED BY <4>1, <4>4, Zenon DEF InMem, ObjLockFree
    <3> QED BY <3>2, <3>3, Zenon
  <2> QED BY <1>3, <2>1, <2>2, Zenon DEF Miss, Expired
<1>4. CASE Notice(r)
  <2>1. CASE o # obj[r]
    BY <1>1, <1>2, <1>4, <2>1, Zenon DEF Notice
  <2>2. CASE o = obj[r]
    <3>1. pc[r] = "notice" /\ "IN_MEM" \notin window[r]
      BY <1>4, Zenon DEF Notice, Bodies
    <3>2. swapped[r]
      BY <1>1, <1>4, <2>2, <3>1, Zenon DEF Notice
    <3>3. data'[o] = "mem"
      BY <1>4, <2>2, <3>1, <3>2, Zenon DEF Bodies, Notice
    <3>4. ASSUME NEW q \in Rq, pc'[q] = "notice", obj'[q] = o PROVE FALSE
      <4>1. q # r BY <1>1, <1>4, <3>4, Zenon DEF Notice, Goto
      <4>2. pc[q] = "notice" /\ obj[q] = o BY <1>1, <1>4, <3>4, <4>1, Zenon DEF Notice, Goto
      <4> QED BY <2>2, <3>1, <4>1, <4>2, Zenon DEF OneReader
    <3> QED BY <3>3, <3>4, Zenon DEF InMem, ObjLockFree
  <2> QED BY <2>1, <2>2, Zenon
<1>5. CASE StoreNew(r)
  <2>1. PICK bits : flags' = [flags EXCEPT ![obj[r]] = bits]
    BY <1>5, Zenon DEF StoreNew, CacheAdd
  <2>2. CASE o # obj[r]
    BY <1>1, <1>2, <2>1, <2>2, Zenon
  <2>3. CASE o = obj[r]
    <3>1. pc[r] = "store" /\ data[obj[r]] = "mem"
      BY <1>5, Zenon DEF StoreNew, ServedHasBody
    <3>2. obj[r] \notin Chained
      BY <1>5, RequestChain, Zenon
    <3>3. InMem(o) BY <2>3, <3>1, <3>2, NoNotice, Zenon DEF InMem
    <3> QED BY <3>3, LocksRequest, Zenon
  <2> QED BY <2>2, <2>3, Zenon
<1>6. CASE DeadOldObj(r) \/ StoreDead(r)
  <2>1. flags' = [flags EXCEPT ![old_obj[r]] = @ \cup {"DEAD"}]
    BY <1>6, Zenon DEF DeadOldObj, StoreDead, CacheDead
  <2> QED BY <1>1, <1>2, <2>1, Zenon
<1>7. CASE ~(Miss(r) \/ Expired(r) \/ Notice(r) \/ StoreNew(r) \/ DeadOldObj(r) \/ StoreDead(r))
  <2>1. flags' = flags
    BY <1>7, ZenonT(30) DEF RequestStep, Find, Check, SwapInObject, SwapIn, NoticeCount, NoticeWake,
       Failed, Fresh, NotModified, KeepBoth, DropOldObj, StoreRate, StoreSkip, Release, objVars
  <2> QED BY <1>2, <2>1, Zenon
<1> QED BY <1>3, <1>4, <1>5, <1>6, <1>7, Zenon

\* What Bodies says of one request.
Noticed(r) ==
  /\ pc[r] = "notice" => "IN_MEM" \notin window[r]
  /\ pc[r] = "count" => swapped[r]
  /\ pc[r] \in {"notice", "count", "wake"} /\ swapped[r] => data[obj[r]] = "mem"
  /\ pc[r] = "drop" => data[obj[r]] = "mem"

LEMMA NoticedRequest ==
  ASSUME Safe, NEW r \in Rq, RequestStep(r), NEW q \in Rq
  PROVE  Noticed(q)'
<1> USE DEF Safe, Known
<1>1. /\ pc \in [Rq -> RqPCs] /\ obj \in [Rq -> Obj \cup {NULL}] /\ swapped \in [Rq -> BOOLEAN]
      /\ window \in [Rq \cup Killers -> SUBSET Flags] /\ NULL \notin Obj /\ "mem" \notin Rq
      /\ Noticed(q) /\ Noticed(r) /\ data \in [Obj -> {NULL, "mem"} \cup Rq]
  BY Zenon DEF Types, ObjTypes, RqTypes, ActorTypes, CacheAssumption, Bodies, Noticed
<1>2. \A o \in Obj : data[o] = "mem" => data'[o] = "mem"
  BY DataRequest, Zenon
<1>3. \A p \in Rq : pc[p] \in ReaderPCs \cup {"drop", "reval"} => obj[p] \in Obj
  BY <1>1, ChainedAreObjects, Zenon DEF Places, Placed, Looking, ReaderPCs
<1>4. ASSUME pc'[q] = pc[q], obj'[q] = obj[q], swapped'[q] = swapped[q], window'[q] = window[q]
      PROVE  Noticed(q)'
  BY <1>1, <1>2, <1>3, <1>4, Zenon DEF Noticed, ReaderPCs
<1>5. CASE NoticeWake(r)
  <2>1. CASE q \in Woken(r)
    BY <1>1, <1>5, <2>1, Zenon DEF NoticeWake, Noticed
  <2>2. CASE q \notin Woken(r)
    BY <1>1, <1>4, <1>5, <2>2, ZenonT(30) DEF NoticeWake, Woken
  <2> QED BY <2>1, <2>2, Zenon
<1>6. CASE ~NoticeWake(r) /\ q # r
  <2>1. window'[q] = window[q]
    <3>1. CASE ~Reading(r) BY <3>1, PlainRequest, Zenon
    <3>2. CASE Reading(r)
      BY <1>1, <1>6, <3>2, Zenon DEF Reading, SwapInObject, SwapIn, Notice, NoticeCount
    <3> QED BY <3>1, <3>2, Zenon
  <2> QED BY <1>4, <1>6, <2>1, OthersKeep, Zenon
<1>7. CASE q = r /\ ~NoticeWake(r)
  <2> SUFFICES Noticed(r)' BY <1>7
  <2>1. CASE SwapIn(r)
    <3>1. /\ pc[r] = "swapin" /\ pc'[r] = "notice" /\ obj'[r] = obj[r] /\ window'[r] = flags[obj[r]]
          /\ obj[r] \in Obj
      BY <1>1, <1>3, <2>1, Zenon DEF SwapIn, Goto, ReaderPCs
    <3>2. data[obj[r]] = r BY <3>1, ZenonT(30) DEF ServedHasBody, OneSwapper
    <3>3. "IN_MEM" \notin flags[obj[r]]
      BY <1>1, <3>1, <3>2, Zenon DEF Bodies, InMem
    <3>4. swapped'[r] => data'[obj[r]] = "mem"
      BY <1>1, <2>1, <3>1, Zenon DEF SwapIn
    <3> QED BY <3>1, <3>3, <3>4, Zenon DEF Noticed
  <2>2. CASE Notice(r) \/ NoticeCount(r)
    <3>1. /\ obj'[r] = obj[r] /\ data' = data /\ swapped'[r] = swapped[r] /\ pc[r] \in {"notice", "count"}
          /\ pc'[r] = "wake" \/ (pc'[r] = "count" /\ swapped[r])
      BY <1>1, <2>2, Zenon DEF Notice, NoticeCount, Goto, objVars
    <3> QED BY <1>1, <3>1, Zenon DEF Noticed
  <2>3. CASE SwapInObject(r)
    BY <1>1, <2>3, Zenon DEF SwapInObject, Goto, Noticed
  <2>4. CASE DeadOldObj(r)
    <3>1. pc[r] = "reval" /\ pc'[r] = "drop" /\ obj'[r] = obj[r] /\ data' = data
      BY <1>1, <2>4, Zenon DEF DeadOldObj, Goto
    <3>2. data[obj[r]] = "mem" BY <3>1, Zenon DEF ServedHasBody
    <3> QED BY <3>1, <3>2, Zenon DEF Noticed
  <2>5. CASE ~Reading(r) /\ ~DeadOldObj(r)
    <3>1. pc'[r] \notin {"notice", "count", "wake"} BY <2>5, PlainRequest, ZenonT(30) DEF ReaderPCs
    <3>2. pc'[r] # "drop"
      BY <1>1, <2>5, Zenon DEF RequestStep, Reading, Find, Miss, Check, Failed, Fresh, Expired, NotModified,
         KeepBoth, DropOldObj, StoreRate, StoreDead, StoreNew, StoreSkip, Release, Goto
    <3> QED BY <3>1, <3>2, Zenon DEF Noticed
  <2> QED BY <1>7, <2>1, <2>2, <2>3, <2>4, <2>5, Zenon DEF Reading
<1> QED BY <1>5, <1>6, <1>7, Zenon

LEMMA BodiesRequest ==
  ASSUME Safe, NEW r \in Rq, RequestStep(r)
  PROVE  Bodies'
<1> USE DEF Safe, Known
<1>1. ASSUME NEW o \in Obj, InList("mem", o)' PROVE data'[o] = "mem"
  <2>1. InList("mem", o) \/ "IN_MEM" \in flags[o] \/ (StoreNew(r) /\ o = obj[r])
    BY <1>1, RequestChain, Zenon
  <2>2. ASSUME StoreNew(r) PROVE data[obj[r]] = "mem"
    BY <2>2, Zenon DEF StoreNew, ServedHasBody
  <2>3. data[o] = "mem" BY <2>1, <2>2, Zenon DEF Bodies, InMem
  <2> QED BY <2>3, DataRequest, Zenon
<1>2. ASSUME NEW o \in Obj, life'[o] = "unused" PROVE data'[o] = NULL
  BY <1>2, DataRequest, Zenon DEF Bodies
<1>3. ASSUME NEW k \in Killers, killer'[k].at # NULL, "IN_MEM" \in window'[k]
      PROVE  InMem(killer[k].at)'
  <2>1. killer' = killer
    BY ZenonT(30) DEF RequestStep, Find, Miss, Check, SwapInObject, SwapIn, Notice, NoticeCount,
       NoticeWake, Failed, Fresh, Expired, NotModified, KeepBoth, DeadOldObj, DropOldObj,
       StoreRate, StoreDead, StoreNew, StoreSkip, Release
  <2>2. window'[k] = window[k]
    <3>1. k \notin Rq /\ window \in [Rq \cup Killers -> SUBSET Flags]
      BY DEF CacheAssumption, Types, ActorTypes
    <3>2. CASE ~Reading(r) BY <3>2, PlainRequest, Zenon
    <3>3. CASE Reading(r)
      BY <3>1, <3>3, Zenon DEF Reading, SwapInObject, SwapIn, Notice, NoticeCount, NoticeWake
    <3> QED BY <3>2, <3>3, Zenon
  <2>3. PICK o \in Obj : o = killer[k].at
    BY <1>3, <2>1, Zenon DEF Types, ActorTypes, Killing
  <2>4. InMem(o) BY <1>3, <2>1, <2>2, <2>3, Zenon DEF Bodies
  <2>5. InMem(o)' BY <2>4, LocksRequest, Zenon
  <2> QED BY <2>1, <2>3, <2>5, Zenon DEF InMem, ObjLockFree
<1>4. \A o \in Obj : "IN_MEM" \in flags'[o] => InMem(o)'
  BY FlagsRequest, Zenon
<1>5. \A q \in Rq : Noticed(q)'
  BY NoticedRequest, Zenon
<1> QED BY <1>1, <1>2, <1>3, <1>4, <1>5, Zenon DEF Bodies, Noticed

\* Elsewhere a body goes only when nobody holds its object.
LEMMA ReadersOther ==
  ASSUME Safe, UNCHANGED rqVars, \A r \in Rq : window'[r] = window[r],
         \A o \in Obj : data'[o] = data[o]
                        \/ (data[o] = "mem" /\ data'[o] = NULL /\ Holders(o) = {})
  PROVE  OneReader' /\ ServedHasBody' /\ \A r \in Rq : Noticed(r)'
<1> USE DEF Safe, Known
<1>1. /\ pc' = pc /\ obj' = obj /\ old_obj' = old_obj /\ waiter' = waiter /\ swapped' = swapped
      /\ "mem" \notin Rq /\ NULL \notin Rq /\ NULL \notin Obj /\ OneSwapper
  BY Zenon DEF rqVars, CacheAssumption, ServedHasBody
<1>2. OneSwapper' /\ OneReader'
  <2>1. PICK R \in SUBSET Rq : R = {} BY Zenon
  <2>2. \A o \in Obj : data'[o] = data[o] \/ (data[o] \notin Rq /\ data'[o] \notin Rq)
    BY <1>1, Zenon
  <2>3. /\ \A q \in R : pc[q] \notin ReaderPCs \cup {"wait"} /\ pc'[q] \notin ReaderPCs \cup {"wait"}
        /\ \A q \in Rq \ R : pc'[q] = pc[q] /\ obj'[q] = obj[q]
    BY <1>1, <2>1, Zenon
  <2> QED BY <1>1, <2>2, <2>3, SwapperFrame, Zenon
<1>3. \A r \in Rq : /\ obj[r] \in Obj => data'[obj[r]] = data[obj[r]]
                    /\ old_obj[r] \in Obj => data'[old_obj[r]] = data[old_obj[r]]
  BY HoldersOf, Zenon
<1>4. ASSUME NEW r \in Rq PROVE Served(r)' /\ Noticed(r)'
  <2>1. Served(r) /\ Noticed(r) /\ Placed(r)
    BY ServedIs, Zenon DEF Bodies, Noticed, Places
  <2>2. obj[r] \in Obj \cup {NULL} /\ old_obj[r] \in Obj \cup {NULL}
    BY Zenon DEF Types, RqTypes
  <2>3. pc[r] \in {"serve", "reval", "store", "drop", "notice", "count", "wake"} => obj[r] \in Obj
    BY <2>1, <2>2, ChainedAreObjects, Zenon DEF Placed, Looking
  <2>4. pc[r] = "drop" => old_obj[r] \in Obj
    BY <2>1, <2>2, Zenon DEF Placed
  <2>5. Served(r)' BY <1>1, <1>3, <2>1, <2>2, <2>3, <2>4, Zenon DEF Served
  <2>6. Noticed(r)' BY <1>1, <1>3, <2>1, <2>3, Zenon DEF Noticed
  <2> QED BY <2>5, <2>6, Zenon
<1>5. ServedHasBody' <=> OneSwapper' /\ \A r \in Rq : Served(r)'
  BY Zenon DEF ServedHasBody, Served
<1> QED BY <1>2, <1>4, <1>5, Zenon

\* What is left to show of Bodies then.
LEMMA BodiesFrom ==
  ASSUME \A r \in Rq : Noticed(r)',
         \A o \in Obj : "IN_MEM" \in flags'[o] => InMem(o)',
         \A o \in Obj : InList("mem", o)' => data'[o] = "mem",
         \A o \in Obj : life'[o] = "unused" => data'[o] = NULL,
         \A k \in Killers : killer'[k].at # NULL /\ "IN_MEM" \in window'[k] => InMem(killer[k].at)'
  PROVE  Bodies'
BY Zenon DEF Bodies, Noticed

\* A collector's part: swapout_result(true) takes a body that nobody holds, with
\* its flag, while no killer is at work.
LEMMA SafeCollector ==
  ASSUME Safe, NEW c \in Collectors, FlushBegin(c) \/ Collect(c) \/ CollectorStep(c)
  PROVE  OneReader' /\ ServedHasBody' /\ Bodies'
<1> USE DEF Safe, Known
<1>1. /\ flags \in [Obj -> SUBSET Flags] /\ data \in [Obj -> {NULL, "mem"} \cup Rq]
      /\ life \in [Obj -> {"unused", "live", "freed"}] /\ gc[c] \in Collection
      /\ killer \in [Killers -> Killing]
  BY Zenon DEF Types, ObjTypes, ActorTypes
<1>2. UNCHANGED rqVars /\ window' = window /\ killer' = killer
  BY Zenon DEF CollectorStep, FlushBegin, Collect, SwapoutHead, SwapoutBody, SwapoutTrue,
     SwapoutFalse, FreeObj
<1>3. \A o \in Obj : ObjLockFree(o)' <=> ObjLockFree(o)
  BY <1>2, Zenon DEF ObjLockFree, rqVars
<1>4. \A o \in Obj : life'[o] = "unused" => life[o] = "unused"
  BY EntriesAfter, <1>1, Zenon
<1>5. \A o \in Obj : InList("mem", o)' => InList("mem", o)
  BY CollectorChain, Zenon
<1>6. ASSUME data' = data, \A o \in Obj : "IN_MEM" \in flags'[o] => "IN_MEM" \in flags[o]
      PROVE  OneReader' /\ ServedHasBody' /\ Bodies'
  <2>1. OneReader' /\ ServedHasBody' /\ \A r \in Rq : Noticed(r)'
    BY <1>2, <1>6, ReadersOther, Zenon
  <2>2. \A o \in Obj : InMem(o) => InMem(o)'
    BY <1>3, <1>6, Zenon DEF InMem
  <2>3. \A k \in Killers : killer[k].at # NULL => killer[k].at \in Obj
    BY <1>1, Zenon DEF Killing
  <2>4. ASSUME NEW k \in Killers, killer'[k].at # NULL, "IN_MEM" \in window'[k]
        PROVE  InMem(killer[k].at)'
    <3>1. InMem(killer[k].at) BY <1>2, <2>4, Zenon DEF Bodies
    <3> QED BY <1>2, <1>6, <3>1, Zenon DEF InMem, ObjLockFree, rqVars
  <2> QED BY <1>4, <1>5, <1>6, <2>1, <2>2, <2>4, BodiesFrom, Zenon DEF Bodies
<1>7. CASE SwapoutTrue(c) /\ Demotable(c)
  <2>1. gc[c].pc # "idle" /\ gc[c].list = "mem" /\ CacheLockFree /\ HashLockFree
    BY <1>7, ZenonT(30) DEF SwapoutTrue, Passes, Passing
  <2>2. At(c) \in Obj /\ At(c) \in Chained /\ Holders(At(c)) = {} /\ data[At(c)] = "mem"
    BY <1>7, <2>1, DemotableFacts, Zenon DEF Demotable, Bodies
  <2>3. life[At(c)] # "unused" BY <2>2, HeldFacts, Zenon
  <2>4. PICK x \in Obj : x = At(c) BY <2>2, Zenon
  <2>5. /\ data'[x] = NULL /\ "IN_MEM" \notin flags'[x]
        /\ \A o \in Obj : o # x => data'[o] = data[o] /\ flags'[o] = flags[o]
    BY <1>1, <1>7, <2>4 DEF SwapoutTrue
  <2>6. \A o \in Obj : InList("mem", o)' => o # x
    <3>1. x \notin Range(objList'["mem"])
      BY <1>7, <2>4, CollectorChain, Zenon
    <3> QED BY <3>1, Zenon DEF InList
  <2>7. OneReader' /\ ServedHasBody' /\ \A r \in Rq : Noticed(r)'
    BY <1>2, <2>2, <2>4, <2>5, ReadersOther, Zenon
  <2>8. \A k \in Killers : killer[k].at = NULL
    <3> SUFFICES ASSUME NEW k \in Killers PROVE killer[k].at = NULL
      OBVIOUS
    <3>1. killer[k].lock \in {"idle", "done"}
      BY <1>1, <2>1, Zenon DEF CacheLockFree, HashLockFree, Killing
    <3> QED BY <3>1, Zenon DEF Killings
  <2>9. \A o \in Obj : "IN_MEM" \in flags'[o] => InMem(o)'
    BY <1>3, <2>5, Zenon DEF Bodies, InMem
  <2>10. \A o \in Obj : InList("mem", o)' => data'[o] = "mem"
    BY <1>5, <2>5, <2>6, Zenon DEF Bodies
  <2>11. \A o \in Obj : life'[o] = "unused" => data'[o] = NULL
    BY <1>4, <2>5, ZenonT(30) DEF Bodies
  <2> QED BY <1>2, <2>7, <2>8, <2>9, <2>10, <2>11, BodiesFrom, ZenonT(30)
<1>8. CASE SwapoutTrue(c) /\ ~Demotable(c)
  BY <1>1, <1>6, <1>8, SMTT(30) DEF SwapoutTrue
<1>9. CASE ~SwapoutTrue(c)
  <2>1. data' = data /\ flags' = flags
    BY <1>9, Zenon DEF CollectorStep, FlushBegin, Collect, SwapoutHead, SwapoutBody,
       SwapoutFalse, FreeObj, objVars
  <2> QED BY <1>6, <2>1, Zenon
<1> QED BY <1>7, <1>8, <1>9, Zenon

\* A killer writes back what it read: the flag it read is the flag of a body that
\* stays while the killer holds its lock.
LEMMA SafeKiller ==
  ASSUME Safe, NEW k \in Killers, Purge(k) \/ CleanCache(k) \/ KillerStep(k)
  PROVE  OneReader' /\ ServedHasBody' /\ Bodies'
<1> USE DEF Safe, Known
<1>1. /\ flags \in [Obj -> SUBSET Flags] /\ killer \in [Killers -> Killing]
      /\ window \in [Rq \cup Killers -> SUBSET Flags] /\ k \notin Rq /\ NULL \notin Obj
  BY Zenon DEF Types, ObjTypes, ActorTypes, CacheAssumption
<1>2. UNCHANGED rqVars /\ data' = data /\ life' = life
  BY Zenon DEF KillerStep, Purge, CleanCache, DeadRead, DeadWrite, objVars
<1>3. \A o \in Obj : InMem(o)' <=> InMem(o)
  BY <1>2, Zenon DEF InMem, ObjLockFree, rqVars
<1>4. \A d \in Rq \cup Killers : d # k => window'[d] = window[d]
  BY <1>1, Zenon DEF KillerStep, Purge, CleanCache, DeadRead, DeadWrite
<1>5. OneReader' /\ ServedHasBody' /\ \A r \in Rq : Noticed(r)'
  BY <1>1, <1>2, <1>4, ReadersOther, Zenon
<1>6. \A j \in Killers : j # k => killer'[j] = killer[j]
  BY <1>1, Zenon DEF KillerStep, Purge, CleanCache, DeadRead, DeadWrite
<1>7. ASSUME NEW j \in Killers, killer[j].at # NULL, "IN_MEM" \in window[j]
      PROVE  \E o \in Obj : o = killer[j].at /\ InMem(o)
  BY <1>1, <1>7 DEF Bodies, Killing
<1>8. \A o \in Obj : InList("mem", o)' => data'[o] = "mem"
  BY <1>2, KillerChain, Zenon DEF Bodies
<1>9. \A o \in Obj : life'[o] = "unused" => data'[o] = NULL
  BY <1>2, Zenon DEF Bodies
<1>10. \A o \in Obj : "IN_MEM" \in flags'[o] => InMem(o)'
  <2>1. CASE flags' = flags
    BY <1>3, <2>1, Zenon DEF Bodies
  <2>2. CASE DeadWrite(k)
    <3>1. killer[k].at # NULL /\ flags' = [flags EXCEPT ![killer[k].at] = window[k] \cup {"DEAD"}]
      BY <2>2, Zenon DEF DeadWrite
    <3>2. PICK x \in Obj : x = killer[k].at BY <1>1, <3>1, Zenon DEF Killing
    <3>3. /\ "IN_MEM" \in flags'[x] => "IN_MEM" \in window[k]
          /\ \A o \in Obj : o # x => flags'[o] = flags[o]
      BY <1>1, <3>1, <3>2, Zenon
    <3>4. "IN_MEM" \in window[k] => InMem(x)
      BY <1>7, <3>1, <3>2, Zenon
    <3> QED BY <1>3, <3>3, <3>4, Zenon DEF Bodies
  <2> QED BY <2>1, <2>2, Zenon DEF KillerStep, Purge, CleanCache, DeadRead, objVars
<1>11. ASSUME NEW j \in Killers, killer'[j].at # NULL, "IN_MEM" \in window'[j]
       PROVE  InMem(killer[j].at)'
  <2>1. \E o \in Obj : o = killer'[j].at /\ InMem(o)
    <3>1. CASE j # k
      <4>1. killer'[j] = killer[j] /\ window'[j] = window[j] BY <1>4, <1>6, <3>1, Zenon
      <4> QED BY <1>7, <1>11, <4>1, Zenon
    <3>2. CASE j = k /\ DeadRead(k)
      <4>1. PICK o \in killer[k].todo : /\ killer' = [killer EXCEPT ![k].at = o]
                                        /\ window' = [window EXCEPT ![k] = flags[o]]
        BY <3>2, Zenon DEF DeadRead
      <4>2. o \in Obj /\ killer'[k].at = o /\ window'[k] = flags[o]
        BY <1>1, <4>1, ZenonT(30) DEF Killing
      <4>3. InMem(o) BY <1>11, <3>2, <4>2, ZenonT(30) DEF Bodies
      <4> QED BY <3>2, <4>2, <4>3, Zenon
    <3>3. CASE j = k /\ ~DeadRead(k)
      BY <1>1, <1>11, <3>3 DEF KillerStep, Purge, CleanCache, DeadWrite
    <3> QED BY <3>1, <3>2, <3>3, Zenon
  <2>2. PICK o \in Obj : o = killer'[j].at /\ InMem(o) BY <2>1, Zenon
  <2>3. data[o] = "mem" /\ ObjLockFree(o) BY <2>2, Zenon DEF InMem
  <2> QED BY <1>2, <2>2, <2>3, Zenon DEF InMem, ObjLockFree, rqVars
<1> QED BY <1>5, <1>8, <1>9, <1>10, <1>11, BodiesFrom, Zenon

\* An object that enters from the index of the disk has no body.
LEMMA SafeLoad ==
  ASSUME Safe, NEW o \in Obj, LoadIndex(o)
  PROVE  OneReader' /\ ServedHasBody' /\ Bodies'
<1> USE DEF Safe, Known
<1>1. flags \in [Obj -> SUBSET Flags] /\ life \in [Obj -> {"unused", "live", "freed"}]
  BY DEF Types, ObjTypes
<1>2. UNCHANGED rqVars /\ data' = data /\ window' = window /\ killer' = killer
  BY Zenon DEF LoadIndex
<1>3. \A x \in Obj : InMem(x)' <=> InMem(x)
  BY <1>2, Zenon DEF InMem, ObjLockFree, rqVars
<1>4. OneReader' /\ ServedHasBody' /\ \A r \in Rq : Noticed(r)'
  BY <1>2, ReadersOther, Zenon
<1>5. /\ \A x \in Obj : "IN_MEM" \in flags'[x] => "IN_MEM" \in flags[x]
      /\ \A x \in Obj : life'[x] = "unused" => life[x] = "unused"
  BY <1>1, Zenon DEF LoadIndex, CacheAdd
<1>6. \A x \in Obj : InList("mem", x)' => InList("mem", x)
  BY LoadChain, Zenon
<1>7. ASSUME NEW k \in Killers, killer'[k].at # NULL, "IN_MEM" \in window'[k]
      PROVE  InMem(killer[k].at)'
  <2>1. InMem(killer[k].at) BY <1>2, <1>7, ZenonT(30) DEF Bodies
  <2> QED BY <1>2, <2>1, Zenon DEF InMem, ObjLockFree, rqVars
<1> QED BY <1>2, <1>3, <1>4, <1>5, <1>6, <1>7, BodiesFrom, Zenon DEF Bodies

\* An object a collector deals with is one.
LEMMA AtObject ==
  ASSUME Known, NEW c \in Collectors, gc[c].pc # "idle"
  PROVE  /\ At(c) \in Obj /\ life[At(c)] # "unused"
         /\ At(c) \in Chained \/ Holders(At(c)) = {}
<1>1. Passing(c) /\ gc[c] \in Collection
  BY DEF Known, Passes, Types, ActorTypes
<1>2. Len(gc[c].todo) > 0
  BY <1>1, Zenon DEF Passing
<1>3. 1 \in 1..Len(gc[c].todo) /\ gc[c].todo[1] \in Picked
  BY <1>1, <1>2 DEF Collection
<1> QED BY <1>1, <1>3, Zenon DEF Passing, At, Picked

-----------------------------------------------------------------------------
(* Bodies on disk *)

\* What is marked as being on disk is there, and no window forgets the mark.
Filed ==
  /\ \A o \in Chained : "IN_DISK" \in flags[o] => o \in file \cup lost
  /\ \A c \in Collectors :
       gc[c].pc = "moved" /\ At(c) \in Chained => At(c) \in file \cup lost
  /\ \A k \in Killers :
       killer[k].at # NULL => ("IN_DISK" \in window[k] <=> "IN_DISK" \in flags[killer[k].at])
  /\ \A r \in Rq :
       pc[r] = "notice" => ("IN_DISK" \in window[r] <=> "IN_DISK" \in flags[obj[r]])

Stored == file \cup lost

\* What a step has to keep for Filed and DroppedHasFile to last.
LEMMA FiledFrame ==
  ASSUME Safe, Filed, DroppedHasFile,
         \A o \in Chained : o \in Stored => o \in Stored',
         \A o \in Chained' : o \in Chained \/ o \in Stored'
                             \/ ("IN_DISK" \notin flags'[o] /\ data'[o] = "mem"),
         \A o \in Chained : \/ "IN_DISK" \in flags'[o] <=> "IN_DISK" \in flags[o]
                            \/ o \in Stored /\ ObjLockFree(o) /\ CacheLockFree /\ HashLockFree,
         \A o \in Chained : data'[o] # "mem" => data[o] # "mem" \/ o \in Stored,
         \A c \in Collectors : gc'[c].pc = "moved" /\ At(c)' \in Chained' =>
           \/ gc[c].pc = "moved" /\ At(c)' = At(c) /\ At(c) \in Chained
           \/ At(c)' \in Stored',
         \A k \in Killers : killer'[k].at # NULL =>
           \/ killer'[k].at = killer[k].at /\ window'[k] = window[k]
           \/ window'[k] = flags[killer'[k].at] /\ flags' = flags,
         \A r \in Rq : pc'[r] = "notice" =>
           \/ pc[r] = "notice" /\ obj'[r] = obj[r] /\ window'[r] = window[r]
           \/ window'[r] = flags[obj'[r]] /\ flags' = flags
  PROVE  Filed' /\ DroppedHasFile'
<1> USE DEF Safe, Known
<1>1. DroppedHasFile'
  <2>1. \A o \in Chained : data[o] # "mem" => o \in Stored
    BY Zenon DEF DroppedHasFile, Stored, Chained
  <2>2. \A o \in Chained' : data'[o] # "mem" => o \in Stored'
    BY <2>1, Zenon
  <2> QED BY <2>2, Zenon DEF DroppedHasFile, Stored, Chained
<1>2. \A o \in Chained' : "IN_DISK" \in flags'[o] => o \in Stored'
  <2>1. \A o \in Chained : "IN_DISK" \in flags[o] => o \in Stored
    BY Zenon DEF Filed, Stored
  <2> QED BY <2>1, Zenon
<1>3. ASSUME NEW c \in Collectors, gc'[c].pc = "moved", At(c)' \in Chained'
      PROVE  At(c)' \in Stored'
  <2>1. CASE gc[c].pc = "moved" /\ At(c)' = At(c) /\ At(c) \in Chained
    <3>1. At(c) \in Stored BY <2>1, Zenon DEF Filed, Stored
    <3> QED BY <2>1, <3>1, Zenon
  <2> QED BY <1>3, <2>1, Zenon
<1>4. ASSUME NEW k \in Killers, killer'[k].at # NULL
      PROVE  "IN_DISK" \in window'[k] <=> "IN_DISK" \in flags'[killer'[k].at]
  <2>1. CASE killer'[k].at = killer[k].at /\ window'[k] = window[k]
    <3>1. killer[k].at \in killer[k].todo /\ killer[k].at \in Chained
      BY <1>4, <2>1, Zenon DEF Killings
    <3>2. killer[k].lock \notin {"idle", "done"}
      BY <3>1, Zenon DEF Killings
    <3>3. ~(CacheLockFree /\ HashLockFree)
      BY <3>2, Zenon DEF CacheLockFree, HashLockFree, Types, ActorTypes, Killing
    <3>4. "IN_DISK" \in window[k] <=> "IN_DISK" \in flags[killer[k].at]
      BY <1>4, <2>1, Zenon DEF Filed
    <3>5. PICK o \in Chained : o = killer[k].at BY <3>1, Zenon
    <3> QED BY <2>1, <3>3, <3>4, <3>5, Zenon
  <2> QED BY <1>4, <2>1, Zenon
<1>5. ASSUME NEW r \in Rq, pc'[r] = "notice"
      PROVE  "IN_DISK" \in window'[r] <=> "IN_DISK" \in flags'[obj'[r]]
  <2>1. CASE pc[r] = "notice" /\ obj'[r] = obj[r] /\ window'[r] = window[r]
    <3>1. obj[r] \in Chained BY <2>1, Zenon DEF Places, Placed, Looking
    <3>2. PICK o \in Chained : o = obj[r] BY <3>1, Zenon
    <3>3. ~ObjLockFree(o) BY <2>1, <3>2, Zenon DEF ObjLockFree
    <3>4. "IN_DISK" \in window[r] <=> "IN_DISK" \in flags[o]
      BY <2>1, <3>2, Zenon DEF Filed
    <3> QED BY <2>1, <3>2, <3>3, <3>4, ZenonT(30)
  <2> QED BY <1>5, <2>1, Zenon
<1> QED BY <1>1, <1>2, <1>3, <1>4, <1>5, Zenon DEF Filed, Stored

\* A request does not touch the mark of an object in the chain.
LEMMA MarksRequest ==
  ASSUME Safe, Filed, NEW r \in Rq, RequestStep(r)
  PROVE  \A o \in Chained : "IN_DISK" \in flags'[o] <=> "IN_DISK" \in flags[o]
<1> USE DEF Safe, Known
<1>0. /\ flags \in [Obj -> SUBSET Flags] /\ NULL \notin Obj /\ Chained \subseteq Obj
      /\ Placed(r)
  BY ChainedAreObjects, Zenon DEF Types, ObjTypes, CacheAssumption, Places
<1>1. CASE Miss(r) \/ Expired(r)
  <2>1. ASSUME NEW x \in Obj, Allocated(x), NEW o \in Chained PROVE flags'[o] = flags[o]
    <3>1. o # x BY <1>0, <2>1, HeldFacts, Zenon DEF Allocated
    <3> QED BY <1>0, <2>1, <3>1, Zenon DEF Allocated
  <2> QED BY <1>1, <2>1, Zenon DEF Miss, Expired
<1>2. CASE Notice(r)
  <2>1. pc[r] = "notice" /\ obj[r] \in Obj
    BY <1>0, <1>2, Zenon DEF Notice, Placed, Looking
  <2>2. "IN_DISK" \in window[r] <=> "IN_DISK" \in flags[obj[r]]
    BY <2>1, Zenon DEF Filed
  <2> QED BY <1>0, <1>2, <2>1, <2>2, Zenon DEF Notice
<1>3. CASE StoreNew(r)
  <2>1. obj[r] \notin Chained BY <1>3, RequestChain, Zenon
  <2>2. PICK bits : flags' = [flags EXCEPT ![obj[r]] = bits]
    BY <1>3, Zenon DEF StoreNew, CacheAdd
  <2> QED BY <1>0, <2>1, <2>2, Zenon
<1>4. CASE DeadOldObj(r) \/ StoreDead(r)
  <2>1. flags' = [flags EXCEPT ![old_obj[r]] = @ \cup {"DEAD"}]
    BY <1>4, Zenon DEF DeadOldObj, StoreDead, CacheDead
  <2> QED BY <1>0, <2>1, Zenon
<1>5. CASE ~(Miss(r) \/ Expired(r) \/ Notice(r) \/ StoreNew(r) \/ DeadOldObj(r) \/ StoreDead(r))
  <2>1. flags' = flags
    BY <1>5, ZenonT(30) DEF RequestStep, Find, Check, SwapInObject, SwapIn, NoticeCount, NoticeWake,
       Failed, Fresh, NotModified, KeepBoth, DropOldObj, StoreRate, StoreSkip, Release, objVars
  <2> QED BY <2>1, Zenon
<1> QED BY <1>1, <1>2, <1>3, <1>4, <1>5, Zenon

\* A request touches neither file nor mark of an object in the chain.
LEMMA FiledRequest ==
  ASSUME Safe, Filed, DroppedHasFile, NEW r \in Rq, RequestStep(r)
  PROVE  Filed' /\ DroppedHasFile'
<1> USE DEF Safe, Known
<1>1. /\ flags \in [Obj -> SUBSET Flags] /\ window \in [Rq \cup Killers -> SUBSET Flags]
      /\ pc \in [Rq -> RqPCs] /\ obj \in [Rq -> Obj \cup {NULL}] /\ Rq \cap Killers = {}
      /\ old_obj \in [Rq -> Obj \cup {NULL}] /\ NULL \notin Obj /\ Chained \subseteq Obj
      /\ Placed(r)
  BY ChainedAreObjects, Zenon DEF Types, ObjTypes, RqTypes, ActorTypes, CacheAssumption, Places
<1>2. \A o \in Chained : o \in Stored => o \in Stored'
  <2>1. ASSUME NEW x \in Obj, x \in {obj[r], old_obj[r]}, Unref(x), lost' = lost
        PROVE  \A o \in Chained : o \in Stored => o \in Stored'
    <3>1. Holders(x) # {} BY <2>1, HoldersOf, Zenon
    <3>2. refs[x] = 1 => x \notin Chained BY <3>1, HeldFacts, Zenon
    <3> QED BY <2>1, <3>2, Zenon DEF Unref, Stored
  <2>2. CASE Failed(r)
    <3>1. obj[r] \in Obj /\ Unref(obj[r]) /\ lost' = lost
      BY <1>1, <2>2, Zenon DEF Failed, Placed, Looking
    <3> QED BY <2>1, <3>1, Zenon
  <2>3. CASE NotModified(r)
    <3>1. obj[r] \in Obj /\ Unref(obj[r]) /\ lost' = lost
      BY <1>1, <2>3, Zenon DEF NotModified, Placed
    <3> QED BY <2>1, <3>1, Zenon
  <2>4. CASE DropOldObj(r)
    <3>1. old_obj[r] \in Obj /\ Unref(old_obj[r]) /\ lost' = lost
      BY <1>1, <2>4, Zenon DEF DropOldObj, Placed
    <3> QED BY <2>1, <3>1, Zenon
  <2>5. CASE Release(r)
    <3>1. CASE obj[r] # NULL
      <4>1. obj[r] \in Obj /\ Unref(obj[r]) /\ lost' = lost
        BY <1>1, <2>5, <3>1, Zenon DEF Release
      <4> QED BY <2>1, <4>1, Zenon
    <3>2. CASE obj[r] = NULL
      <4>1. old_obj[r] \in Obj /\ Unref(old_obj[r]) /\ lost' = lost
        BY <1>1, <2>5, <3>2, Zenon DEF Release, Placed
      <4> QED BY <2>1, <4>1, Zenon
    <3> QED BY <3>1, <3>2, Zenon
  <2>6. CASE StoreNew(r)
    BY <2>6, Zenon DEF StoreNew, CacheAdd, Stored
  <2>7. CASE ~(Failed(r) \/ NotModified(r) \/ DropOldObj(r) \/ Release(r) \/ StoreNew(r))
    <3>1. UNCHANGED diskVars
      BY <2>7, ZenonT(30) DEF RequestStep, Find, Miss, Check, SwapInObject, SwapIn, Notice,
         NoticeCount, NoticeWake, Fresh, Expired, KeepBoth, DeadOldObj, StoreRate, StoreDead,
         StoreSkip
    <3> QED BY <3>1, Zenon DEF diskVars, Stored
  <2> QED BY <2>2, <2>3, <2>4, <2>5, <2>6, <2>7, Zenon
<1>3. \A o \in Chained : "IN_DISK" \in flags'[o] <=> "IN_DISK" \in flags[o]
  BY MarksRequest, Zenon
<1>4. \A o \in Chained : data'[o] # "mem" => data[o] # "mem"
  BY <1>1, DataRequest, Zenon
<1>5. \A o \in Chained' : o \in Chained \/ o \in Stored'
                          \/ ("IN_DISK" \notin flags'[o] /\ data'[o] = "mem")
  <2>1. CASE StoreNew(r)
    <3>1. obj[r] \in Obj /\ Chained' = Chained \cup {obj[r]} BY <2>1, RequestChain, Zenon
    <3>2. pc[r] = "store" /\ data' = data BY <2>1, Zenon DEF StoreNew
    <3>3. data'[obj[r]] = "mem" BY <3>2, Zenon DEF ServedHasBody
    <3>4. "IN_DISK" \in flags'[obj[r]] => obj[r] \in Stored'
      BY <1>1, <2>1, <3>1, Zenon DEF StoreNew, CacheAdd, Stored
    <3> QED BY <3>1, <3>3, <3>4, Zenon
  <2>2. CASE ~StoreNew(r)
    BY <2>2, RequestChain, Zenon
  <2> QED BY <2>1, <2>2, Zenon
<1>6. gc' = gc /\ killer' = killer
  BY ZenonT(30) DEF RequestStep, Find, Miss, Check, SwapInObject, SwapIn, Notice, NoticeCount,
     NoticeWake, Failed, Fresh, Expired, NotModified, KeepBoth, DeadOldObj, DropOldObj,
     StoreRate, StoreDead, StoreNew, StoreSkip, Release
<1>7. ASSUME NEW c \in Collectors, gc'[c].pc = "moved", At(c)' \in Chained'
      PROVE  gc[c].pc = "moved" /\ At(c)' = At(c) /\ At(c) \in Chained
  <2>1. gc[c].pc = "moved" /\ At(c)' = At(c) /\ Passing(c)
    BY <1>6, <1>7, ZenonT(30) DEF At, Passes
  <2>2. Len(gc[c].todo) > 0 /\ gc[c] \in Collection
    BY <2>1, Zenon DEF Passing, Types, ActorTypes
  <2>3. 1 \in 1..Len(gc[c].todo) /\ gc[c].todo[1] \in Picked BY <2>2 DEF Collection
  <2>4. At(c) \in Obj BY <2>3, Zenon DEF Picked, At
  <2>5. life[At(c)] # "unused" /\ (At(c) \in Chained \/ Holders(At(c)) = {})
    BY <2>1, <2>3, Zenon DEF Passing, At
  <2>6. PICK x \in Obj : x = At(c) BY <2>4, Zenon
  <2>7. x \notin Chained => x \notin Chained'
    BY <2>5, <2>6, GoneForGood, ZenonT(30)
  <2> QED BY <1>7, <2>1, <2>6, <2>7, Zenon
<1>8. \A a \in Rq \cup Killers : a # r => window'[a] = window[a]
  <2>1. CASE ~Reading(r) BY <2>1, PlainRequest, ZenonT(30)
  <2>2. CASE Reading(r)
    BY <1>1, <2>2, Zenon DEF Reading, SwapInObject, SwapIn, Notice, NoticeCount, NoticeWake
  <2> QED BY <2>1, <2>2, Zenon
<1>9. \A k \in Killers : killer'[k].at = killer[k].at /\ window'[k] = window[k]
  BY <1>1, <1>6, <1>8, Zenon
<1>10. ASSUME NEW q \in Rq, pc'[q] = "notice"
       PROVE  \/ pc[q] = "notice" /\ obj'[q] = obj[q] /\ window'[q] = window[q]
              \/ window'[q] = flags[obj'[q]] /\ flags' = flags
  <2>1. CASE SwapIn(r) /\ q = r
    BY <1>1, <2>1, Zenon DEF SwapIn
  <2>2. CASE NoticeWake(r)
    <3>1. pc[q] = "notice" BY <1>1, <1>10, <2>2, Zenon DEF NoticeWake
    <3> QED BY <2>2, <3>1, Zenon DEF NoticeWake
  <2>3. CASE q # r /\ ~NoticeWake(r)
    <3>1. pc[q] = "notice" /\ obj'[q] = obj[q]
      BY <1>10, <2>3, OthersKeep, Zenon
    <3> QED BY <1>8, <2>3, <3>1, Zenon
  <2>4. CASE q = r /\ ~SwapIn(r) /\ ~NoticeWake(r)
    <3>1. CASE Reading(r)
      BY <1>1, <1>10, <2>4, <3>1, ZenonT(30) DEF Reading, SwapInObject, Notice, NoticeCount, Goto
    <3>2. CASE ~Reading(r)
      BY <1>10, <2>4, <3>2, PlainRequest, Zenon DEF ReaderPCs
    <3> QED BY <3>1, <3>2, Zenon
  <2> QED BY <2>1, <2>2, <2>3, <2>4, Zenon
<1> QED BY <1>2, <1>3, <1>4, <1>5, <1>7, <1>9, <1>10, FiledFrame, Zenon

LEMMA FiledCollector ==
  ASSUME Safe, Filed, DroppedHasFile, NEW c \in Collectors,
         FlushBegin(c) \/ Collect(c) \/ CollectorStep(c)
  PROVE  Filed' /\ DroppedHasFile'
<1> USE DEF Safe, Known
<1>1. /\ flags \in [Obj -> SUBSET Flags] /\ data \in [Obj -> {NULL, "mem"} \cup Rq]
      /\ gc \in [Collectors -> Collection] /\ gc[c] \in Collection /\ Chained \subseteq Obj
  BY ChainedAreObjects, Zenon DEF Types, ObjTypes, ActorTypes
<1>2. UNCHANGED rqVars /\ window' = window /\ killer' = killer
  BY Zenon DEF CollectorStep, FlushBegin, Collect, SwapoutHead, SwapoutBody, SwapoutTrue,
     SwapoutFalse, FreeObj
<1>3. Chained' \subseteq Chained
  BY EntriesAfter, Zenon
<1>4. \A o \in Chained : o \in Stored => o \in Stored'
  <2>1. CASE FreeObj(c)
    <3>1. At(c) \notin Chained BY <2>1, Zenon DEF FreeObj, Passes, Passing
    <3> QED BY <2>1, <3>1, Zenon DEF FreeObj, Unref, Stored
  <2>2. CASE SwapoutHead(c) \/ SwapoutBody(c)
    BY <2>2, Zenon DEF SwapoutHead, SwapoutBody, Written, Stored, diskVars
  <2>3. CASE ~(FreeObj(c) \/ SwapoutHead(c) \/ SwapoutBody(c))
    BY <2>3, ZenonT(30) DEF CollectorStep, FlushBegin, Collect, SwapoutTrue, SwapoutFalse, diskVars, Stored
  <2> QED BY <2>1, <2>2, <2>3, Zenon
<1>5. ASSUME NEW d \in Collectors, gc'[d].pc = "moved", At(d)' \in Chained'
      PROVE  \/ gc[d].pc = "moved" /\ At(d)' = At(d) /\ At(d) \in Chained
             \/ At(d)' \in Stored'
  <2>1. ASSUME gc'[d] = gc[d] PROVE gc[d].pc = "moved" /\ At(d)' = At(d) /\ At(d) \in Chained
    BY <1>3, <1>5, <2>1, Zenon DEF At
  <2>2. CASE d # c
    <3>1. gc'[d] = gc[d]
      BY <1>1, <2>2, ZenonT(30) DEF CollectorStep, FlushBegin, Collect, SwapoutHead, SwapoutBody, SwapoutTrue,
         SwapoutFalse, FreeObj, NextPick
    <3> QED BY <2>1, <3>1, Zenon
  <2>3. CASE d = c
    <3>1. CASE SwapoutHead(c) \/ SwapoutBody(c)
      <4>1. gc' = [gc EXCEPT ![c].pc = "moved"]
        BY <1>1, <1>5, <2>3, <3>1, ZenonT(30) DEF SwapoutHead, SwapoutBody, Collection
      <4>2. gc'[c].todo = gc[c].todo BY <1>1, <4>1, Zenon DEF Collection
      <4>3. At(c)' = At(c) BY <4>2, Zenon DEF At
      <4>4. CASE SwapoutHead(c)
        <5>1. "IN_DISK" \in flags[At(c)] BY <4>4, Zenon DEF SwapoutHead
        <5>2. At(c) \in Stored BY <1>3, <1>5, <2>3, <4>3, <5>1, Zenon DEF Filed, Stored
        <5> QED BY <1>3, <1>4, <1>5, <2>3, <4>3, <5>2, Zenon
      <4>5. CASE SwapoutBody(c)
        <5>1. At(c) \in file'
          BY <1>1, <1>5, <2>3, <4>5, SMTT(30) DEF SwapoutBody, Written, Collection
        <5> QED BY <2>3, <4>3, <5>1, Zenon DEF Stored
      <4> QED BY <3>1, <4>4, <4>5, Zenon
    <3>2. CASE FlushBegin(c)
      BY <2>1, <2>3, <3>2, Zenon DEF FlushBegin
    <3>3. CASE ~(SwapoutHead(c) \/ SwapoutBody(c) \/ FlushBegin(c))
      <4>1. gc'[c].pc # "moved"
        BY <1>1, <3>3, SMTT(30) DEF CollectorStep, Collect, SwapoutTrue, SwapoutFalse, FreeObj, NextPick, Collection
      <4> QED BY <1>5, <2>3, <4>1, ZenonT(30)
    <3> QED BY <3>1, <3>2, <3>3, Zenon
  <2> QED BY <2>2, <2>3, Zenon
<1>6. CASE SwapoutTrue(c)
  <2>1. gc[c].pc = "moved" /\ CacheLockFree /\ HashLockFree /\ ObjLockFree(At(c))
    BY <1>6, ZenonT(30) DEF SwapoutTrue
  <2>2. At(c) \in Obj BY <2>1, AtObject, Zenon
  <2>3. PICK x \in Obj : x = At(c) BY <2>2, Zenon
  <2>4. x \in Chained => x \in Stored
    BY <2>1, <2>3, Zenon DEF Filed, Stored
  <2>5. \A o \in Obj : o # x => flags'[o] = flags[o] /\ data'[o] = data[o]
    BY <1>1, <1>6, <2>3, Zenon DEF SwapoutTrue
  <2>6. \A o \in Chained : \/ "IN_DISK" \in flags'[o] <=> "IN_DISK" \in flags[o]
                           \/ o \in Stored /\ ObjLockFree(o) /\ CacheLockFree /\ HashLockFree
    BY <1>1, <2>1, <2>3, <2>4, <2>5, Zenon
  <2>7. \A o \in Chained : data'[o] # "mem" => data[o] # "mem" \/ o \in Stored
    BY <1>1, <2>4, <2>5, Zenon
  <2> QED BY <1>2, <1>3, <1>4, <1>5, <2>6, <2>7, FiledFrame, Zenon DEF rqVars
<1>7. CASE ~SwapoutTrue(c)
  <2>1. data' = data /\ flags' = flags
    BY <1>7, Zenon DEF CollectorStep, FlushBegin, Collect, SwapoutHead, SwapoutBody,
       SwapoutFalse, FreeObj, objVars
  <2> QED BY <1>2, <1>3, <1>4, <1>5, <2>1, FiledFrame, Zenon DEF rqVars
<1> QED BY <1>6, <1>7, Zenon

LEMMA FiledKiller ==
  ASSUME Safe, Filed, DroppedHasFile, NEW k \in Killers, Purge(k) \/ CleanCache(k) \/ KillerStep(k)
  PROVE  Filed' /\ DroppedHasFile'
<1> USE DEF Safe, Known
<1>1. /\ flags \in [Obj -> SUBSET Flags] /\ killer \in [Killers -> Killing]
      /\ window \in [Rq \cup Killers -> SUBSET Flags] /\ k \notin Rq /\ NULL \notin Obj
      /\ Chained \subseteq Obj
  BY ChainedAreObjects, Zenon DEF Types, ObjTypes, ActorTypes, CacheAssumption
<1>2. UNCHANGED <<rqVars, diskVars, gc>> /\ data' = data /\ Chained' = Chained
  <2>1. UNCHANGED <<rqVars, diskVars, gc>> /\ data' = data
    BY Zenon DEF KillerStep, Purge, CleanCache, DeadRead, DeadWrite, objVars
  <2> QED BY <2>1, KillerChain, Zenon
<1>3. \A d \in Rq \cup Killers : d # k => window'[d] = window[d]
  BY <1>1, Zenon DEF KillerStep, Purge, CleanCache, DeadRead, DeadWrite
<1>4. \A r \in Rq : window'[r] = window[r] BY <1>1, <1>3, Zenon
<1>5. \A o \in Chained : "IN_DISK" \in flags'[o] <=> "IN_DISK" \in flags[o]
  <2>1. CASE DeadWrite(k)
    <3>1. killer[k].at # NULL /\ flags' = [flags EXCEPT ![killer[k].at] = window[k] \cup {"DEAD"}]
      BY <2>1, Zenon DEF DeadWrite
    <3>2. "IN_DISK" \in window[k] <=> "IN_DISK" \in flags[killer[k].at]
      BY <3>1, Zenon DEF Filed
    <3> QED BY <1>1, <3>1, <3>2, Zenon
  <2>2. CASE ~DeadWrite(k)
    BY <2>2, ZenonT(30) DEF KillerStep, Purge, CleanCache, DeadRead, objVars
  <2> QED BY <2>1, <2>2, Zenon
<1>6. ASSUME NEW j \in Killers, killer'[j].at # NULL
      PROVE  \/ killer'[j].at = killer[j].at /\ window'[j] = window[j]
             \/ window'[j] = flags[killer'[j].at] /\ flags' = flags
  <2>1. CASE j # k
    <3>1. killer'[j] = killer[j]
      BY <1>1, <2>1, Zenon DEF KillerStep, Purge, CleanCache, DeadRead, DeadWrite
    <3> QED BY <1>3, <2>1, <3>1, Zenon
  <2>2. CASE j = k /\ DeadRead(k)
    BY <1>1, <2>2, SMTT(30) DEF DeadRead, Killing, objVars
  <2>3. CASE j = k /\ ~DeadRead(k)
    BY <1>1, <1>6, <2>3, SMTT(30) DEF KillerStep, Purge, CleanCache, DeadWrite
  <2> QED BY <2>1, <2>2, <2>3, ZenonT(30)
<1> QED BY <1>2, <1>4, <1>5, <1>6, FiledFrame, Zenon DEF rqVars, diskVars, Stored, At

LEMMA FiledLoad ==
  ASSUME Safe, Filed, DroppedHasFile, NEW o \in Obj, LoadIndex(o)
  PROVE  Filed' /\ DroppedHasFile'
<1> USE DEF Safe, Known
<1>1. flags \in [Obj -> SUBSET Flags] /\ Chained \subseteq Obj
  BY ChainedAreObjects, Zenon DEF Types, ObjTypes
<1>2. UNCHANGED <<rqVars, gc, window, killer, data, lost>>
  BY Zenon DEF LoadIndex
<1>3. Chained' = Chained \cup {o} /\ o \notin Chained
  BY LoadChain, Zenon
<1>4. file' = file \cup {o} /\ \A x \in Obj : x # o => flags'[x] = flags[x]
  BY <1>1, Zenon DEF LoadIndex, CacheAdd
<1>5. /\ \A x \in Chained : x \in Stored => x \in Stored'
      /\ \A x \in Chained' : x \in Chained \/ x \in Stored'
      /\ \A x \in Chained : flags'[x] = flags[x]
  BY <1>1, <1>2, <1>3, <1>4, Zenon DEF Stored
<1>6. ASSUME NEW c \in Collectors, gc'[c].pc = "moved", At(c)' \in Chained'
      PROVE  gc[c].pc = "moved" /\ At(c)' = At(c) /\ At(c) \in Chained
  <2>1. gc[c].pc = "moved" /\ At(c)' = At(c) BY <1>2, <1>6, Zenon DEF At
  <2>2. life[At(c)] # "unused" BY <2>1, AtObject, Zenon
  <2>3. At(c) # o BY <2>2, Zenon DEF LoadIndex
  <2> QED BY <1>3, <1>6, <2>1, <2>3, Zenon
<1> QED BY <1>2, <1>5, <1>6, FiledFrame, Zenon DEF rqVars

-----------------------------------------------------------------------------
(* One collector *)

\* With one collector what it picked stays in the chain, with its body.
Steady ==
  \A c \in Collectors : \A i \in 1..Len(gc[c].todo) :
    /\ gc[c].todo[i].o \in Chained \/ (i = 1 /\ gc[c].pc = "free")
    /\ gc[c].swapout => data[gc[c].todo[i].o] = "mem"

OneCollector == \A c, d \in Collectors : c = d

LEMMA SteadyIsUsable ==
  ASSUME Known, Steady
  PROVE  PickedUsable
<1> USE DEF Known
<1> SUFFICES ASSUME NEW c \in Collectors
             PROVE  /\ \A i \in 1..Len(gc[c].todo) : life[gc[c].todo[i].o] = "live"
                    /\ Swaps(c) => data[At(c)] # NULL
  BY Zenon DEF PickedUsable
<1>1. gc[c] \in Collection /\ Passing(c) /\ NULL # "mem"
  BY DEF Types, ActorTypes, Passes, CacheAssumption
<1>2. ASSUME NEW i \in 1..Len(gc[c].todo) PROVE life[gc[c].todo[i].o] = "live"
  <2>1. gc[c].todo[i] \in Picked BY <1>1 DEF Collection
  <2>2. PICK x \in Obj : x = gc[c].todo[i].o BY <2>1, Zenon DEF Picked
  <2>3. x \in Chained \/ (i = 1 /\ gc[c].pc = "free") BY <2>2, Zenon DEF Steady
  <2>4. i = 1 /\ gc[c].pc = "free" => Freeing(x) BY <2>2, Zenon DEF Freeing, At
  <2>5. life[x] = "live" BY <2>3, <2>4, HeldFacts, Zenon
  <2> QED BY <2>2, <2>5, Zenon
<1>3. ASSUME Swaps(c) PROVE data[At(c)] # NULL
  <2>1. gc[c].pc # "idle" /\ gc[c].swapout BY <1>3, Zenon DEF Swaps
  <2>2. 1 \in 1..Len(gc[c].todo) BY <1>1, <2>1 DEF Passing, Collection
  <2> QED BY <1>1, <2>1, <2>2, Zenon DEF Steady, At
<1> QED BY <1>2, <1>3, Zenon

\* Others leave what a collector picked in the chain, with its body.
LEMMA SteadyOther ==
  ASSUME Known, Steady, gc' = gc, Chained \subseteq Chained',
         \A o \in Obj : data[o] = "mem" => data'[o] = "mem"
  PROVE  Steady'
<1> SUFFICES ASSUME NEW c \in Collectors, NEW i \in 1..Len(gc[c].todo)
             PROVE  /\ gc[c].todo[i].o \in Chained' \/ (i = 1 /\ gc[c].pc = "free")
                    /\ gc[c].swapout => data'[gc[c].todo[i].o] = "mem"
  BY ZenonT(30) DEF Steady
<1>1. gc[c].todo[i] \in Picked BY DEF Known, Types, ActorTypes, Collection
<1>2. gc[c].todo[i].o \in Obj BY <1>1, Zenon DEF Picked
<1> QED BY <1>2, Zenon DEF Steady

LEMMA SteadyCollector ==
  ASSUME Safe, Steady, OneCollector, NEW c \in Collectors,
         FlushBegin(c) \/ Collect(c) \/ CollectorStep(c)
  PROVE  Steady'
<1> USE DEF Safe, Known
<1>1. /\ gc \in [Collectors -> Collection] /\ gc[c] \in Collection /\ Passing(c)
      /\ data \in [Obj -> {NULL, "mem"} \cup Rq]
  BY Zenon DEF Types, ObjTypes, ActorTypes, Passes
<1> SUFFICES ASSUME NEW i \in 1..Len(gc'[c].todo)
             PROVE  /\ gc'[c].todo[i].o \in Chained' \/ (i = 1 /\ gc'[c].pc = "free")
                    /\ gc'[c].swapout => data'[gc'[c].todo[i].o] = "mem"
  BY ZenonT(30) DEF Steady, OneCollector
<1>2. ASSUME NEW j \in 1..Len(gc[c].todo)
      PROVE  /\ gc[c].todo[j].o \in Obj
             /\ gc[c].todo[j].o \in Chained \/ (j = 1 /\ gc[c].pc = "free")
             /\ gc[c].swapout => data[gc[c].todo[j].o] = "mem"
  <2>1. gc[c].todo[j] \in Picked BY <1>1, SMTT(30) DEF Collection
  <2> QED BY <2>1, Zenon DEF Steady, Picked
<1>3. CASE FlushBegin(c)
  <2>1. gc' = gc /\ data' = data BY <1>3, Zenon DEF FlushBegin, objVars
  <2>2. Chained' = Chained BY <1>3, Zenon DEF FlushBegin, Chained, setVars
  <2> QED BY <1>2, <2>1, <2>2, Zenon
<1>4. CASE Collect(c)
  <2>1. PICK l \in Lists, sw \in BOOLEAN :
        \E kill \in 0..Len(objList[l]) : \E s \in LastFirst(Picks(l, kill)) :
           /\ sw => l = "mem"
           /\ gc' = [gc EXCEPT ![c] =
                 [pc |-> IF s = <<>> THEN "idle" ELSE "pick", list |-> l,
                  swapout |-> sw, todo |-> Todo(l, s, sw)]]
    BY <1>4, ZenonT(30) DEF Collect
  <2>2. PICK kill, s : /\ s \in LastFirst(Picks(l, kill))
                       /\ sw => l = "mem"
                       /\ gc' = [gc EXCEPT ![c] =
                             [pc |-> IF s = <<>> THEN "idle" ELSE "pick", list |-> l,
                              swapout |-> sw, todo |-> Todo(l, s, sw)]]
    BY <2>1, Zenon
  <2>3. IsInjective(objList[l]) /\ Types BY Zenon DEF ListsMatchChain
  <2>4. Len(Todo(l, s, sw)) = Len(s) /\ \A j \in 1..Len(s) : InList(l, Todo(l, s, sw)[j].o)
    BY <2>2, <2>3, PicksFacts, SMTT(30)
  <2>5. gc'[c].todo = Todo(l, s, sw) /\ gc'[c].swapout = sw
    BY <1>1, <2>2, Zenon
  <2>6. InList(l, gc'[c].todo[i].o) BY <2>4, <2>5, Zenon
  <2>7. gc'[c].todo[i].o \in Chained /\ Chained \subseteq Obj
    BY <2>3, <2>6, InCacheChained, ChainedAreObjects, Zenon DEF in_cache
  <2>8. Chained' = Chained /\ data' = data
    BY <1>4, Zenon DEF Collect, Chained, objVars
  <2>9. sw => data[gc'[c].todo[i].o] = "mem"
    BY <2>2, <2>6, <2>7, ZenonT(30) DEF Bodies
  <2> QED BY <2>5, <2>7, <2>8, <2>9, Zenon
<1>5. ASSUME gc[c].pc # "idle", NextPick(c), Chained' = Chained,
             \A o \in Obj : o # At(c) => data'[o] = data[o]
      PROVE  /\ gc'[c].todo[i].o \in Chained'
             /\ gc'[c].swapout => data'[gc'[c].todo[i].o] = "mem"
  <2>1. gc[c].todo \in Seq(Picked) /\ Len(gc[c].todo) > 0
    BY <1>1, <1>5, Zenon DEF Passing, Collection
  <2>2. gc'[c].todo = Tail(gc[c].todo) /\ gc'[c].swapout = gc[c].swapout
    BY <1>1, <1>5, Zenon DEF NextPick, Collection
  <2>3. i + 1 \in 1..Len(gc[c].todo) /\ gc'[c].todo[i] = gc[c].todo[i + 1] /\ i + 1 # 1 /\ 1 \in 1..Len(gc[c].todo)
    BY <2>1, <2>2, TailFacts, SMTT(30)
  <2>4. gc[c].todo[i + 1].o # At(c)
    BY <1>1, <2>3, Zenon DEF Passing, At
  <2> QED BY <1>2, <1>5, <2>2, <2>3, <2>4, SMTT(30)
<1>6. CASE SwapoutHead(c) \/ SwapoutBody(c)
  <2>1. gc[c].pc = "pick" /\ data' = data /\ hash' = hash
    BY <1>6, Zenon DEF SwapoutHead, SwapoutBody, Swaps, setVars
  <2>2. gc'[c].todo = gc[c].todo /\ gc'[c].swapout = gc[c].swapout
    BY <1>1, <1>6 DEF SwapoutHead, SwapoutBody, Collection
  <2>3. Chained' = Chained BY <2>1, Zenon DEF Chained
  <2> QED BY <1>2, <2>1, <2>2, <2>3, Zenon
<1>7. CASE SwapoutTrue(c)
  <2>1. gc[c].pc # "idle" /\ NextPick(c) /\ hash' = hash BY <1>7, Zenon DEF SwapoutTrue
  <2>2. \A o \in Obj : o # At(c) => data'[o] = data[o] BY <1>1, <1>7, Zenon DEF SwapoutTrue
  <2>3. Chained' = Chained BY <2>1, Zenon DEF Chained
  <2> QED BY <1>5, <2>1, <2>2, <2>3, ZenonT(30)
<1>8. CASE SwapoutFalse(c)
  <2>1. gc[c].pc \notin {"idle", "free"} /\ data' = data BY <1>8, Zenon DEF SwapoutFalse, objVars
  <2>2. CASE Demotable(c)
    <3>1. Chained' = Chained \ {At(c)} BY <1>8, <2>2, CollectorChain, Zenon
    <3>2. gc'[c].todo = gc[c].todo /\ gc'[c].swapout = gc[c].swapout /\ gc'[c].pc = "free"
      BY <1>1, <1>8, <2>2, SMTT(30) DEF SwapoutFalse, Collection
    <3>3. 1 \in 1..Len(gc[c].todo) BY <1>1, <2>1, SMTT(30) DEF Passing, Collection
    <3>4. i # 1 => gc[c].todo[i].o # At(c)
      BY <1>1, <3>2, <3>3, Zenon DEF Passing, At
    <3> QED BY <1>2, <2>1, <3>1, <3>2, <3>4, Zenon
  <2>3. CASE ~Demotable(c)
    <3>1. NextPick(c) /\ hash' = hash BY <1>8, <2>3, Zenon DEF SwapoutFalse
    <3>2. Chained' = Chained BY <3>1, Zenon DEF Chained
    <3> QED BY <1>5, <2>1, <3>1, <3>2, Zenon
  <2> QED BY <2>2, <2>3, Zenon
<1>9. CASE FreeObj(c)
  <2>1. gc[c].pc # "idle" /\ NextPick(c) /\ hash' = hash /\ data' = data BY <1>9, Zenon DEF FreeObj, setVars
  <2>2. Chained' = Chained BY <2>1, Zenon DEF Chained
  <2> QED BY <1>5, <2>1, <2>2, ZenonT(30)
<1> QED BY <1>3, <1>4, <1>6, <1>7, <1>8, <1>9, Zenon DEF CollectorStep

=============================================================================
