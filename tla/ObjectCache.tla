---------------------------- MODULE ObjectCache ----------------------------
(***************************************************************************)
(* The object cache of kangle (KCache, KObjectList, KHttpObjectHash,       *)
(* KHttpObject, KHttpObjectSwaping): the cached responses of one URL, the   *)
(* request fibers that look them up, swap them in, revalidate, store and    *)
(* release them, the administrator's purges, and the collector thread that  *)
(* swaps objects out to disk and drops the dead ones.                       *)
(*                                                                         *)
(* Four kinds of lock interleave here: cacheLock (the lists), the hash      *)
(* lock (the chain of one bucket), the object lock (references and body)    *)
(* and size_lock (the counters).  A section under a lock is one step,       *)
(* except where the flags word of an object is changed: KBIT_SET is a read  *)
(* followed by a write, done under different locks by different callers,    *)
(* so it is two steps wherever two of them can overlap.                     *)
(***************************************************************************)
EXTENDS Integers, FiniteSets, Sequences, Functions

CONSTANTS
  Obj,          \* objects; each is allocated at most once
  Rq,           \* requests, each served once by its fiber
  Collectors,   \* threads that run KObjectList::move
  Killers,      \* administrator's commands that purge or clean the cache
  NULL

\* Actors are told apart, a body is no request, and NULL is nothing else.
ASSUME CacheAssumption ==
  /\ IsFiniteSet(Obj) /\ IsFiniteSet(Rq)
  /\ Rq \cap Killers = {} /\ "mem" \notin Rq
  /\ NULL \notin Obj \cup Rq \cup {"mem"}

VARIABLES
  life,          \* [Obj -> {"unused", "live", "freed"}]
  flags,         \* index.flags, restricted to the bits that matter here
  dirty,         \* objects with dc_index_update set
  data,          \* NULL, "mem", or the request whose swap-in is under way
  refs,          \* reference counts
  file,          \* objects with a cache file on disk
  lost,          \* objects whose file a failed rewrite has unlinked
  hash,          \* the chain of the bucket, newest first
  objList,       \* [{"mem", "disk"} -> Seq(Obj)], head first
  dropDead,      \* lists whose cache_model is DROP_DEAD
  mem_count,     \* KHttpObjectHash::mem_count
  disk_count,    \* KHttpObjectHash::disk_count
  clean_blocked, \* KCache::clean_blocked
  pc,            \* what each request does next
  obj,           \* rq->ctx.obj
  old_obj,       \* rq->ctx.old_obj
  swapped,       \* outcome of the swap-in a request ran
  waiter,        \* requests waiting for the swap-in a request runs
  window,        \* flags word read by a request or killer, not yet written
  gc,            \* the collectors
  killer         \* the killers

objVars  == <<life, flags, dirty, data, refs>>
diskVars == <<file, lost>>
setVars  == <<hash, objList, dropDead>>
sizeVars == <<mem_count, disk_count>>
rqVars   == <<pc, obj, old_obj, swapped, waiter>>
vars     == <<objVars, diskVars, setVars, sizeVars, clean_blocked, rqVars,
              window, gc, killer>>

Flags == {"DEAD", "IN_MEM", "IN_DISK", "NO_DISK_CACHE"}
Lists == {"mem", "disk"}
RqPCs == {"start", "check", "lock", "swapin", "notice", "count", "wake",
          "wait", "failed", "miss", "serve", "reval", "drop", "store",
          "release", "done"}

\* What KObjectList::move remembers of an object it has picked.
Picked == [o : Obj, is_dead : BOOLEAN]

Collection == [pc : {"idle", "pick", "moved", "failed", "free"}, list : Lists,
               swapout : BOOLEAN, todo : Seq(Picked)]
Killing == [lock : {"idle", "done", "hash", "cache"}, todo : SUBSET Obj,
            at : Obj \cup {NULL}]

Init ==
  /\ life = [o \in Obj |-> "unused"]
  /\ flags = [o \in Obj |-> {}]
  /\ dirty = {}
  /\ data = [o \in Obj |-> NULL]
  /\ refs = [o \in Obj |-> 0]
  /\ file = {} /\ lost = {}
  /\ hash = <<>>
  /\ objList = [l \in Lists |-> <<>>]
  /\ dropDead = {}
  /\ mem_count = 0 /\ disk_count = 0
  /\ clean_blocked = FALSE
  /\ pc = [r \in Rq |-> "start"]
  /\ obj = [r \in Rq |-> NULL]
  /\ old_obj = [r \in Rq |-> NULL]
  /\ swapped = [r \in Rq |-> FALSE]
  /\ waiter = [r \in Rq |-> {}]
  /\ window = [a \in Rq \cup Killers |-> {}]
  /\ gc = [c \in Collectors |->
             [pc |-> "idle", list |-> "mem", swapout |-> FALSE, todo |-> <<>>]]
  /\ killer = [k \in Killers |-> [lock |-> "idle", todo |-> {}, at |-> NULL]]

-----------------------------------------------------------------------------
(* Locks.  Only a killer keeps cacheLock or the hash lock from one step to  *)
(* the next, and only notice() keeps an object's lock.                      *)

CacheLockFree == \A k \in Killers : killer[k].lock # "cache"
HashLockFree  == \A k \in Killers : killer[k].lock # "hash"
ObjLockFree(o) == \A r \in Rq : ~(pc[r] = "notice" /\ obj[r] = o)

(* Lists and chain. *)

\* KObjectList::remove and the unlinking in KHttpObjectHash::remove: the one node
\* that is o.
Unlinked(s, o) ==
  LET i == CHOOSE i \in DOMAIN s : s[i] = o
  IN IF o \in Range(s) THEN [k \in 1..Len(s) - 1 |-> s[IF k < i THEN k ELSE k + 1]]
                       ELSE s

InList(l, o) == o \in Range(objList[l])
in_cache(o)  == \E l \in Lists : InList(l, o)

\* KCache::rate: the object goes to the tail of the list its flags name.
Rated(o) ==
  LET home == IF "IN_MEM" \in flags[o] THEN "mem" ELSE "disk"
  IN [l \in Lists |-> IF l = home THEN Append(Unlinked(objList[l], o), o)
                                  ELSE Unlinked(objList[l], o)]

\* KObjectList::dead: the object goes to the head of the list it is in.
AtHead(o) ==
  [l \in Lists |-> IF InList(l, o) THEN <<o>> \o Unlinked(objList[l], o)
                                   ELSE objList[l]]

\* KHttpObject::release by the holder of one reference: the last one frees
\* the object, whose destructor unlinks the cache file of an IN_DISK object.
Unref(o) ==
  /\ ObjLockFree(o)
  /\ refs' = [refs EXCEPT ![o] = @ - 1]
  /\ life' = [life EXCEPT ![o] = IF refs[o] = 1 THEN "freed" ELSE @]
  /\ file' = IF refs[o] = 1 /\ "IN_DISK" \in flags[o] THEN file \ {o} ELSE file

\* new KHttpObject(rq): one reference, an empty body in memory.
Allocated(o) ==
  /\ life[o] = "unused"
  /\ life' = [life EXCEPT ![o] = "live"]
  /\ flags' = [flags EXCEPT ![o] = {"IN_MEM"}]
  /\ data' = [data EXCEPT ![o] = "mem"]

-----------------------------------------------------------------------------
(* Requests *)

Goto(r, l) == pc' = [pc EXCEPT ![r] = l]

\* KHttpObjectHash::get under the hash lock: the newest live object of the
\* chain; a request marked RF_NO_DISK_CACHE takes only a body in memory.
Hits(noDisk) ==
  {i \in DOMAIN hash : /\ "DEAD" \notin flags[hash[i]]
                       /\ noDisk => data[hash[i]] = "mem"}

Find(r) ==
  /\ pc[r] = "start"
  /\ HashLockFree
  /\ \E noDisk \in BOOLEAN :
       \/ /\ Hits(noDisk) = {}
          /\ Goto(r, "miss")
          /\ UNCHANGED <<refs, obj>>
       \/ \E i \in Hits(noDisk) :
            /\ \A j \in Hits(noDisk) : i <= j
            /\ ObjLockFree(hash[i])
            /\ obj' = [obj EXCEPT ![r] = hash[i]]
            /\ refs' = [refs EXCEPT ![hash[i]] = @ + 1]
            /\ Goto(r, "check")
  /\ UNCHANGED <<life, flags, dirty, data, diskVars, setVars, sizeVars,
                 clean_blocked, old_obj, swapped, waiter, window, gc, killer>>

\* find_cache_object and process_cache_request: a new object to load the
\* response into.  Bound: when every object of Obj is used up the request is
\* answered outside the cache.
Miss(r) ==
  /\ pc[r] = "miss"
  /\ \/ \E o \in Obj :
          /\ Allocated(o)
          /\ refs' = [refs EXCEPT ![o] = 1]
          /\ obj' = [obj EXCEPT ![r] = o]
          /\ Goto(r, "store")
     \/ /\ \A o \in Obj : life[o] # "unused"
        /\ Goto(r, "done")
        /\ UNCHANGED <<life, flags, data, refs, obj>>
  /\ UNCHANGED <<dirty, diskVars, setVars, sizeVars, clean_blocked, old_obj,
                 swapped, waiter, window, gc, killer>>

\* swap_in_object's test of FLAG_IN_MEM, made without a lock.
Check(r) ==
  /\ pc[r] = "check"
  /\ Goto(r, IF "IN_MEM" \in flags[obj[r]] THEN "serve" ELSE "lock")
  /\ UNCHANGED <<objVars, diskVars, setVars, sizeVars, clean_blocked, obj,
                 old_obj, swapped, waiter, window, gc, killer>>

\* Mutant: a swap-in under way is not noticed.
NotInMem(o) == data[o] # "mem"

BodyMissing(o) == data[o] = NULL

\* The rest of swap_in_object, under the object's lock: give up while the
\* collector is late, become the one that reads the file, wait for the one
\* that does, or find that the body has arrived.
SwapInObject(r) ==
  LET o == obj[r] IN
  /\ pc[r] = "lock"
  /\ ObjLockFree(o)
  /\ \/ /\ BodyMissing(o) /\ clean_blocked
        /\ Goto(r, "failed")
        /\ UNCHANGED <<data, waiter>>
     \/ /\ BodyMissing(o) /\ ~clean_blocked
        /\ data' = [data EXCEPT ![o] = r]
        /\ Goto(r, "swapin")
        /\ UNCHANGED waiter
     \/ /\ data[o] \in Rq
        /\ waiter' = [waiter EXCEPT ![data[o]] = @ \cup {r}]
        /\ Goto(r, "wait")
        /\ UNCHANGED data
     \/ /\ data[o] = "mem"
        /\ Goto(r, "serve")
        /\ UNCHANGED <<data, waiter>>
  /\ UNCHANGED <<life, flags, dirty, refs, diskVars, setVars, sizeVars,
                 clean_blocked, obj, old_obj, swapped, window, gc, killer>>

\* KHttpObjectSwaping::swapin has read the file, or failed to; notice() takes
\* the object's lock, installs the body and reads the flags word.
SwapIn(r) ==
  LET o == obj[r] IN
  /\ pc[r] = "swapin"
  /\ \E ok \in {FALSE, (o \in file)} :
       /\ swapped' = [swapped EXCEPT ![r] = ok]
       /\ data' = [data EXCEPT ![o] = IF ok THEN "mem" ELSE NULL]
  /\ window' = [window EXCEPT ![r] = flags[o]]
  /\ Goto(r, "notice")
  /\ UNCHANGED <<life, flags, dirty, refs, diskVars, setVars, sizeVars,
                 clean_blocked, obj, old_obj, waiter, gc, killer>>

\* notice() writes the flags word back and releases the lock.
Notice(r) ==
  LET o == obj[r] IN
  /\ pc[r] = "notice"
  /\ flags' = [flags EXCEPT ![o] =
                 window[r] \cup {IF swapped[r] THEN "IN_MEM" ELSE "DEAD"}]
  /\ window' = [window EXCEPT ![r] = {}]
  /\ Goto(r, IF swapped[r] THEN "count" ELSE "wake")
  /\ UNCHANGED <<life, dirty, data, refs, diskVars, setVars, sizeVars,
                 clean_blocked, obj, old_obj, swapped, waiter, gc, killer>>

\* Mutant: the body that came back is not counted.
NoticeUncounted(r) ==
  /\ pc[r] = "count"
  /\ Goto(r, "wake")
  /\ UNCHANGED <<objVars, diskVars, setVars, sizeVars, clean_blocked, obj,
                 old_obj, swapped, waiter, window, gc, killer>>

\* IncMemObjectSize, after the object's lock is released.
NoticeCount(r) ==
  /\ pc[r] = "count"
  /\ mem_count' = mem_count + 1
  /\ Goto(r, "wake")
  /\ UNCHANGED <<objVars, diskVars, setVars, disk_count, clean_blocked, obj,
                 old_obj, swapped, waiter, window, gc, killer>>

Woken(r) == {r} \cup waiter[r]

\* kfiber_wakeup_all_waiter: this request and its waiters get the result.
NoticeWake(r) ==
  /\ pc[r] = "wake"
  /\ pc' = [q \in Rq |-> IF q \in Woken(r)
                         THEN IF swapped[r] THEN "serve" ELSE "failed"
                         ELSE pc[q]]
  /\ waiter' = [waiter EXCEPT ![r] = {}]
  /\ swapped' = [swapped EXCEPT ![r] = FALSE]
  /\ UNCHANGED <<objVars, diskVars, setVars, sizeVars, clean_blocked, obj,
                 old_obj, window, gc, killer>>

\* Mutant: the object that could not be read is not released.
FailedLeaks(r) ==
  /\ pc[r] = "failed"
  /\ obj' = [obj EXCEPT ![r] = NULL]
  /\ Goto(r, "miss")
  /\ UNCHANGED <<objVars, diskVars, setVars, sizeVars, clean_blocked,
                 old_obj, swapped, waiter, window, gc, killer>>

\* A failed swap-in: clean_obj, and the response comes from the source.
Failed(r) ==
  /\ pc[r] = "failed"
  /\ Unref(obj[r])
  /\ obj' = [obj EXCEPT ![r] = NULL]
  /\ Goto(r, "miss")
  /\ UNCHANGED <<flags, dirty, data, lost, setVars, sizeVars, clean_blocked,
                 old_obj, swapped, waiter, window, gc, killer>>

\* process_check_cache_expire: a fresh object is sent as it is; an expired one
\* becomes old_obj and the source is asked with a new object.
Fresh(r) ==
  /\ pc[r] = "serve"
  /\ Goto(r, "store")
  /\ UNCHANGED <<objVars, diskVars, setVars, sizeVars, clean_blocked, obj,
                 old_obj, swapped, waiter, window, gc, killer>>

Expired(r) ==
  /\ pc[r] = "serve"
  /\ \E o \in Obj :
       /\ Allocated(o)
       /\ refs' = [refs EXCEPT ![o] = 1]
       /\ obj' = [obj EXCEPT ![r] = o]
  /\ old_obj' = [old_obj EXCEPT ![r] = obj[r]]
  /\ Goto(r, "reval")
  /\ UNCHANGED <<dirty, diskVars, setVars, sizeVars, clean_blocked, swapped,
                 waiter, window, gc, killer>>

\* load_object_from_source on a 304 answer: pop_obj drops the new object.
NotModified(r) ==
  /\ pc[r] = "reval"
  /\ Unref(obj[r])
  /\ obj' = [obj EXCEPT ![r] = old_obj[r]]
  /\ old_obj' = [old_obj EXCEPT ![r] = NULL]
  /\ Goto(r, "store")
  /\ UNCHANGED <<flags, dirty, data, lost, setVars, sizeVars, clean_blocked,
                 swapped, waiter, window, gc, killer>>

\* The 304 goes on to the client, or the source gave no usable answer: both
\* objects stay until store_obj.
KeepBoth(r) ==
  /\ pc[r] = "reval"
  /\ Goto(r, "store")
  /\ UNCHANGED <<objVars, diskVars, setVars, sizeVars, clean_blocked, obj,
                 old_obj, swapped, waiter, window, gc, killer>>

\* KCache::dead under cacheLock.
CacheDead(o) ==
  /\ CacheLockFree
  /\ flags' = [flags EXCEPT ![o] = @ \cup {"DEAD"}]
  /\ dirty' = dirty \cup {o}
  /\ objList' = AtHead(o)
  /\ dropDead' = dropDead \cup {l \in Lists : InList(l, o)}

\* A new body has arrived: dead_old_obj kills the old object ...
DeadOldObj(r) ==
  /\ pc[r] = "reval"
  /\ CacheDead(old_obj[r])
  /\ Goto(r, "drop")
  /\ UNCHANGED <<life, data, refs, diskVars, hash, sizeVars, clean_blocked, obj,
                 old_obj, swapped, waiter, window, gc, killer>>

\* ... and releases it.
DropOldObj(r) ==
  /\ pc[r] = "drop"
  /\ Unref(old_obj[r])
  /\ old_obj' = [old_obj EXCEPT ![r] = NULL]
  /\ Goto(r, "store")
  /\ UNCHANGED <<flags, dirty, data, lost, setVars, sizeVars, clean_blocked,
                 obj, swapped, waiter, window, gc, killer>>

(* store_obj, at the end of the request. *)

\* The object the cache already has is touched.
StoreRate(r) ==
  LET o == IF old_obj[r] # NULL THEN old_obj[r] ELSE obj[r] IN
  /\ pc[r] = "store"
  /\ in_cache(o)
  /\ CacheLockFree
  /\ objList' = Rated(o)
  /\ Goto(r, "release")
  /\ UNCHANGED <<objVars, diskVars, hash, dropDead, sizeVars, clean_blocked, obj,
                 old_obj, swapped, waiter, window, gc, killer>>

\* The new object was not stored and the old one may not be used again.
StoreDead(r) ==
  /\ pc[r] = "store"
  /\ old_obj[r] # NULL
  /\ CacheDead(old_obj[r])
  /\ Goto(r, "release")
  /\ UNCHANGED <<life, data, refs, diskVars, hash, sizeVars, clean_blocked, obj,
                 old_obj, swapped, waiter, window, gc, killer>>

\* KCache::add and KHttpObjectHash::put: a loaded response enters the chain
\* and the memory list with a reference of its own.  A body that was streamed
\* to a cache file is IN_DISK from the start.
CacheAdd(o, list, bits) ==
  /\ CacheLockFree /\ HashLockFree
  /\ ~clean_blocked
  /\ flags' = [flags EXCEPT ![o] = bits]
  /\ hash' = <<o>> \o hash
  /\ objList' = [objList EXCEPT ![list] = Append(@, o)]
  /\ mem_count' = mem_count + (IF "IN_MEM" \in bits THEN 1 ELSE 0)
  /\ disk_count' = disk_count + (IF "IN_DISK" \in bits THEN 1 ELSE 0)
  /\ file' = IF "IN_DISK" \in bits THEN file \cup {o} ELSE file

StoreNew(r) ==
  LET o == obj[r] IN
  /\ pc[r] = "store"
  /\ old_obj[r] = NULL
  /\ ~in_cache(o)
  /\ \E bits \in {{"IN_MEM"}, {"IN_MEM", "IN_DISK"}, {"IN_MEM", "NO_DISK_CACHE"}} :
       CacheAdd(o, "mem", bits)
  /\ refs' = [refs EXCEPT ![o] = @ + 1]
  /\ Goto(r, "release")
  /\ UNCHANGED <<life, dirty, data, lost, dropDead, clean_blocked, obj, old_obj,
                 swapped, waiter, window, gc, killer>>

\* The response may not be cached, or KCache::add refused it.
StoreSkip(r) ==
  /\ pc[r] = "store"
  /\ old_obj[r] = NULL
  /\ ~in_cache(obj[r])
  /\ Goto(r, "release")
  /\ UNCHANGED <<objVars, diskVars, setVars, sizeVars, clean_blocked, obj,
                 old_obj, swapped, waiter, window, gc, killer>>

\* clean_obj: obj is released, then old_obj.
Release(r) ==
  /\ pc[r] = "release"
  /\ \/ /\ obj[r] # NULL
        /\ Unref(obj[r])
        /\ obj' = [obj EXCEPT ![r] = NULL]
        /\ Goto(r, IF old_obj[r] = NULL THEN "done" ELSE "release")
        /\ UNCHANGED old_obj
     \/ /\ obj[r] = NULL
        /\ Unref(old_obj[r])
        /\ old_obj' = [old_obj EXCEPT ![r] = NULL]
        /\ Goto(r, "done")
        /\ UNCHANGED obj
  /\ UNCHANGED <<flags, dirty, data, lost, setVars, sizeVars, clean_blocked,
                 swapped, waiter, window, gc, killer>>

-----------------------------------------------------------------------------
(* The loader of the disk index, and the threads that kill objects *)

\* create_http_object2 at start-up or during a scan: an object known only by
\* its file enters the disk list.
LoadIndex(o) ==
  /\ life[o] = "unused"
  /\ life' = [life EXCEPT ![o] = "live"]
  /\ CacheAdd(o, "disk", {"IN_DISK"})
  /\ refs' = [refs EXCEPT ![o] = 1]
  /\ UNCHANGED <<dirty, data, lost, dropDead, clean_blocked, rqVars, window, gc,
                 killer>>

\* KHttpObjectHash::purge: every live object of the URL, under the hash lock.
Purge(k) ==
  /\ killer[k].lock = "idle"
  /\ HashLockFree
  /\ LET live == {o \in Range(hash) : "DEAD" \notin flags[o]}
     IN /\ live # {}
        /\ killer' = [killer EXCEPT ![k] =
                        [lock |-> "hash", todo |-> live, at |-> NULL]]
  /\ UNCHANGED <<objVars, diskVars, setVars, sizeVars, clean_blocked, rqVars,
                 window, gc>>

\* dead_all_obj (all objects), clean_cache by pattern (those that match) and
\* dead_count (a prefix of a list), under cacheLock.
CleanCache(k) ==
  /\ killer[k].lock = "idle"
  /\ CacheLockFree
  /\ \E todo \in SUBSET {o \in Obj : in_cache(o)} :
       /\ todo # {}
       /\ killer' = [killer EXCEPT ![k] =
                       [lock |-> "cache", todo |-> todo, at |-> NULL]]
  /\ dropDead' = Lists
  /\ UNCHANGED <<objVars, diskVars, hash, objList, sizeVars, clean_blocked,
                 rqVars, window, gc>>

\* KHttpObject::Dead reads the flags word ...
DeadRead(k) ==
  /\ killer[k].at = NULL
  /\ \E o \in killer[k].todo :
       /\ killer' = [killer EXCEPT ![k].at = o]
       /\ window' = [window EXCEPT ![k] = flags[o]]
  /\ UNCHANGED <<objVars, diskVars, setVars, sizeVars, clean_blocked, rqVars, gc>>

\* ... and writes it back; after the last object the lock is released.
DeadWrite(k) ==
  LET o == killer[k].at
      left == killer[k].todo \ {o}
  IN /\ o # NULL
     /\ flags' = [flags EXCEPT ![o] = window[k] \cup {"DEAD"}]
     /\ dirty' = dirty \cup {o}
     /\ window' = [window EXCEPT ![k] = {}]
     /\ killer' = [killer EXCEPT ![k] =
                     [lock |-> IF left = {} THEN "done" ELSE @.lock,
                      todo |-> left, at |-> NULL]]
     /\ UNCHANGED <<life, data, refs, diskVars, setVars, sizeVars, clean_blocked,
                    rqVars, gc>>

-----------------------------------------------------------------------------
(* The collectors: time_thread's KCache::flush every few seconds, and the    *)
(* administrator's flush_mem_to_disk.                                        *)

At(c) == gc[c].todo[1].o

\* The entry at the head of todo is done with.
NextPick(c) ==
  gc' = [gc EXCEPT ![c].todo = Tail(@),
                   ![c].pc = IF Len(gc[c].todo) = 1 THEN "idle" ELSE "pick"]

\* check_count_limit, at the start of KCache::flush.
FlushBegin(c) ==
  /\ gc[c].pc = "idle"
  /\ CacheLockFree
  /\ clean_blocked
  /\ clean_blocked' = FALSE
  /\ UNCHANGED <<objVars, diskVars, setVars, sizeVars, rqVars, window, gc, killer>>

\* What KObjectList::move picks from list l to free kill objects, by position:
\* walking from the head it skips referenced objects and stops at the first live
\* one once enough is freed.  The last one picked is dealt with first.  An object
\* barred from the disk cache counts as dead when it would be swapped out.
Unreferenced(l) == {i \in DOMAIN objList[l] : refs[objList[l][i]] <= 1}
StopsAt(l, kill) ==
  {i \in Unreferenced(l) : /\ Cardinality({j \in Unreferenced(l) : j <= i}) > kill
                           /\ "DEAD" \notin flags[objList[l][i]]}
Picks(l, kill) == {i \in Unreferenced(l) : \A j \in StopsAt(l, kill) : i < j}
LastFirst(places) ==
  {s \in [1..Cardinality(places) -> places] :
     \A i, j \in 1..Cardinality(places) : i < j => s[i] > s[j]}
Entry(o, swapout) ==
  [o |-> o, is_dead |-> "DEAD" \in flags[o] \/ (swapout /\ "NO_DISK_CACHE" \in flags[o])]
Todo(l, s, swapout) == [i \in 1..Len(s) |-> Entry(objList[l][s[i]], swapout)]

\* KObjectList::move up to the end of its first locked section: memory list
\* with swap-out, disk list without, memory list without when the disk list
\* had nothing to give.
Collect(c) ==
  /\ gc[c].pc = "idle"
  /\ CacheLockFree
  /\ \E l \in Lists, swapout \in BOOLEAN : \E kill \in 0..Len(objList[l]) :
       /\ swapout => l = "mem"
       /\ kill > 0 \/ (l \in dropDead /\ (l = "mem" => swapout))
       /\ dropDead' = IF StopsAt(l, kill) = {} THEN dropDead ELSE dropDead \ {l}
       /\ \E s \in LastFirst(Picks(l, kill)) :
            gc' = [gc EXCEPT ![c] =
                     [pc |-> IF s = <<>> THEN "idle" ELSE "pick",
                      list |-> l, swapout |-> swapout, todo |-> Todo(l, s, swapout)]]
  /\ UNCHANGED <<objVars, diskVars, hash, objList, sizeVars, clean_blocked, rqVars,
                 window, killer>>

Swaps(c) == gc[c].pc = "pick" /\ gc[c].swapout /\ ~gc[c].todo[1].is_dead

\* KHttpObject::swapout of an object whose body is already on disk: nothing to
\* do, or the head is rewritten, which can fail and then unlinks the file.
SwapoutHead(c) ==
  LET o == At(c) IN
  /\ Swaps(c)
  /\ "IN_DISK" \in flags[o]
  /\ dirty' = dirty \ {o}
  /\ \/ /\ o \in dirty => o \in file
        /\ gc' = [gc EXCEPT ![c].pc = "moved"]
        /\ UNCHANGED diskVars
     \/ /\ o \in dirty
        /\ gc' = [gc EXCEPT ![c].pc = "failed"]
        /\ UNCHANGED diskVars
     \/ /\ o \in dirty
        /\ gc' = [gc EXCEPT ![c].pc = "failed"]
        /\ file' = file \ {o}
        /\ lost' = lost \cup {o}
  /\ UNCHANGED <<life, flags, data, refs, setVars, sizeVars, clean_blocked, rqVars,
                 window, killer>>

\* Mutant: a write that failed is taken for done.
NothingWritten(o) == file

Written(o) == file \cup {o}

\* KHttpObject::swapout of a body: the file is written and counted, or the
\* collector is in a hurry (fast_model), or the write fails.
SwapoutBody(c) ==
  LET o == At(c) IN
  /\ Swaps(c)
  /\ "IN_DISK" \notin flags[o]
  /\ \/ /\ gc' = [gc EXCEPT ![c].pc = "failed"]
        /\ dirty' \in {dirty, dirty \ {o}}
        /\ UNCHANGED <<file, disk_count>>
     \/ /\ gc' = [gc EXCEPT ![c].pc = "moved"]
        /\ dirty' = dirty \ {o}
        /\ file' = Written(o)
        /\ disk_count' = disk_count + 1
  /\ UNCHANGED <<life, flags, data, refs, lost, setVars, mem_count, clean_blocked,
                 rqVars, window, killer>>

\* swapout_result says again whether the pass has taken too long.
SetBlocked == clean_blocked' \in BOOLEAN

\* Mutant: that the object may have changed lists meanwhile is not considered.
NotUsed(c) == refs[At(c)] <= 1

\* swapout_result's second look, now under the locks: the object is still in
\* the list it was picked from and nobody uses it.
Demotable(c) == InList(gc[c].list, At(c)) /\ refs[At(c)] <= 1

\* Mutant: a demoted object stays in the list it was in.
DemotedInPlace(c) == objList

Demoted(c) ==
  LET rest == [objList EXCEPT ![gc[c].list] = Unlinked(@, At(c))]
  IN [rest EXCEPT !["disk"] = Append(@, At(c))]

\* swapout_result(true): the object is on disk; unless it is in use again its
\* body is freed and it moves to the disk list.
SwapoutTrue(c) ==
  LET o == At(c) IN
  /\ gc[c].pc = "moved"
  /\ CacheLockFree /\ HashLockFree /\ ObjLockFree(o)
  /\ SetBlocked
  /\ IF Demotable(c)
     THEN /\ flags' = [flags EXCEPT ![o] = (@ \cup {"IN_DISK"}) \ {"IN_MEM"}]
          /\ objList' = Demoted(c)
          /\ mem_count' = mem_count - 1
          /\ data' = [data EXCEPT ![o] = NULL]
     ELSE /\ flags' = [flags EXCEPT ![o] = @ \cup {"IN_DISK"}]
          /\ UNCHANGED <<objList, mem_count, data>>
  /\ NextPick(c)
  /\ UNCHANGED <<life, dirty, refs, diskVars, hash, dropDead, disk_count, rqVars,
                 window, killer>>

\* What KHttpObjectHash::remove takes from the counter of flag f.
Counted(o, f) == IF f \in flags[o] THEN 1 ELSE 0

\* swapout_result(false): unless it is in use again the object leaves the list,
\* the chain and the counters.
SwapoutFalse(c) ==
  LET o == At(c) IN
  /\ gc[c].pc = "failed" \/ (gc[c].pc = "pick" /\ ~Swaps(c))
  /\ CacheLockFree /\ HashLockFree /\ ObjLockFree(o)
  /\ SetBlocked
  /\ IF Demotable(c)
     THEN /\ objList' = [objList EXCEPT ![gc[c].list] = Unlinked(@, o)]
          /\ hash' = Unlinked(hash, o)
          /\ mem_count' = mem_count - Counted(o, "IN_MEM")
          /\ disk_count' = disk_count - Counted(o, "IN_DISK")
          /\ gc' = [gc EXCEPT ![c].pc = "free"]
     ELSE /\ NextPick(c)
          /\ UNCHANGED <<hash, objList, sizeVars>>
  /\ UNCHANGED <<objVars, diskVars, dropDead, rqVars, window, killer>>

\* The cache's own reference goes last, after the locks are released.
FreeObj(c) ==
  /\ gc[c].pc = "free"
  /\ Unref(At(c))
  /\ NextPick(c)
  /\ UNCHANGED <<flags, dirty, data, lost, setVars, sizeVars, clean_blocked, rqVars,
                 window, killer>>

-----------------------------------------------------------------------------
RequestStep(r) ==
  \/ Find(r) \/ Miss(r) \/ Check(r) \/ SwapInObject(r) \/ SwapIn(r) \/ Notice(r)
  \/ NoticeCount(r) \/ NoticeWake(r) \/ Failed(r) \/ Fresh(r) \/ Expired(r)
  \/ NotModified(r) \/ KeepBoth(r) \/ DeadOldObj(r) \/ DropOldObj(r)
  \/ StoreRate(r) \/ StoreDead(r) \/ StoreNew(r) \/ StoreSkip(r) \/ Release(r)

CollectorStep(c) ==
  \/ SwapoutHead(c) \/ SwapoutBody(c) \/ SwapoutTrue(c) \/ SwapoutFalse(c)
  \/ FreeObj(c)

KillerStep(k) == DeadRead(k) \/ DeadWrite(k)

Next ==
  \/ \E r \in Rq : RequestStep(r)
  \/ \E c \in Collectors : FlushBegin(c) \/ Collect(c) \/ CollectorStep(c)
  \/ \E k \in Killers : Purge(k) \/ CleanCache(k) \/ KillerStep(k)
  \/ \E o \in Obj : LoadIndex(o)

\* Request fibers, a collection under way and a killer under way are running
\* code: each keeps taking steps.  Nothing makes a new pass or purge start.
Fairness ==
  /\ \A r \in Rq : WF_vars(RequestStep(r))
  /\ \A c \in Collectors : WF_vars(CollectorStep(c))
  /\ \A k \in Killers : WF_vars(KillerStep(k))

Spec == Init /\ [][Next]_vars /\ Fairness

-----------------------------------------------------------------------------
(* Properties *)

\* The type invariant; the counters of the lists never wrap below zero.
TypeOK ==
  /\ life \in [Obj -> {"unused", "live", "freed"}]
  /\ flags \in [Obj -> SUBSET Flags]
  /\ dirty \subseteq Obj
  /\ data \in [Obj -> {NULL, "mem"} \cup Rq]
  /\ refs \in [Obj -> Nat]
  /\ file \subseteq Obj /\ lost \subseteq Obj
  /\ hash \in Seq(Obj)
  /\ objList \in [Lists -> Seq(Obj)]
  /\ dropDead \subseteq Lists
  /\ mem_count \in Nat /\ disk_count \in Nat
  /\ clean_blocked \in BOOLEAN
  /\ pc \in [Rq -> RqPCs]
  /\ obj \in [Rq -> Obj \cup {NULL}]
  /\ old_obj \in [Rq -> Obj \cup {NULL}]
  /\ swapped \in [Rq -> BOOLEAN]
  /\ waiter \in [Rq -> SUBSET Rq]
  /\ window \in [Rq \cup Killers -> SUBSET Flags]
  /\ gc \in [Collectors -> Collection]
  /\ killer \in [Killers -> Killing]

\* Who holds a reference to o: the requests that name it and the cache.
Holders(o) == {r \in Rq : obj[r] = o} \cup {r \in Rq : old_obj[r] = o}
Freeing(o) == \E c \in Collectors : gc[c].pc = "free" /\ At(c) = o

\* The reference count of an object is the number of requests that hold it
\* plus one for the cache, and it is freed exactly when that is zero
\* (KHttpObject::addRef, release and KHttpObjectHash::put).
RefsExact ==
  \A o \in Obj :
    /\ refs[o] = Cardinality(Holders(o))
                 + (IF o \in Range(hash) \/ Freeing(o) THEN 1 ELSE 0)
    /\ (life[o] = "live") = (refs[o] > 0)

\* The chain and the two lists hold the same objects, each once, whatever
\* rate, dead, add and the collector do to them (the assertions on list_state
\* in KCache::rate, KCache::dead and KObjectList::remove).
ListsMatchChain ==
  /\ IsInjective(hash)
  /\ \A l \in Lists : IsInjective(objList[l])
  /\ Range(objList["mem"]) \cap Range(objList["disk"]) = {}
  /\ Range(hash) = Range(objList["mem"]) \cup Range(objList["disk"])

\* Between the two locked sections of KObjectList::move the collector uses
\* objects it holds no reference to.  They are still allocated, and the one it
\* swaps out has a body ("assert(data)", KHttpObject.cpp:436).
PickedUsable ==
  \A c \in Collectors :
    /\ \A i \in 1..Len(gc[c].todo) : life[gc[c].todo[i].o] = "live"
    /\ Swaps(c) => data[At(c)] # NULL

\* Swap-in has one reader per object, and a waiting request waits for a reader
\* that is at work on the same object.
OneSwapper ==
  /\ \A o \in Obj : data[o] \in Rq => pc[data[o]] = "swapin" /\ obj[data[o]] = o
  /\ \A r \in Rq : pc[r] = "swapin" => data[obj[r]] = r
  /\ \A r, q \in Rq : q \in waiter[r] =>
       /\ pc[q] = "wait" /\ obj[q] = obj[r]
       /\ pc[r] \in {"swapin", "notice", "count", "wake"}
  /\ \A q \in Rq : pc[q] = "wait" => \E r \in Rq : q \in waiter[r]

\* A request that goes on to send an object has its body in memory, and it
\* stays there until the request releases the object; of the requests that find
\* the body missing one reads it and the others wait for that one.
ServedHasBody ==
  /\ OneSwapper
  /\ \A r \in Rq :
       /\ pc[r] \in {"serve", "reval", "store"} =>
            data[obj[r]] = "mem" /\ (old_obj[r] # NULL => data[old_obj[r]] = "mem")
       /\ pc[r] = "drop" => data[old_obj[r]] = "mem"

\* An object whose body is not in memory can be read back: its cache file is
\* there unless rewriting its head failed on the way (swapout_failed).
DroppedHasFile ==
  \A o \in Range(hash) : data[o] # "mem" => o \in file \cup lost

\* The counters never wrap and never fall below what will be taken from them:
\* every object of the chain that carries a flag is counted, but for the swap-ins
\* between notice() and IncMemObjectSize (the assertions in DecMemObjectSize and
\* DecDiskObjectSize).
CountersCover ==
  /\ TypeOK
  /\ mem_count + Cardinality({r \in Rq : pc[r] = "count"})
       >= Cardinality({o \in Range(hash) : "IN_MEM" \in flags[o]})
  /\ disk_count >= Cardinality({o \in Range(hash) : "IN_DISK" \in flags[o]})

\* An object marked dead stays dead: clearing the objects of a URL (the comment
\* on KHttpObjectHash::purge) is not undone.  notice() can undo it.
DeadStaysDead == [][\A o \in Obj : "DEAD" \in flags[o] => "DEAD" \in flags'[o]]_vars

=============================================================================
