----------------------------- MODULE DiskIndex -----------------------------
(***************************************************************************)
(* The disk side of the cache: the files, the rows of the index database    *)
(* and the worker thread that writes them (KDiskCacheIndex,                 *)
(* KSqliteDiskCacheIndex), the objects that own the files (KHttpObject),    *)
(* the two ways a file is written (the collector's swap-out and a request's *)
(* KDiskCacheStream), the rescan thread and the start and stop of the disk  *)
(* cache (KDiskCache, shutdown_fiber).  The process may crash at any step.  *)
(*                                                                         *)
(* A file name is given out once.  Slot 1 of a name is the object that      *)
(* wrote the file or was loaded from its row; slot 2 the one a rescan makes *)
(* when it meets the file while no cached object claims it.                 *)
(***************************************************************************)
EXTENDS Naturals, FiniteSets, SequencesExt

CONSTANTS
  Name,        \* file names, each used once
  AutoFlush,   \* AUTO_FLUSH_COUNT
  Backlog,     \* bound: operations that wait when the collector asks for a flush
  MaxEvents    \* bound: crashes, shutdowns and rescans asked for

VARIABLES
  head,       \* [Name -> {"absent", "blank", "live", "dead"}]: a file and its header
  full,       \* names whose file holds the whole body
  used,       \* names given out (disk_file_base, disk_file_index)
  obj,        \* [Slot -> Objects]
  queue,      \* the worker's queue
  db,         \* committed rows
  applied,    \* operations of the open transaction
  inTxn,      \* a transaction is open
  count,      \* transaction_count
  index,      \* "off": no process, "open", "closed": db == NULL, "gone": dci == NULL
  shut,       \* KCache::disk_shutdown
  indexFile,  \* the database file exists
  stopping,   \* next step of shutdown_fiber: "no", "sync", "close", "wait", "exit"
  need,       \* index_scan_state.need_index_progress, kept on disk
  left,       \* names the rescan has not visited yet (first_index, second_index)
  scanning,   \* index_progress
  events,     \* bound: crashes, shutdowns and rescans so far
  astray      \* history: names the rescan met in somebody's hands or cut short,
              \* names the cache refused, and names visited by a rescan that
              \* the end of the process cut off

fileVars  == <<head, full>>
dbVars    == <<db, applied, inTxn, count>>
runVars   == <<index, shut, indexFile, stopping>>
scanVars  == <<need, left, scanning>>
vars      == <<fileVars, used, obj, queue, dbVars, runVars, scanVars,
               events, astray>>

Slot == Name \X (1 .. 2)

\* Where an object is.  "cached": in the hash and idle; "open", "closed",
\* "stored": a request's stream; "pick", "writing", "written", "sent": the
\* collector's swap-out; "update": the swap-out of an object that is on disk
\* already; "scanned": just added by the rescan; "dropped", "unlink": the
\* destructor.
InHash == {"cached", "stored", "pick", "writing", "written", "sent", "update",
           "scanned"}
Stages == InHash \cup {"free", "open", "closed", "dropped", "unlink"}
Objects == [at : Stages, disk : BOOLEAN, dead : BOOLEAN, dirty : BOOLEAN,
            body : BOOLEAN]

Free == [at |-> "free", disk |-> FALSE, dead |-> FALSE, dirty |-> FALSE,
         body |-> FALSE]
OnDisk(at, dead) == [Free EXCEPT !.at = at, !.disk = TRUE, !.dead = dead]

\* Operations that wait: those of the open transaction, then the queued ones,
\* up to a ci_close after which the worker has no database.
DataOps == {"add", "update", "del"}
IsData(p)  == p.op \in DataOps
IsClose(p) == p.op = "close"
Waiting ==
  LET alive == IF \E i \in DOMAIN queue : IsClose(queue[i])
               THEN SubSeq(queue, 1, SelectInSeq(queue, IsClose) - 1) ELSE queue
  IN  IF index = "open" THEN applied \o SelectSeq(alive, IsData) ELSE <<>>

Abstract == INSTANCE DurableIndex
              WITH durable <- db, pending <- Waiting, up <- index # "off"

Running == index # "off"
Hands   == {"open", "closed", "writing", "written", "sent", "dropped", "unlink"}

-----------------------------------------------------------------------------
(* KDiskCacheIndex::start.  The index of the object is copied here, not when
   the worker runs.  Nothing is queued once dci is deleted. *)

Op(op, s) == [op |-> op, name |-> s[1], dead |-> obj[s].dead]
Cmd(op)   == [op |-> op]
Start(ops) == queue' = IF index = "gone" THEN queue ELSE queue \o ops

Move(s, at) == obj' = [obj EXCEPT ![s].at = at]

-----------------------------------------------------------------------------
(* A request stores a response: in memory, or through KDiskCacheStream. *)

StoreInMemory(f) ==
  /\ Running /\ f \notin used
  /\ used' = used \cup {f}
  /\ obj' = [obj EXCEPT ![f, 1] = [Free EXCEPT !.at = "cached", !.body = TRUE]]
  /\ UNCHANGED <<fileVars, queue, dbVars, runVars, scanVars, events, astray>>

StreamOpen(f) ==
  /\ index \in {"open", "closed"} /\ ~shut /\ f \notin used
  /\ used' = used \cup {f}
  /\ obj' = [obj EXCEPT ![f, 1] = [Free EXCEPT !.at = "open", !.body = TRUE]]
  /\ head' = [head EXCEPT ![f] = "blank"]
  /\ UNCHANGED <<full, queue, dbVars, runVars, scanVars, events, astray>>

\* The header is written last; a stream that fails removes its file.  A file
\* the rescan has unlinked meanwhile stays unlinked.
StreamClose(s) ==
  /\ obj[s].at = "open"
  /\ \/ /\ obj' = [obj EXCEPT ![s].at = "closed", ![s].disk = TRUE]
        /\ head' = [head EXCEPT ![s[1]] = IF @ = "absent" THEN @ ELSE "live"]
        /\ full' = IF head[s[1]] = "absent" THEN full ELSE full \cup {s[1]}
     \/ /\ obj' = [obj EXCEPT ![s] = Free]
        /\ head' = [head EXCEPT ![s[1]] = "absent"]
        /\ UNCHANGED full
  /\ UNCHANGED <<used, queue, dbVars, runVars, scanVars, events, astray>>

\* stored_obj: the cache takes the object, or refuses and it is destroyed.
StreamStore(s) ==
  /\ obj[s].at = "closed"
  /\ Move(s, "stored") \/ Move(s, "dropped")
  /\ UNCHANGED <<fileVars, used, queue, dbVars, runVars, scanVars, events, astray>>

StreamAdd(s) ==
  /\ obj[s].at = "stored"
  /\ Start(<<Op("add", s)>>)
  /\ Move(s, "cached")
  /\ UNCHANGED <<fileVars, used, dbVars, runVars, scanVars, events, astray>>

-----------------------------------------------------------------------------
(* Purges, and requests that read an object back. *)

Dead(s) ==
  /\ obj[s].at \in InHash /\ ~obj[s].dead
  /\ obj' = [obj EXCEPT ![s].dead = TRUE, ![s].dirty = TRUE]
  /\ UNCHANGED <<fileVars, used, queue, dbVars, runVars, scanVars, events, astray>>

\* A file that is gone, has no header or is too short makes the object dead,
\* without dc_index_update.
SwapIn(s) ==
  /\ obj[s].at = "cached" /\ obj[s].disk /\ ~obj[s].body /\ ~obj[s].dead
  /\ obj' = IF s[1] \in full /\ head[s[1]] # "absent"
            THEN [obj EXCEPT ![s].body = TRUE]
            ELSE [obj EXCEPT ![s].dead = TRUE]
  /\ UNCHANGED <<fileVars, used, queue, dbVars, runVars, scanVars, events, astray>>

-----------------------------------------------------------------------------
(* The collector: KObjectList::move picks under the lock, then writes one
   object after the other. *)

Collecting == \E s \in Slot : obj[s].at \in {"writing", "written", "sent", "update"}

\* A dead object, or one the disk has no room for, leaves the cache.
Evict(s) ==
  /\ obj[s].at \in {"cached", "pick"} /\ ~Collecting
  /\ Move(s, "dropped")
  /\ UNCHANGED <<fileVars, used, queue, dbVars, runVars, scanVars, events, astray>>

Pick(s) ==
  /\ obj[s].at = "cached" /\ obj[s].body /\ ~obj[s].dead /\ ~shut /\ ~Collecting
  /\ Move(s, "pick")
  /\ UNCHANGED <<fileVars, used, queue, dbVars, runVars, scanVars, events, astray>>

\* swapout_result: the object gives up its body, or keeps it when a request
\* uses it.
Swapped(s, o) == \E b \in {FALSE, o.body} :
                   obj' = [obj EXCEPT ![s] = [o EXCEPT !.at = "cached", !.body = b]]
NotSwapped(s, o) == \E at \in {"dropped", "cached"} :
                      obj' = [obj EXCEPT ![s] = [o EXCEPT !.at = at]]

\* KHttpObject::swapout of an object that is on disk: nothing to do, or the
\* row, then the header.
SwapUpdate(s) ==
  /\ obj[s].at = "pick" /\ obj[s].disk /\ ~Collecting
  /\ LET o == [obj[s] EXCEPT !.dirty = FALSE] IN
       IF ~obj[s].dirty
       THEN Swapped(s, o) /\ UNCHANGED queue
       ELSE /\ Start(<<Op("update", s)>>)
            /\ IF shut THEN NotSwapped(s, o)
                       ELSE obj' = [obj EXCEPT ![s] = [o EXCEPT !.at = "update"]]
  /\ UNCHANGED <<fileVars, used, dbVars, runVars, scanVars, events, astray>>

\* The header is rewritten in place; when that fails the file is unlinked.
SwapHeader(s) ==
  /\ obj[s].at = "update"
  /\ \/ /\ head' = [head EXCEPT ![s[1]] = IF obj[s].dead THEN "dead" ELSE "live"]
        /\ Swapped(s, obj[s])
        /\ UNCHANGED full
     \/ /\ head' = [head EXCEPT ![s[1]] = "absent"]
        /\ full' = full \ {s[1]}
        /\ NotSwapped(s, obj[s])
  /\ UNCHANGED <<used, queue, dbVars, runVars, scanVars, events, astray>>

\* The header of a new file reaches the disk before the body.
SwapOpen(s) ==
  /\ obj[s].at = "pick" /\ ~obj[s].disk /\ ~Collecting
  /\ LET o == [obj[s] EXCEPT !.dirty = FALSE] IN
       IF shut
       THEN NotSwapped(s, o) /\ UNCHANGED head
       ELSE /\ head' = [head EXCEPT ![s[1]] = IF o.dead THEN "dead" ELSE "live"]
            /\ obj' = [obj EXCEPT ![s] = [o EXCEPT !.at = "writing"]]
  /\ UNCHANGED <<full, used, queue, dbVars, runVars, scanVars, events, astray>>

\* A twin that was destroyed meanwhile has unlinked the file.
SwapClose(s) ==
  /\ obj[s].at = "writing"
  /\ \/ /\ full' = IF head[s[1]] = "absent" THEN full ELSE full \cup {s[1]}
        /\ Move(s, "written")
        /\ UNCHANGED head
     \/ /\ head' = [head EXCEPT ![s[1]] = "absent"]
        /\ NotSwapped(s, obj[s])
        /\ UNCHANGED full
  /\ UNCHANGED <<used, queue, dbVars, runVars, scanVars, events, astray>>

SwapAdd(s) ==
  /\ obj[s].at = "written"
  /\ Start(<<Op("add", s)>>)
  /\ Move(s, "sent")
  /\ UNCHANGED <<fileVars, used, dbVars, runVars, scanVars, events, astray>>

SwapResult(s) ==
  /\ obj[s].at = "sent"
  /\ Swapped(s, [obj[s] EXCEPT !.disk = TRUE])
  /\ UNCHANGED <<fileVars, used, queue, dbVars, runVars, scanVars, events, astray>>

\* Mutant: the file goes, the row stays.
DestroyFileOnly(s) ==
  /\ obj[s].at = "dropped"
  /\ IF obj[s].disk THEN Move(s, "unlink") ELSE obj' = [obj EXCEPT ![s] = Free]
  /\ UNCHANGED <<fileVars, used, queue, dbVars, runVars, scanVars, events, astray>>

\* ~KHttpObject, unlinkDiskFile: the row, then the file.
Destroy(s) ==
  /\ obj[s].at = "dropped"
  /\ IF obj[s].disk
     THEN Start(<<Op("del", s)>>) /\ Move(s, "unlink")
     ELSE obj' = [obj EXCEPT ![s] = Free] /\ UNCHANGED queue
  /\ UNCHANGED <<fileVars, used, dbVars, runVars, scanVars, events, astray>>

Unlink(s) ==
  /\ obj[s].at = "unlink"
  /\ obj' = [obj EXCEPT ![s] = Free]
  /\ head' = [head EXCEPT ![s[1]] = "absent"]
  /\ full' = full \ {s[1]}
  /\ UNCHANGED <<used, queue, dbVars, runVars, scanVars, events, astray>>

-----------------------------------------------------------------------------
(* KDiskCacheIndex::work: the one worker thread. *)

\* COMMIT and BEGIN; without a database they do nothing.
Committed == IF index = "open" THEN Abstract!Replay(db, applied) ELSE db

\* Rows of the operation at the head of the queue after a possible automatic
\* flush; outside a transaction each operation commits by itself.
DataStep(p) ==
  LET flush == count > AutoFlush
      rows  == IF flush THEN Committed ELSE db
      txn   == IF flush THEN <<>> ELSE applied
      open  == IF flush THEN index = "open" ELSE inTxn
  IN  /\ count' = (IF flush THEN 0 ELSE count) + 1
      /\ inTxn' = open
      /\ db' = IF index = "open" /\ ~open THEN Abstract!Apply(rows, p) ELSE rows
      /\ applied' = IF index = "open" /\ open THEN Append(txn, p) ELSE txn

\* Mutant: a flush waits for as many operations as the automatic one.
FlushStepLate ==
  IF count > AutoFlush
  THEN db' = Committed /\ applied' = <<>> /\ inTxn' = (index = "open") /\ count' = 0
  ELSE UNCHANGED dbVars

FlushStep ==
  IF count > 0
  THEN db' = Committed /\ applied' = <<>> /\ inTxn' = (index = "open") /\ count' = 0
  ELSE UNCHANGED dbVars

\* Mutant: the database is closed inside its transaction.
CloseStepUncommitted ==
  /\ applied' = <<>> /\ inTxn' = FALSE /\ index' = "closed"
  /\ count' = IF count > AutoFlush THEN 0 ELSE count
  /\ UNCHANGED db

CloseStep ==
  /\ db' = Committed /\ applied' = <<>> /\ inTxn' = FALSE
  /\ count' = IF count > AutoFlush THEN 0 ELSE count
  /\ index' = "closed"

\* An index that fails its check is recreated and the files are rescanned;
\* otherwise each row makes an object, unless the cache refuses it.
LoadStep ==
  /\ shut' = FALSE /\ inTxn' = TRUE
  /\ \/ /\ events > 0
        /\ db' = Abstract!Empty
        /\ need' = TRUE /\ left' = Name
        /\ UNCHANGED <<obj, astray>>
     \/ \E refused \in SUBSET {f \in Name : db[f] # "none"} :
          /\ obj' = [s \in Slot |->
                       IF s[2] = 1 /\ db[s[1]] # "none" /\ s[1] \notin refused
                       THEN OnDisk("cached", db[s[1]] = "dead") ELSE obj[s]]
          /\ astray' = astray \cup refused
          /\ UNCHANGED <<db, need, left>>
  /\ UNCHANGED <<applied, count>>

Work ==
  /\ index \in {"open", "closed"} /\ queue # <<>>
  /\ queue' = Tail(queue)
  /\ LET p == Head(queue) IN
       \/ /\ IsData(p) /\ DataStep(p)
          /\ UNCHANGED <<obj, index, shut, need, left, astray>>
       \/ /\ p.op = "flush" /\ FlushStep
          /\ UNCHANGED <<obj, index, shut, need, left, astray>>
       \/ /\ p.op = "close" /\ CloseStep
          /\ UNCHANGED <<obj, shut, need, left, astray>>
       \/ /\ p.op = "load" /\ LoadStep
          /\ UNCHANGED index
  /\ UNCHANGED <<fileVars, used, indexFile, stopping, scanning, events>>

\* The collector asks for a flush every round.
Flush ==
  /\ index \in {"open", "closed"} /\ ~shut /\ Len(queue) <= Backlog
  /\ Start(<<Cmd("flush")>>)
  /\ UNCHANGED <<fileVars, used, obj, dbVars, runVars, scanVars, events, astray>>

-----------------------------------------------------------------------------
(* init_disk_cache, shutdown_fiber with saveCacheIndex, and crashes. *)

\* A database file that cannot be opened is replaced by a new one, like one that
\* fails its check when it is loaded.
Boot ==
  /\ index = "off" /\ index' = "open" /\ indexFile' = TRUE
  /\ \/ /\ shut' = indexFile
        /\ queue' = IF indexFile THEN <<Cmd("load")>> ELSE <<>>
        /\ UNCHANGED <<db, need, left>>
     \/ /\ indexFile /\ events > 0
        /\ shut' = FALSE
        /\ db' = Abstract!Empty
        /\ need' = TRUE /\ left' = Name
        /\ UNCHANGED queue
  /\ UNCHANGED <<fileVars, used, obj, applied, inTxn, count, stopping, scanning,
                 events, astray>>

ShutdownDisk ==
  /\ index = "open" /\ stopping = "no" /\ events < MaxEvents
  /\ stopping' = "sync" /\ shut' = TRUE /\ events' = events + 1
  /\ UNCHANGED <<fileVars, used, obj, queue, dbVars, index, indexFile, scanVars, astray>>

\* KCache::syncDisk: the mark is taken off every object, the row is updated
\* only for those that have their body.
SyncDisk ==
  /\ stopping = "sync" /\ stopping' = "close"
  /\ LET marked == {s \in Slot : obj[s].at \in InHash /\ obj[s].disk /\ obj[s].dirty}
         update(s) == Op("update", s)
         ops == SetToSeq({update(s) : s \in {x \in marked : obj[x].body}})
     IN  /\ obj' = [s \in Slot |-> IF s \in marked THEN [obj[s] EXCEPT !.dirty = FALSE]
                                                  ELSE obj[s]]
         /\ Start(ops)
  /\ UNCHANGED <<fileVars, used, dbVars, index, shut, indexFile, scanVars, events,
                 astray>>

CloseIndex ==
  /\ stopping = "close" /\ stopping' = "wait"
  /\ Start(<<Cmd("close")>>)
  /\ UNCHANGED <<fileVars, used, obj, dbVars, index, shut, indexFile, scanVars,
                 events, astray>>

DeleteIndex ==
  /\ stopping = "wait" /\ queue = <<>>
  /\ stopping' = "exit" /\ index' = "gone"
  /\ UNCHANGED <<fileVars, used, obj, queue, dbVars, shut, indexFile, scanVars,
                 events, astray>>

\* The process ends, by exit or by a crash.  Objects and queue are gone, the
\* files, the committed rows and the state of the rescan stay.
End ==
  /\ obj' = [s \in Slot |-> Free]
  /\ queue' = <<>> /\ applied' = <<>> /\ inTxn' = FALSE /\ count' = 0
  /\ index' = "off" /\ shut' = TRUE /\ stopping' = "no" /\ scanning' = FALSE
  /\ astray' = astray \cup (IF need THEN Name \ left ELSE {})
  /\ UNCHANGED <<fileVars, used, db, indexFile, need, left>>

Exit  == stopping = "exit" /\ End /\ UNCHANGED events
Crash == Running /\ events < MaxEvents /\ End /\ events' = events + 1

-----------------------------------------------------------------------------
(* The rescan: rescan_disk_cache, scan_disk_cache and its thread. *)

Rescan ==
  /\ Running /\ events < MaxEvents
  /\ need' = TRUE /\ left' = Name /\ events' = events + 1
  /\ UNCHANGED <<fileVars, used, obj, queue, dbVars, runVars, scanning, astray>>

ScanStart ==
  /\ Running /\ need /\ ~scanning /\ ~shut
  /\ scanning' = TRUE
  /\ UNCHANGED <<fileVars, used, obj, queue, dbVars, runVars, need, left, events,
                 astray>>

\* KHttpObjectHash::FindByFilename: only objects with FLAG_IN_DISK claim a file.
Claimed(f) == \E s \in Slot : s[1] = f /\ obj[s].at \in InHash /\ obj[s].disk

\* create_file_index: a file without a valid header is unlinked, one that an
\* object claims is left alone, any other gets an object; if the cache refuses
\* it the file is unlinked.
Headed(f) == head[f] \in {"live", "dead"}

ScanFile(f) ==
  /\ scanning /\ f \in left
  /\ left' = left \ {f}
  /\ \/ /\ head[f] = "absent" \/ (Headed(f) /\ Claimed(f))
        /\ UNCHANGED <<fileVars, obj>>
     \/ /\ head[f] = "blank" \/ (Headed(f) /\ ~Claimed(f))
        /\ head' = [head EXCEPT ![f] = "absent"]
        /\ full' = full \ {f}
        /\ UNCHANGED obj
     \/ /\ Headed(f) /\ ~Claimed(f)
        /\ \E i \in 1 .. 2 :
             /\ obj[f, i].at = "free" /\ (i = 2 => obj[f, 1].at # "free")
             /\ obj' = [obj EXCEPT ![f, i] = OnDisk("scanned", head[f] = "dead")]
        /\ UNCHANGED fileVars
  /\ astray' = IF \/ \E s \in Slot : s[1] = f /\ obj[s].at \in Hands
                  \/ Headed(f) /\ (f \notin full \/ head'[f] = "absent")
               THEN astray \cup {f} ELSE astray
  /\ UNCHANGED <<used, queue, dbVars, runVars, need, scanning, events>>

ScanAdd(s) ==
  /\ obj[s].at = "scanned"
  /\ Start(<<Op("add", s)>>)
  /\ Move(s, "cached")
  /\ UNCHANGED <<fileVars, used, dbVars, runVars, scanVars, events, astray>>

\* Out of the disk work time the thread stops and the next round resumes it.
ScanPause ==
  /\ scanning /\ left # {} /\ scanning' = FALSE
  /\ UNCHANGED <<fileVars, used, obj, queue, dbVars, runVars, need, left, events,
                 astray>>

\* Mutant: a rescan that stopped for the time of day is taken for complete.
ScanDoneEarly ==
  /\ scanning /\ ~\E s \in Slot : obj[s].at = "scanned"
  /\ need' = FALSE /\ scanning' = FALSE
  /\ UNCHANGED <<fileVars, used, obj, queue, dbVars, runVars, left, events, astray>>

ScanDone ==
  /\ scanning /\ left = {} /\ ~\E s \in Slot : obj[s].at = "scanned"
  /\ need' = FALSE /\ scanning' = FALSE
  /\ UNCHANGED <<fileVars, used, obj, queue, dbVars, runVars, left, events, astray>>

-----------------------------------------------------------------------------
Init ==
  /\ head = [f \in Name |-> "absent"] /\ full = {} /\ used = {}
  /\ obj = [s \in Slot |-> Free]
  /\ queue = <<>> /\ db = Abstract!Empty /\ applied = <<>> /\ inTxn = FALSE /\ count = 0
  /\ index = "off" /\ shut = TRUE /\ indexFile = FALSE /\ stopping = "no"
  /\ need = FALSE /\ left = {} /\ scanning = FALSE
  /\ events = 0 /\ astray = {}

Next ==
  \/ \E f \in Name : StoreInMemory(f) \/ StreamOpen(f) \/ ScanFile(f)
  \/ \E s \in Slot :
       \/ StreamClose(s) \/ StreamStore(s) \/ StreamAdd(s)
       \/ Dead(s) \/ SwapIn(s)
       \/ Evict(s) \/ Pick(s) \/ SwapUpdate(s) \/ SwapHeader(s) \/ SwapOpen(s)
       \/ SwapClose(s) \/ SwapAdd(s) \/ SwapResult(s)
       \/ Destroy(s) \/ Unlink(s) \/ ScanAdd(s)
  \/ Work \/ Flush
  \/ Boot \/ ShutdownDisk \/ SyncDisk \/ CloseIndex \/ DeleteIndex \/ Exit \/ Crash
  \/ Rescan \/ ScanStart \/ ScanPause \/ ScanDone

\* The worker thread and the collector's rounds keep running while the process
\* does; a shutdown under way goes on.
Fairness == /\ WF_vars(Work) /\ WF_vars(Flush)
            /\ WF_vars(CloseIndex) /\ WF_vars(SyncDisk)

Spec == Init /\ [][Next]_vars /\ Fairness

-----------------------------------------------------------------------------
\* The type invariant; operations wait for a commit only inside a transaction.
TypeOK ==
  /\ head \in [Name -> {"absent", "blank", "live", "dead"}]
  /\ full \subseteq used /\ used \subseteq Name
  /\ obj \in [Slot -> Objects]
  /\ db \in Abstract!Rows
  /\ index \in {"off", "open", "closed", "gone"}
  /\ left \subseteq Name /\ astray \subseteq Name
  /\ {shut, indexFile, need, scanning, inTxn} \subseteq BOOLEAN
  /\ (index # "open" \/ ~inTxn) => applied = <<>>

\* The rows as the worker sees them.
View == Abstract!Replay(db, applied)

\* Nobody is half way through an operation on the open disk cache.
Quiet ==
  /\ index = "open" /\ ~shut /\ queue = <<>>
  /\ \A s \in Slot : obj[s].at \in {"free", "cached", "pick"}

\* While the disk cache is quiet the index has a row for exactly the files that a
\* cached object claims: every path that sets or clears FLAG_IN_DISK (swap-out,
\* stream, load, rescan, destructor) has told the index so, in an order that
\* leaves the right row.  And a committed row never names a file that is still
\* being written: whenever the process crashes, a row that is found again stands
\* for a whole file or for one removed since, never for a cut-off one.  Not
\* claimed of names the rescan met in somebody's hands or cut short, names the
\* cache refused to take, and names a rescan visited before a crash.
RowsMatchFiles ==
  /\ TypeOK
  /\ \A f \in Name \ astray :
       /\ Quiet => ((View[f] # "none") <=> Claimed(f))
       /\ db[f] # "none" => f \in full \/ head[f] = "absent"

\* A rescan that runs to its end leaves no file behind: each file with a header
\* belongs to an object in the cache or in somebody's hands.
ScanFindsAll ==
  [][ScanDone => \A f \in Name \ astray :
       head[f] # "absent" => \E s \in Slot : s[1] = f /\ obj[s].at # "free"]_vars

\* The index implements DurableIndex: after a crash its rows are the effect of
\* a prefix of the operations in the order they were started, and no operation
\* is lost while the process lives.
Durable == Abstract!Spec

\* A file that is removed loses its row for good, also on disk: the periodic
\* flush or the close commits the deletion, unless the process ends before.
RowGoesWithFile ==
  \A s \in Slot :
    (obj[s].at = "unlink" /\ index = "open" /\ ~\E i \in DOMAIN queue : IsClose(queue[i]))
      ~> (db[s[1]] = "none" \/ index = "off" \/ s[1] \in astray)
=============================================================================
