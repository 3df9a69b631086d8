-------------------------- MODULE SharedBigObject --------------------------
(***************************************************************************)
(* A large cached response that is still being downloaded                  *)
(* (KSharedBigObject, KBigObjectContext, KBigObjectStream).                *)
(*                                                                         *)
(* The cache file of the object holds some byte ranges, its blocks.        *)
(* Requests for the object send the cached ranges to their clients, fetch  *)
(* the missing ranges from the origin and write them into the file, and    *)
(* wait for each other's data.  Each request runs one main fiber (it talks *)
(* to the origin and writes) and at times a send fiber (it reads the file  *)
(* and writes to the client).  Every critical section of the object's      *)
(* kfiber_mutex is one action; what a fiber does outside the mutex is      *)
(* interleaved with the other fibers.                                      *)
(*                                                                         *)
(* Offsets count units of data, not bytes.                                 *)
(***************************************************************************)
EXTENDS Integers, FiniteSets

CONSTANTS
  Rq,              \* requests that may use the object
  NULL,            \* no fiber
  ContentLength,   \* obj->index.content_length
  MaxChunk,        \* largest piece the origin delivers, and io_buffer
  Ranges,          \* <<from, end>>: the byte ranges clients ask for, end excluded
  MaxFaults        \* how many I/O, origin and client failures a behaviour has

ASSUME SizesAssumption ==
  /\ ContentLength \in Nat \ {0}
  /\ MaxChunk \in Nat \ {0}
  /\ MaxFaults \in Nat

ASSUME RangesAssumption ==
  \A w \in Ranges : /\ w \in Nat \X Nat
                    /\ w[1] < w[2]
                    /\ w[2] <= ContentLength

ASSUME RequestsAssumption == IsFiniteSet(Rq) /\ NULL \notin Rq

Offset == 0 .. ContentLength

VARIABLES
  stored,         \* the object has been put in the cache
  blocks,         \* the rb-tree, as a function from file_block.from
  fp,             \* the shared file handle is open
  read_refs,
  write_refs,
  body_complete,
  in_disk,        \* FLAG_IN_DISK
  dead,           \* FLAG_DEAD: no new request finds the object
  published,      \* nobj, the completed BIG_OBJECT, is in the cache
  file,           \* the offsets whose data really is in the cache file
  progress,       \* the progress file: what save_progress wrote last
  pc,             \* where the main fiber of a request is
  rpc,            \* where its send_data() is
  creator,        \* the request runs with turnon_bigobj_response_body_function
  write_offset,   \* KBigObjectContext::write_offset
  offset,         \* KBigObjectReadContext::offset, the next offset to write
  fetch_end,      \* end of the range asked from the origin
  read_offset,    \* KBigObjectContext::read_offset
  read_end,       \* read_offset + left_read
  read_fiber_error,
  result,         \* KGL_RESULT of the main fiber
  send_result,    \* KGL_RESULT of send_data()
  aborted,        \* the assertion that failed and ended the process, or "no"
  faults

objVars == <<stored, body_complete, in_disk, dead, published, progress>>
shared == <<objVars, blocks, fp, read_refs, write_refs, file>>
mainVars == <<pc, creator, write_offset, offset, fetch_end,
              read_fiber_error, result>>
sendVars == <<rpc, read_offset, read_end, send_result>>
vars == <<shared, mainVars, sendVars, aborted, faults>>

Block == [to : Offset, read_point : Offset, net_fiber : Rq \cup {NULL},
          merged : SUBSET Rq, wait : SUBSET Rq]

Froms == DOMAIN blocks

PCs == {"idle", "turned_on", "satisfy", "direct", "fetch", "body", "wrote",
        "close", "release", "join", "sending", "done"}
RPCs == {"none", "start", "loop", "wait", "close", "exit"}
Results == {"ok", "err", "net", "fresh"}

\* The type invariant: every variable holds what its declaration says.
TypeOK ==
  /\ stored \in BOOLEAN /\ fp \in BOOLEAN /\ body_complete \in BOOLEAN
  /\ in_disk \in BOOLEAN /\ dead \in BOOLEAN /\ published \in BOOLEAN
  /\ aborted \in {"no", "store", "block"}
  /\ Froms \subseteq Offset
  /\ blocks \in [Froms -> Block]
  /\ DOMAIN progress \subseteq Offset
  /\ progress \in [DOMAIN progress -> Offset]
  /\ file \subseteq Offset
  /\ read_refs \in Int /\ write_refs \in Int
  /\ pc \in [Rq -> PCs]
  /\ rpc \in [Rq -> RPCs]
  /\ creator \in [Rq -> BOOLEAN]
  /\ write_offset \in [Rq -> Offset \cup {-1}]
  /\ offset \in [Rq -> Offset]
  /\ fetch_end \in [Rq -> Offset]
  /\ read_offset \in [Rq -> Offset]
  /\ read_end \in [Rq -> Offset]
  /\ read_fiber_error \in [Rq -> BOOLEAN]
  /\ result \in [Rq -> Results]
  /\ send_result \in [Rq -> Results]
  /\ faults \in 0 .. MaxFaults

Init ==
  /\ stored = FALSE /\ fp = FALSE /\ body_complete = FALSE
  /\ in_disk = FALSE /\ dead = FALSE /\ published = FALSE
  /\ aborted = "no"
  /\ blocks = [b \in {} |-> 0]
  /\ progress = [b \in {} |-> 0]
  /\ file = {}
  /\ read_refs = 0 /\ write_refs = 0
  /\ pc = [r \in Rq |-> "idle"]
  /\ rpc = [r \in Rq |-> "none"]
  /\ creator = [r \in Rq |-> FALSE]
  /\ write_offset = [r \in Rq |-> -1]
  /\ offset = [r \in Rq |-> 0]
  /\ fetch_end = [r \in Rq |-> 0]
  /\ read_offset = [r \in Rq |-> 0]
  /\ read_end = [r \in Rq |-> 0]
  /\ read_fiber_error = [r \in Rq |-> FALSE]
  /\ result = [r \in Rq |-> "ok"]
  /\ send_result = [r \in Rq |-> "ok"]
  /\ faults = 0

-----------------------------------------------------------------------------
(* The block tree *)

\* find_block_node: both ends of the block are searched as inside it.
Contains(b, o) == b <= o /\ o <= blocks[b].to

\* rb_next, and find_next_block_node when b is no block.
IsNext(b, c) == b < c /\ \A d \in Froms : b < d => c <= d

\* Where a fetch that starts at b must end: the next block, or the end (the one
\* member of a set, as in the definitions below).
GapEnds(b) == IF \E c \in Froms : b < c
              THEN {c \in Froms : IsNext(b, c)}
              ELSE {ContentLength}

EmptyBlock(o) == [to |-> o, read_point |-> 0, net_fiber |-> NULL,
                  merged |-> {}, wait |-> {}]

\* Mutant: the end of a block is taken to be outside it.
insertAtEnd(o) == IF \E b \in Froms : b <= o /\ o < blocks[b].to
                  THEN blocks
                  ELSE [b \in Froms \cup {o} |->
                          IF b = o THEN EmptyBlock(o) ELSE blocks[b]]

insert(o) == IF \E b \in Froms : Contains(b, o)
             THEN blocks
             ELSE [b \in Froms \cup {o} |->
                     IF b = o THEN EmptyBlock(o) ELSE blocks[b]]

\* Mutant: the readers of the successor are forgotten.
MergedWithoutReaders(b, c) ==
  [blocks[b] EXCEPT
     !.to = blocks[c].to,
     !.net_fiber = IF @ = NULL THEN blocks[c].net_fiber ELSE @,
     !.merged = @ \cup blocks[c].merged
                  \cup IF blocks[b].net_fiber # NULL
                       THEN {blocks[c].net_fiber}
                              \ {NULL, blocks[b].net_fiber}
                       ELSE {}]

\* The block of write() after it took over its successor c.
Merged(b, c) ==
  [blocks[b] EXCEPT
     !.to = blocks[c].to,
     !.wait = @ \cup blocks[c].wait,
     !.net_fiber = IF @ = NULL THEN blocks[c].net_fiber ELSE @,
     !.merged = @ \cup blocks[c].merged
                  \cup IF blocks[b].net_fiber # NULL
                       THEN {blocks[c].net_fiber}
                              \ {NULL, blocks[b].net_fiber}
                       ELSE {}]

\* Mutant: a block that starts one unit further on is merged as well.
ExtendedOverGap(b, end) ==
  IF \A c \in Froms : b < c => end + 1 < c
  THEN {[blocks EXCEPT ![b].to = end]}
  ELSE {[d \in Froms \ {c} |-> IF d = b THEN Merged(b, c) ELSE blocks[d]] :
          c \in {c \in Froms : IsNext(b, c)}}

\* The tree after block b has been extended to end: it takes over its successor
\* when it reaches it, at most one of them.
Extended(b, end) ==
  IF \A c \in Froms : b < c => end < c
  THEN {[blocks EXCEPT ![b].to = end]}
  ELSE {[d \in Froms \ {c} |-> IF d = b THEN Merged(b, c) ELSE blocks[d]] :
          c \in {c \in Froms : IsNext(b, c)}}

Min(a, b) == IF a < b THEN a ELSE b

\* An external call fails; the number of failures is bounded.
Fault == faults < MaxFaults /\ faults' = faults + 1
NoFault == UNCHANGED faults

\* KSharedBigObject::close, on the values its caller has just computed; the
\* last user saves the progress file, which may fail.
Close(reads, writes, disk) ==
  IF reads = 0 /\ writes = 0 /\ fp
  THEN /\ fp' = FALSE
       /\ \/ /\ progress' = IF disk THEN [b \in DOMAIN blocks' |-> blocks'[b].to]
                                    ELSE progress
             /\ NoFault
          \/ disk /\ Fault /\ UNCHANGED progress
  ELSE NoFault /\ UNCHANGED <<fp, progress>>

\* open_file_handle
OpenFileHandle == \/ fp' = TRUE /\ NoFault
                  \/ ~fp /\ fp' = FALSE /\ Fault

Running(r, p) == aborted = "no" /\ pc[r] = p
Sending(r, p) == aborted = "no" /\ rpc[r] = p
Goto(r, p) == pc' = [pc EXCEPT ![r] = p]
End(r, p, res) == Goto(r, p) /\ result' = [result EXCEPT ![r] = res]
SendGoto(r, p) == rpc' = [rpc EXCEPT ![r] = p]

-----------------------------------------------------------------------------
(* Entering: the response that creates the object, and cache hits *)

\* turn_on_bigobject up to store_obj.  A failing create() ends the request; a
\* cache that takes no object (cache.add fails) ends the process.
TurnOn(r, w) ==
  /\ Running(r, "idle")
  /\ ~stored
  /\ \/ /\ stored' = TRUE /\ fp' = TRUE /\ in_disk' = TRUE
        /\ creator' = [creator EXCEPT ![r] = TRUE]
        /\ read_offset' = [read_offset EXCEPT ![r] = w[1]]
        /\ read_end' = [read_end EXCEPT ![r] = w[2]]
        /\ fetch_end' = [fetch_end EXCEPT ![r] = w[2]]
        /\ Goto(r, "turned_on")
        /\ NoFault
        /\ UNCHANGED <<result, aborted>>
     \/ /\ Fault
        /\ \/ End(r, "done", "err") /\ UNCHANGED aborted
           \/ aborted' = "store" /\ UNCHANGED <<pc, result>>
        /\ UNCHANGED <<stored, fp, in_disk, creator, read_offset, read_end,
                       fetch_end>>
  /\ UNCHANGED <<blocks, read_refs, write_refs, body_complete, dead, published,
                 file, progress, rpc, write_offset, offset,
                 read_fiber_error, send_result>>

\* KSharedBigObject::open_write by r at offset o.
OpenWrite(r, o) ==
  /\ \E b \in DOMAIN insert(o) :
       /\ b <= o /\ o <= insert(o)[b].to
       /\ blocks' = [insert(o) EXCEPT ![b].net_fiber = r]
  /\ write_refs' = write_refs + 1
  /\ OpenFileHandle
  /\ write_offset' = [write_offset EXCEPT ![r] = o]

\* turn_on_bigobject from open_write on.
TurnOnOpenWrite(r) ==
  /\ Running(r, "turned_on")
  /\ OpenWrite(r, read_offset[r])
  /\ offset' = [offset EXCEPT ![r] = read_offset[r]]
  /\ Goto(r, "body")
  /\ UNCHANGED <<objVars, read_refs, file, creator, fetch_end,
                 read_fiber_error, result, sendVars, aborted>>

\* A request finds the object and starts open_cache.  When the validation of
\* verifiy_object fails the object is dead and the request goes elsewhere.
OpenCache(r, w) ==
  /\ Running(r, "idle")
  /\ stored /\ ~dead
  /\ read_offset' = [read_offset EXCEPT ![r] = w[1]]
  /\ read_end' = [read_end EXCEPT ![r] = w[2]]
  /\ \/ Goto(r, "satisfy") /\ NoFault /\ UNCHANGED <<dead, result>>
     \/ End(r, "done", "fresh") /\ Fault /\ dead' = TRUE
  /\ UNCHANGED <<stored, blocks, fp, read_refs, write_refs, body_complete,
                 in_disk, published, file, progress, rpc, creator, write_offset,
                 offset, fetch_end, read_fiber_error, send_result, aborted>>

\* can_satisfy = kgl_satisfy_all: the whole range is in the file.
SatisfyAll(r) ==
  \/ body_complete
  \/ \E b \in Froms :
       /\ Contains(b, read_offset[r])
       /\ blocks[b].to # read_offset[r]
       /\ blocks[b].to >= read_end[r]

\* create_if_range: where the data missing at o starts.
MissingFrom(o) == IF \E b \in Froms : Contains(b, o)
                  THEN {blocks[b].to : b \in {b \in Froms : Contains(b, o)}}
                  ELSE {o}

\* can_satisfy and create_if_range, then adjust_length: the request either
\* sends the file as it is or fetches the first range that is missing.
CanSatisfy(r) ==
  /\ Running(r, "satisfy")
  /\ \/ /\ SatisfyAll(r)
        /\ Goto(r, "direct")
        /\ UNCHANGED <<offset, fetch_end>>
     \/ /\ ~SatisfyAll(r)
        /\ Goto(r, "fetch")
        /\ \E start \in MissingFrom(read_offset[r]) : \E end \in GapEnds(start) :
             /\ offset' = [offset EXCEPT ![r] = start]
             /\ fetch_end' = [fetch_end EXCEPT ![r] = Min(read_end[r], end)]
  /\ UNCHANGED <<shared, creator, write_offset, read_fiber_error, result,
                 sendVars, aborted, faults>>

\* response_cache_object: the file is sent through a handle of its own.
SendCached(r) ==
  /\ Running(r, "direct")
  /\ \/ /\ read_offset' = [read_offset EXCEPT ![r] = read_end[r]]
        /\ End(r, "done", "ok") /\ NoFault
     \/ End(r, "done", "err") /\ Fault /\ UNCHANGED read_offset
  /\ UNCHANGED <<shared, creator, write_offset, offset, fetch_end,
                 read_fiber_error, rpc, read_end, send_result, aborted>>

-----------------------------------------------------------------------------
(* The main fiber: fetching a range and writing it *)

\* upstream_recv_headed: the origin answered 206 for the range asked.  A
\* request that read() has made the writer already holds its block.
UpstreamHeaded(r) ==
  /\ Running(r, "fetch")
  /\ Goto(r, "body")
  /\ \/ write_offset[r] = -1 /\ OpenWrite(r, offset[r])
     \/ /\ write_offset[r] # -1
        /\ UNCHANGED <<blocks, fp, write_refs, write_offset, faults>>
  /\ UNCHANGED <<objVars, read_refs, file, creator, offset, fetch_end,
                 read_fiber_error, result, sendVars, aborted>>

\* The origin fails before the header (process_check_final_source), answers
\* with an error (bigobj_error) or with another response (bigobj_dead); the
\* latter is sent as it is unless a body has been started.
UpstreamFailed(r) ==
  /\ Running(r, "fetch")
  /\ Fault
  /\ LET next == IF write_offset[r] = -1 THEN "done" ELSE "release"
     IN \/ End(r, next, "err") /\ UNCHANGED dead
        \/ End(r, next, "err") /\ dead' = TRUE
        \/ write_offset[r] = -1 /\ End(r, next, "fresh") /\ dead' = TRUE
  /\ UNCHANGED <<stored, blocks, fp, read_refs, write_refs, body_complete,
                 in_disk, published, file, progress, creator, write_offset,
                 offset, fetch_end, read_fiber_error, sendVars, aborted>>

\* Mutant: the whole write is copied, wherever in it the reader waits.
CopiedAll(q, o, n) ==
  IF o <= read_offset[q] /\ read_offset[q] < o + n
  THEN Min(Min(MaxChunk, read_end[q] - read_offset[q]), n)
  ELSE 0

\* The data a write of n units at o hands to waiter q through its buffer.
Copied(q, o, n) ==
  IF o <= read_offset[q] /\ read_offset[q] < o + n
  THEN Min(Min(MaxChunk, read_end[q] - read_offset[q]), o + n - read_offset[q])
  ELSE 0

\* send_data() of r after what precedes k has reached the client.
SentUpTo(r, k) == IF k < read_end[r] THEN "loop" ELSE "close"

\* Block b grows to o + n, takes over its successor, and the readers that can
\* go on are woken.  A woken reader sends what it was handed, which no other
\* fiber sees.
Grow(b, o, n) ==
  \E tree \in Extended(b, o + n) :
    LET woken == {q \in tree[b].wait : \/ read_offset[q] < tree[b].to
                                       \/ tree[b].net_fiber = NULL}
        sent == [q \in Rq |-> IF q \in woken
                              THEN read_offset[q] + Copied(q, o, n)
                              ELSE read_offset[q]]
    IN /\ blocks' = [tree EXCEPT ![b].wait = @ \ woken]
       /\ read_offset' = sent
       /\ rpc' = [q \in Rq |-> IF q \in woken THEN SentUpTo(q, sent[q])
                                              ELSE rpc[q]]

\* Mutant: a write inside the block moves its end too.
WriteBlockAlways(b, o, n) == Grow(b, o, n)

\* KSharedBigObject::write once the data is in the file.
WriteBlock(b, o, n) == IF o + n <= blocks[b].to
                       THEN UNCHANGED <<blocks, rpc, read_offset>>
                       ELSE Grow(b, o, n)

\* bo_write up to the end of stream_write.
BoWrite(r, n) ==
  /\ Running(r, "body")
  /\ ~read_fiber_error[r]
  /\ offset[r] + n <= fetch_end[r]
  /\ offset' = [offset EXCEPT ![r] = @ + n]
  /\ Goto(r, "wrote")
  /\ \/ /\ fp
        /\ file' = file \cup (offset[r] .. offset[r] + n - 1)
        /\ \/ /\ \E b \in Froms : Contains(b, offset[r])
                                  /\ WriteBlock(b, offset[r], n)
              /\ UNCHANGED aborted
           \/ /\ ~ \E b \in Froms : Contains(b, offset[r])
              /\ aborted' = "block"
              /\ UNCHANGED <<blocks, rpc, read_offset>>
        /\ NoFault
        /\ UNCHANGED read_fiber_error
     \/ /\ IF fp THEN Fault ELSE NoFault
        /\ read_fiber_error' = [read_fiber_error EXCEPT ![r] = TRUE]
        /\ UNCHANGED <<file, blocks, rpc, read_offset, aborted>>
  /\ UNCHANGED <<objVars, fp, read_refs, write_refs, creator, write_offset,
                 fetch_end, result, read_end, send_result>>

\* bo_write of a request whose send fiber has failed or exited.
BoWriteRefused(r) ==
  /\ Running(r, "body")
  /\ read_fiber_error[r]
  /\ offset[r] < fetch_end[r]
  /\ End(r, "close", "err")
  /\ UNCHANGED <<shared, creator, write_offset, offset, fetch_end,
                 read_fiber_error, sendVars, aborted, faults>>

\* The rest of bo_write: start the send fiber, or look whether it has exited.
BoWritten(r) ==
  /\ Running(r, "wrote")
  /\ LET return(res) == IF res = "ok" THEN End(r, "body", "ok")
                                      ELSE End(r, "close", res)
         written == IF read_fiber_error[r] THEN "err" ELSE "ok"
     IN \/ /\ rpc[r] = "none"
           /\ \/ SendGoto(r, "start") /\ return(written) /\ NoFault
              \/ Fault /\ return("err") /\ UNCHANGED rpc
           /\ UNCHANGED read_fiber_error
        \/ /\ rpc[r] = "exit"
           /\ SendGoto(r, "none")
           /\ read_fiber_error' = [read_fiber_error EXCEPT ![r] = TRUE]
           /\ return(IF written = "ok" THEN send_result[r] ELSE written)
           /\ NoFault
        \/ /\ rpc[r] \notin {"none", "exit"}
           /\ return(written)
           /\ NoFault
           /\ UNCHANGED <<rpc, read_fiber_error>>
  /\ UNCHANGED <<shared, creator, write_offset, offset, fetch_end, read_offset,
                 read_end, send_result, aborted>>

\* The origin's body ends; early, with or without an error, when it fails.
BodyEnd(r) ==
  /\ Running(r, "body")
  /\ \/ offset[r] = fetch_end[r] /\ End(r, "close", "ok") /\ NoFault
     \/ offset[r] < fetch_end[r] /\ Fault
          /\ \E res \in {"ok", "err"} : End(r, "close", res)
  /\ UNCHANGED <<shared, creator, write_offset, offset, fetch_end,
                 read_fiber_error, sendVars, aborted>>

\* The blocks close_write may leave for b when writer r stops.  The merged
\* writers take over in arrival order in the code, in any order here.
WriterRemoved(b, r) ==
  LET old == blocks[b]
      rest == IF old.net_fiber # r THEN {[old EXCEPT !.merged = @ \ {r}]}
              ELSE IF old.merged = {} THEN {[old EXCEPT !.net_fiber = NULL]}
              ELSE {[old EXCEPT !.net_fiber = m, !.merged = @ \ {m}] :
                      m \in old.merged}
  IN IF r \in old.merged \cup {old.net_fiber}
     THEN {IF new.net_fiber = NULL
           THEN [new EXCEPT !.read_point = b, !.wait = {}]
           ELSE new : new \in rest}
     ELSE {old}

\* Mutant: the last block is taken for the whole object.
IsLast(b) == blocks[b].to >= ContentLength

\* The whole object is in block b.
IsWhole(b) == b = 0 /\ blocks[b].to >= ContentLength

\* close_write of r: hand the block over, wake its readers when it was the last
\* writer, and replace a complete object by a BIG_OBJECT unless the cache
\* refuses it.
CloseWrite(r) ==
  /\ aborted = "no" /\ pc[r] \in {"close", "release"}
  /\ Goto(r, IF pc[r] = "close" THEN "join" ELSE "done")
  /\ write_offset' = [write_offset EXCEPT ![r] = -1]
  /\ write_refs' = write_refs - 1
  /\ \E b \in Froms : \E new \in WriterRemoved(b, r) :
       /\ Contains(b, write_offset[r])
       /\ blocks' = [blocks EXCEPT ![b] = new]
       /\ rpc' = [q \in Rq |-> IF q \in blocks[b].wait \ new.wait THEN "loop"
                                                                ELSE rpc[q]]
       /\ body_complete' = (body_complete \/ IsWhole(b))
       /\ IF IsWhole(b) /\ ~body_complete
          THEN /\ \/ published' = TRUE /\ in_disk' = FALSE
                  \/ UNCHANGED <<published, in_disk>>
               /\ dead' = TRUE
          ELSE UNCHANGED <<published, in_disk, dead>>
  /\ Close(read_refs, write_refs - 1, in_disk')
  /\ UNCHANGED <<stored, read_refs, file, creator, offset, fetch_end,
                 read_fiber_error, result, read_offset, read_end,
                 send_result, aborted>>

\* Mutant: a request that ran out of cached data is not resumed.
JoinAndStop(r) ==
  /\ Running(r, "join")
  /\ rpc[r] \in {"none", "exit"}
  /\ LET res == IF rpc[r] = "exit" /\ result[r] = "ok" THEN send_result[r]
                                                      ELSE result[r]
     IN End(r, "done", res) /\ SendGoto(r, "none")
  /\ UNCHANGED <<shared, creator, write_offset, offset, fetch_end,
                 read_fiber_error, read_offset, read_end, send_result,
                 aborted, faults>>

\* The end of bo_close_write, then turn_on_bo_close for the creator and the
\* loop of internal_fetch for the others.
Join(r) ==
  /\ Running(r, "join")
  /\ rpc[r] \in {"none", "exit"}
  /\ LET res == IF rpc[r] = "exit" /\ result[r] = "ok" THEN send_result[r]
                                                      ELSE result[r]
     IN IF creator[r] \/ res # "ok" \/ read_offset[r] = read_end[r]
        THEN End(r, "done", res) /\ SendGoto(r, "none")
        ELSE End(r, "sending", res) /\ SendGoto(r, "start")
  /\ UNCHANGED <<shared, creator, write_offset, offset, fetch_end,
                 read_fiber_error, read_offset, read_end, send_result,
                 aborted, faults>>

\* internal_fetch after its own send_data: fetch the next range or stop.
Sent(r) ==
  /\ Running(r, "sending")
  /\ rpc[r] = "exit"
  /\ SendGoto(r, "none")
  /\ IF send_result[r] = "net" THEN End(r, "fetch", "ok")
                               ELSE End(r, "done", send_result[r])
  /\ UNCHANGED <<shared, creator, write_offset, offset, fetch_end,
                 read_fiber_error, read_offset, read_end, send_result,
                 aborted, faults>>

-----------------------------------------------------------------------------
(* send_data(), by the send fiber or (pc = "sending") by the main fiber *)

SendEnd(r, p, res) == /\ SendGoto(r, p)
                      /\ send_result' = [send_result EXCEPT ![r] = res]

\* Preparing the client's body, and open_read.
OpenRead(r) ==
  /\ Sending(r, "start")
  /\ \/ /\ SendEnd(r, "exit", "err") /\ Fault
        /\ UNCHANGED <<read_refs, fp>>
     \/ /\ SendEnd(r, "loop", "ok")
        /\ read_refs' = read_refs + 1
        /\ OpenFileHandle
  /\ UNCHANGED <<objVars, blocks, write_refs, file, mainVars, read_offset,
                 read_end, aborted>>

\* read() when the handle is missing, or the file cannot be read, or the client
\* does not take the data.
ReadFailed(r) ==
  /\ Sending(r, "loop")
  /\ IF fp THEN Fault ELSE NoFault
  /\ SendEnd(r, "close", "err")
  /\ UNCHANGED <<shared, mainVars, read_offset, read_end, aborted>>

\* read() of a send fiber at an offset no block contains.
ReadNoBlock(r) ==
  /\ Sending(r, "loop")
  /\ fp /\ pc[r] # "sending"
  /\ ~ \E b \in Froms : Contains(b, read_offset[r])
  /\ SendEnd(r, "close", "ok")
  /\ UNCHANGED <<shared, mainVars, read_offset, read_end, aborted, faults>>

\* Mutant: the watermark is where the reader will be after this read.
WatermarkAfter(o, point) == IF point < o + MaxChunk THEN o + MaxChunk ELSE point

\* The read_point of a block whose read_point was point, read at o.
Watermark(o, point) == IF point < o THEN o ELSE point

\* read() in block b of tree: what is there is sent,
ReadData(r, tree, b) ==
  LET o == read_offset[r]
      length == Min(Min(MaxChunk, read_end[r] - o), tree[b].to - o)
  IN /\ o < tree[b].to
     /\ blocks' = [tree EXCEPT ![b].read_point = Watermark(o, @)]
     /\ read_offset' = [read_offset EXCEPT ![r] = o + length]
     /\ SendGoto(r, SentUpTo(r, o + length))
     /\ UNCHANGED <<write_refs, send_result, write_offset, offset, fetch_end>>

\* a send fiber stops where nobody writes,
ReadStop(r, tree, b) ==
  /\ read_offset[r] = tree[b].to /\ tree[b].net_fiber = NULL
  /\ pc[r] # "sending"
  /\ blocks' = [tree EXCEPT ![b].read_point = Watermark(read_offset[r], @)]
  /\ SendEnd(r, "close", "ok")
  /\ UNCHANGED <<write_refs, read_offset, write_offset, offset, fetch_end>>

\* Mutant: the main fiber tries again instead.
ReadAgain(r, tree, b) ==
  /\ read_offset[r] = tree[b].to /\ tree[b].net_fiber = NULL
  /\ pc[r] = "sending"
  /\ blocks' = [tree EXCEPT ![b].read_point = Watermark(read_offset[r], @)]
  /\ UNCHANGED <<write_refs, read_offset, write_offset, offset, fetch_end,
                 rpc, send_result>>

\* the main fiber becomes the writer there,
ReadTakeOver(r, tree, b) ==
  /\ read_offset[r] = tree[b].to /\ tree[b].net_fiber = NULL
  /\ pc[r] = "sending"
  /\ blocks' = [tree EXCEPT ![b].read_point = Watermark(read_offset[r], @),
                            ![b].net_fiber = r]
  /\ SendEnd(r, "close", "net")
  /\ write_refs' = write_refs + 1
  /\ write_offset' = [write_offset EXCEPT ![r] = read_offset[r]]
  /\ offset' = [offset EXCEPT ![r] = read_offset[r]]
  /\ \E end \in GapEnds(b) : fetch_end' = [fetch_end EXCEPT ![r] = end]
  /\ UNCHANGED read_offset

\* and everybody else waits for the writer.
ReadWait(r, tree, b) ==
  /\ read_offset[r] = tree[b].to /\ tree[b].net_fiber # NULL
  /\ blocks' = [tree EXCEPT ![b].read_point = Watermark(read_offset[r], @),
                            ![b].wait = @ \cup {r}]
  /\ SendGoto(r, "wait")
  /\ UNCHANGED <<write_refs, send_result, read_offset, write_offset, offset,
                 fetch_end>>

\* KSharedBigObject::read; the main fiber may add the block it will fill.
Read(r) ==
  /\ Sending(r, "loop")
  /\ fp
  /\ LET tree == IF pc[r] = "sending" THEN insert(read_offset[r]) ELSE blocks
     IN \E b \in DOMAIN tree : /\ b <= read_offset[r]
                               /\ read_offset[r] <= tree[b].to
                               /\ \/ ReadData(r, tree, b) \/ ReadStop(r, tree, b)
                                  \/ ReadTakeOver(r, tree, b) \/ ReadWait(r, tree, b)
  /\ UNCHANGED <<objVars, fp, read_refs, file, pc, creator, read_fiber_error,
                 result, read_end, aborted, faults>>

\* Mutant: the reference of the reader is kept.
CloseReadLeaks(r) ==
  /\ Sending(r, "close")
  /\ SendGoto(r, "exit")
  /\ UNCHANGED <<shared, mainVars, read_offset, read_end, send_result, aborted,
                 faults>>

\* close_read
CloseRead(r) ==
  /\ Sending(r, "close")
  /\ SendGoto(r, "exit")
  /\ read_refs' = read_refs - 1
  /\ UNCHANGED blocks
  /\ Close(read_refs - 1, write_refs, in_disk)
  /\ UNCHANGED <<stored, body_complete, in_disk, dead, published, write_refs,
                 file, mainVars, read_offset, read_end, send_result, aborted>>

-----------------------------------------------------------------------------
(* Losing the memory of the object *)

\* swapin_proress and restore: the tree the progress file describes.
Restored == [b \in DOMAIN progress |-> [EmptyBlock(b) EXCEPT !.to = progress[b]]]

Using(r) == pc[r] \notin {"idle", "done"}

\* The collector drops the body of an unused object and a later request swaps
\* it in again; without a progress file the object is dead.
SwapOutAndIn ==
  /\ aborted = "no"
  /\ stored /\ ~dead
  /\ \A r \in Rq : ~Using(r)
  /\ blocks' = Restored
  /\ body_complete' = FALSE
  /\ dead' = (DOMAIN progress = {})
  /\ UNCHANGED <<stored, fp, read_refs, write_refs, in_disk, published, file,
                 progress, mainVars, sendVars, aborted, faults>>

\* The worker dies at any point and another one starts.  An index entry that
\* was not yet updated to the completed object describes the old one.
Crash ==
  /\ stored
  /\ Fault
  /\ blocks' = Restored
  /\ fp' = FALSE /\ read_refs' = 0 /\ write_refs' = 0
  /\ body_complete' = FALSE
  /\ in_disk' = TRUE
  /\ \E kept \in {published, FALSE} :
       published' = kept /\ dead' = (kept \/ DOMAIN progress = {})
  /\ aborted' = "no"
  /\ pc' = [r \in Rq |-> IF Using(r) THEN "done" ELSE pc[r]]
  /\ rpc' = [r \in Rq |-> "none"]
  /\ result' = [r \in Rq |-> IF Using(r) THEN "err" ELSE result[r]]
  /\ write_offset' = [r \in Rq |-> -1]
  /\ UNCHANGED <<stored, file, progress, creator, offset, fetch_end,
                 read_fiber_error, read_offset, read_end, send_result>>

-----------------------------------------------------------------------------
MainStep(r) ==
  \/ TurnOnOpenWrite(r) \/ CanSatisfy(r) \/ SendCached(r)
  \/ UpstreamHeaded(r) \/ UpstreamFailed(r)
  \/ \E n \in 1 .. MaxChunk : BoWrite(r, n)
  \/ BoWriteRefused(r) \/ BoWritten(r) \/ BodyEnd(r)
  \/ CloseWrite(r) \/ Join(r) \/ Sent(r)

SendStep(r) ==
  \/ OpenRead(r) \/ ReadFailed(r) \/ ReadNoBlock(r) \/ Read(r)
  \/ CloseRead(r)

\* Nothing is left to do: every request has ended or never came, or an
\* assertion ended the process.
Finished == /\ aborted # "no" \/ \A r \in Rq : ~Using(r)
            /\ UNCHANGED vars

Next == \/ \E r \in Rq : \/ \E w \in Ranges : TurnOn(r, w) \/ OpenCache(r, w)
                         \/ MainStep(r)
                         \/ SendStep(r)
        \/ SwapOutAndIn
        \/ Crash
        \/ Finished

\* Fibers are scheduled fairly; an origin or a client that stops answering is
\* timed out, which is one of the failures of MainStep and SendStep.
Fairness == \A r \in Rq : WF_vars(MainStep(r)) /\ WF_vars(SendStep(r))

Spec == Init /\ [][Next]_vars /\ Fairness

-----------------------------------------------------------------------------
(* Safety *)

\* The blocks are disjoint, in order and not even adjacent: what every search
\* of the tree (find_block_node, insert, rb_next) relies on.
BlocksSeparated ==
  /\ \A b \in Froms : b <= blocks[b].to
  /\ \A b, c \in Froms : b < c => blocks[b].to < c

Recorded == UNION {b .. blocks[b].to - 1 : b \in Froms}

\* What the blocks record, now and after the next restart, is in the file, and
\* so is the range of a request that is answered from the file alone.
CachedBytesOnDisk ==
  /\ Recorded \subseteq file
  /\ \A b \in DOMAIN progress : b .. progress[b] - 1 \subseteq file
  /\ \A r \in Rq : pc[r] = "direct" => read_offset[r] .. read_end[r] - 1 \subseteq file

Writing(r) == write_offset[r] # -1

\* Every waiting reader is in the queue of the block that ends where it reads, and
\* a block with waiting readers has a writer that is still going to close_write in
\* that block, so nobody waits forever; merged writers only exist behind one.
WaitersHaveWriter ==
  /\ \A r \in Rq : rpc[r] = "wait" <=>
       \E b \in Froms : r \in blocks[b].wait /\ blocks[b].to = read_offset[r]
  /\ \A b \in Froms :
       /\ blocks[b].net_fiber = NULL => blocks[b].wait = {} /\ blocks[b].merged = {}
       /\ \A r \in blocks[b].merged \cup ({blocks[b].net_fiber} \ {NULL}) :
            Writing(r) /\ Contains(b, write_offset[r])

\* The counters agree with the fibers that hold the object open, and the handle
\* is closed when they are all gone.
RefsCountFibers ==
  /\ write_refs = Cardinality({r \in Rq : Writing(r)})
  /\ read_refs = Cardinality({r \in Rq : rpc[r] \in {"loop", "wait", "close"}})
  /\ fp /\ read_refs = 0 /\ write_refs = 0 => \E r \in Rq : pc[r] = "turned_on"

\* The completed object is only published with all its data on disk.
PublishedComplete == published => 0 .. ContentLength - 1 \subseteq file

\* A cache hit that ends well has sent all that was asked for.
OkMeansAll ==
  \A r \in Rq : pc[r] = "done" /\ result[r] = "ok" /\ ~creator[r]
                   => read_offset[r] = read_end[r]

\* preloaded_length is never negative (assertion of write()).
ReadersBehindWriter == \A b \in Froms : blocks[b].read_point <= blocks[b].to

\* What a step sends to a client is in the file: no client is sent a hole.
SentBytesOnDisk ==
  [][\A r \in Rq : rpc[r] \in {"loop", "wait"} =>
       read_offset[r] .. read_offset'[r] - 1 \subseteq file']_vars

\* A step never makes the tree forget data, except losing the memory of it.
NothingForgotten ==
  [][SwapOutAndIn \/ Crash \/ Recorded \subseteq Recorded']_vars

(* Liveness *)

\* Every request that found the object ends, unless the process is gone.
EveryRequestEnds == \A r \in Rq : Using(r) ~> (~Using(r) \/ aborted # "no")

-----------------------------------------------------------------------------
(* What the code says of itself *)

\* assert(node) of write(): the block a writer extends is there.
WriterFindsBlock == aborted # "block"

\* "This fiber owns the network writer for the block until close_write()."
\* (KSharedBigObject.cpp:159): a request that is writing owns a block, or the
\* block it was merged into.
OwnerWhileWriting ==
  \A r \in Rq : Writing(r) =>
    \E b \in Froms : r \in blocks[b].merged \cup {blocks[b].net_fiber}
=============================================================================
