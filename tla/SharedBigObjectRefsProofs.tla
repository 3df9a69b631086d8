---------------------- MODULE SharedBigObjectRefsProofs ----------------------
(***************************************************************************)
(* The reference counters of a shared object count the fibers that have it *)
(* open.                                                                   *)
(***************************************************************************)
EXTENDS SharedBigObjectProofs, FiniteSetTheorems

USE SizesAssumption, RequestsAssumption DEF Offset

-----------------------------------------------------------------------------
(* The reference counters *)

Reads == {"loop", "wait", "close"}
Readers(p) == {q \in Rq : p[q] \in Reads}
Writers(w) == {q \in Rq : w[q] # -1}
TurnedOn(p) == \E q \in Rq : p[q] = "turned_on"

Counted(wr, rr, w, p) ==
  wr = Cardinality(Writers(w)) /\ rr = Cardinality(Readers(p))

LEMMA RefsAre ==
  RefsCountFibers <=> /\ Counted(write_refs, read_refs, write_offset, rpc)
                      /\ fp /\ read_refs = 0 /\ write_refs = 0 => TurnedOn(pc)
BY Zenon DEF RefsCountFibers, Counted, Writers, Readers, Reads, TurnedOn, Writing

\* A step that opens and closes nothing.
SameUsers ==
  \A q \in Rq : /\ write_offset'[q] # -1 <=> write_offset[q] # -1
                /\ rpc'[q] \in Reads <=> rpc[q] \in Reads

LEMMA SameUsersCounted ==
  ASSUME RefsCountFibers, SameUsers, UNCHANGED <<read_refs, write_refs>>,
         fp' => fp \/ TurnedOn(pc'), TurnedOn(pc) => TurnedOn(pc')
  PROVE  RefsCountFibers'
<1>1. Writers(write_offset') = Writers(write_offset) /\ Readers(rpc') = Readers(rpc)
  BY Zenon DEF SameUsers, Writers, Readers
<1>2. Counted(write_refs', read_refs', write_offset', rpc')
  BY <1>1, RefsAre, Zenon DEF Counted
<1>3. fp' /\ read_refs' = 0 /\ write_refs' = 0 => TurnedOn(pc')
  BY RefsAre, Zenon
<1> QED BY <1>2, <1>3, Zenon DEF RefsCountFibers, Counted, Writers, Readers, Reads, TurnedOn,
             Writing

\* Nothing the counters speak of changes, r leaves no turn_on_bigobject.
LEMMA QuietRefs ==
  ASSUME RefsCountFibers, SameUsers, UNCHANGED <<read_refs, write_refs, fp>>,
         \A q \in Rq : pc[q] = "turned_on" => pc'[q] = "turned_on"
  PROVE  RefsCountFibers'
BY SameUsersCounted, Zenon DEF TurnedOn

\* open_write: one writer more.
LEMMA WriterCounted ==
  ASSUME RefsCountFibers, NEW r \in Rq, write_offset \in [Rq -> Int], write_offset[r] = -1,
         NEW o \in Nat, write_offset' = [write_offset EXCEPT ![r] = o],
         write_refs' = write_refs + 1, read_refs' = read_refs,
         \A q \in Rq : rpc'[q] \in Reads <=> rpc[q] \in Reads
  PROVE  RefsCountFibers'
<1>1. Writers(write_offset') = Writers(write_offset) \cup {r} /\ r \notin Writers(write_offset)
  BY DEF Writers
<1>2. Readers(rpc') = Readers(rpc)
  BY Zenon DEF Readers
<1>3. IsFiniteSet(Writers(write_offset))
  BY FS_Subset, Zenon DEF Writers
<1>4. /\ Cardinality(Writers(write_offset')) = Cardinality(Writers(write_offset)) + 1
      /\ Cardinality(Writers(write_offset)) \in Nat
  BY <1>1, <1>3, FS_AddElement, FS_CardinalityType, Zenon
<1>5. Counted(write_refs', read_refs', write_offset', rpc')
  BY <1>2, <1>4, RefsAre, Zenon DEF Counted
<1>6. write_refs' # 0
  BY <1>4, RefsAre, SMTT(30) DEF Counted
<1> QED BY <1>5, <1>6, Zenon DEF RefsCountFibers, Counted, Writers, Readers, Reads, Writing

\* open_read: one reader more.
LEMMA ReaderCounted ==
  ASSUME RefsCountFibers, NEW r \in Rq, rpc \in [Rq -> RPCs], rpc[r] = "start",
         rpc' = [rpc EXCEPT ![r] = "loop"],
         read_refs' = read_refs + 1, UNCHANGED <<write_refs, write_offset>>
  PROVE  RefsCountFibers'
<1>1. Readers(rpc') = Readers(rpc) \cup {r} /\ r \notin Readers(rpc)
  BY Zenon DEF Readers, Reads
<1>3. IsFiniteSet(Readers(rpc))
  BY FS_Subset, Zenon DEF Readers
<1>4. /\ Cardinality(Readers(rpc')) = Cardinality(Readers(rpc)) + 1
      /\ Cardinality(Readers(rpc)) \in Nat
  BY <1>1, <1>3, FS_AddElement, FS_CardinalityType, Zenon
<1>5. Counted(write_refs', read_refs', write_offset', rpc')
  BY <1>4, RefsAre, Zenon DEF Counted
<1>6. read_refs' # 0
  BY <1>4, RefsAre DEF Counted
<1> QED BY <1>5, <1>6, Zenon DEF RefsCountFibers, Counted, Writers, Readers, Reads, Writing

\* close() of the last user closes the handle.
LEMMA CloseHandle ==
  ASSUME NEW i, NEW j, NEW d, Close(i, j, d), read_refs' = i, write_refs' = j
  PROVE  fp' => ~(read_refs' = 0 /\ write_refs' = 0)
BY Zenon DEF Close

LEMMA CloseWriteCounted ==
  ASSUME TreeInv, FiberInv, RefsCountFibers, NEW r \in Rq, CloseWrite(r)
  PROVE  RefsCountFibers'
<1>1. /\ pc[r] \in {"close", "release"} /\ write_refs' = write_refs - 1 /\ read_refs' = read_refs
      /\ write_offset' = [write_offset EXCEPT ![r] = -1]
      /\ Close(read_refs, write_refs - 1, in_disk')
  BY Zenon DEF CloseWrite
<1>2. write_offset[r] # -1 /\ FiberTypes
  BY <1>1, FiberTyped, Zenon DEF FiberInv, Places, PlaceOK
<1>3. \A q \in Rq : rpc'[q] \in Reads <=> rpc[q] \in Reads
  <2>1. PICK b \in Froms : \E new \in WriterRemoved(b, r) :
          rpc' = [q \in Rq |-> IF q \in blocks[b].wait \ new.wait THEN "loop" ELSE rpc[q]]
    BY Zenon DEF CloseWrite
  <2>2. PICK new \in WriterRemoved(b, r) :
          rpc' = [q \in Rq |-> IF q \in blocks[b].wait \ new.wait THEN "loop" ELSE rpc[q]]
    BY <2>1, Zenon
  <2>3. \A q \in blocks[b].wait : rpc[q] = "wait"
    BY Zenon DEF FiberInv, WaitsIn, Froms
  <2> QED BY <2>2, <2>3, Zenon DEF Reads
<1>4. Writers(write_offset') = Writers(write_offset) \ {r} /\ r \in Writers(write_offset)
  BY <1>1, <1>2, Zenon DEF Writers, FiberTypes
<1>5. IsFiniteSet(Writers(write_offset))
  BY FS_Subset, Zenon DEF Writers
<1>6. /\ Cardinality(Writers(write_offset')) = Cardinality(Writers(write_offset)) - 1
      /\ Cardinality(Writers(write_offset)) \in Nat
  BY <1>4, <1>5, FS_RemoveElement, FS_CardinalityType, SMTT(30)
<1>7. Readers(rpc') = Readers(rpc)
  BY <1>3, Zenon DEF Readers
<1>8. Counted(write_refs', read_refs', write_offset', rpc')
  BY <1>1, <1>6, <1>7, RefsAre, Zenon DEF Counted
<1>9. fp' => ~(read_refs' = 0 /\ write_refs' = 0)
  BY <1>1, CloseHandle, Zenon
<1> QED BY <1>8, <1>9, Zenon DEF RefsCountFibers, Counted, Writers, Readers, Reads, Writing

LEMMA CloseReadCounted ==
  ASSUME TreeInv, FiberInv, RefsCountFibers, NEW r \in Rq, CloseRead(r)
  PROVE  RefsCountFibers'
<1>1. /\ rpc[r] = "close" /\ read_refs' = read_refs - 1 /\ rpc' = [rpc EXCEPT ![r] = "exit"]
      /\ UNCHANGED <<write_refs, write_offset>>
      /\ Close(read_refs - 1, write_refs, in_disk)
  BY Zenon DEF CloseRead, Sending, SendGoto, mainVars
<1>2. FiberTypes
  BY FiberTyped, Zenon
<1>4. Readers(rpc') = Readers(rpc) \ {r} /\ r \in Readers(rpc)
  BY <1>1, <1>2, Zenon DEF Readers, Reads, FiberTypes
<1>5. IsFiniteSet(Readers(rpc))
  BY FS_Subset, Zenon DEF Readers
<1>6. /\ Cardinality(Readers(rpc')) = Cardinality(Readers(rpc)) - 1
      /\ Cardinality(Readers(rpc)) \in Nat
  BY <1>4, <1>5, FS_RemoveElement, FS_CardinalityType, SMTT(30)
<1>8. Counted(write_refs', read_refs', write_offset', rpc')
  BY <1>1, <1>6, RefsAre, Zenon DEF Counted
<1>9. fp' => ~(read_refs' = 0 /\ write_refs' = 0)
  BY <1>1, CloseHandle, Zenon
<1> QED BY <1>8, <1>9, Zenon DEF RefsCountFibers, Counted, Writers, Readers, Reads, Writing

\* The steps of the main fiber that open and close nothing.
LEMMA MainCounted ==
  ASSUME TreeInv, FiberInv, RefsCountFibers, NEW r \in Rq,
         \/ CanSatisfy(r) \/ SendCached(r) \/ UpstreamFailed(r) \/ BoWriteRefused(r)
         \/ BoWritten(r) \/ BodyEnd(r) \/ Join(r) \/ Sent(r)
  PROVE  RefsCountFibers'
<1>0. FiberTypes
  BY FiberTyped, Zenon
<1>1. UNCHANGED <<read_refs, write_refs, fp, write_offset>>
  BY Zenon DEF CanSatisfy, SendCached, UpstreamFailed, BoWriteRefused, BoWritten, BodyEnd, Join,
               Sent, shared
<1>2. pc[r] # "turned_on" /\ \A q \in Rq \ {r} : pc'[q] = pc[q]
  BY <1>0, Zenon DEF CanSatisfy, SendCached, UpstreamFailed, BoWriteRefused, BoWritten,
               BodyEnd, Join, Sent, Running, Goto, End, FiberTypes
<1>3. SameUsers
  <2>1. CASE rpc' = rpc
    BY <1>1, <2>1, Zenon DEF SameUsers
  <2>2. CASE /\ rpc[r] \in {"none", "exit"}
             /\ \E p \in {"none", "start"} : rpc' = [rpc EXCEPT ![r] = p]
    BY <1>0, <1>1, <2>2, Zenon DEF SameUsers, Reads, FiberTypes
  <2>3. CASE BoWritten(r) \/ Join(r) \/ Sent(r)
    BY <1>0, <2>1, <2>2, <2>3, Zenon DEF BoWritten, Join, Sent, SendGoto
  <2>4. CASE CanSatisfy(r) \/ SendCached(r) \/ UpstreamFailed(r) \/ BoWriteRefused(r) \/ BodyEnd(r)
    BY <2>1, <2>4, Zenon DEF CanSatisfy, SendCached, UpstreamFailed, BoWriteRefused, BodyEnd,
                sendVars
  <2> QED BY <2>3, <2>4, Zenon
<1>4. \A q \in Rq : pc[q] = "turned_on" => pc'[q] = "turned_on"
  BY <1>2, Zenon
<1> QED BY <1>1, <1>3, <1>4, QuietRefs, Zenon

\* A request finds the object or makes it.
LEMMA FindCounted ==
  ASSUME TreeInv, FiberInv, RefsCountFibers, NEW r \in Rq, NEW w \in Ranges,
         TurnOn(r, w) \/ OpenCache(r, w)
  PROVE  RefsCountFibers'
<1>0. FiberTypes
  BY FiberTyped, Zenon
<1>1. UNCHANGED <<read_refs, write_refs, write_offset, rpc>>
  BY Zenon DEF TurnOn, OpenCache
<1>2. pc[r] = "idle" /\ \A q \in Rq \ {r} : pc'[q] = pc[q]
  BY <1>0, Zenon DEF TurnOn, OpenCache, Running, Goto, End, FiberTypes
<1>3. fp' = fp \/ pc'[r] = "turned_on"
  BY <1>0, Zenon DEF TurnOn, OpenCache, Goto, FiberTypes
<1>4. SameUsers
  BY <1>1, Zenon DEF SameUsers
<1>5. fp' => fp \/ TurnedOn(pc')
  BY <1>3, Zenon DEF TurnedOn
<1>6. TurnedOn(pc) => TurnedOn(pc')
  BY <1>2, Zenon DEF TurnedOn
<1> QED BY <1>1, <1>4, <1>5, <1>6, SameUsersCounted, Zenon

\* open_write by the main fiber.
LEMMA OpenWriteCounted ==
  ASSUME TreeInv, FiberInv, RefsCountFibers, NEW r \in Rq, TurnOnOpenWrite(r) \/ UpstreamHeaded(r)
  PROVE  RefsCountFibers'
<1>0. /\ FiberTypes /\ PlaceOK(r) /\ offset[r] \in Offset /\ read_offset[r] \in Offset
      /\ write_offset \in [Rq -> Int]
  <2>1. /\ FiberTypes /\ PlaceOK(r) /\ offset[r] \in Offset /\ read_offset[r] \in Offset
    BY FiberTyped, Zenon DEF FiberInv, Places, TreeInv, ValuesOK
  <2>2. Offset \cup {-1} \subseteq Int
    OBVIOUS
  <2> QED BY <2>1, <2>2, Zenon DEF FiberTypes
<1>1. /\ UNCHANGED <<read_refs, rpc>>
      /\ pc' = [pc EXCEPT ![r] = "body"]
  BY ZenonT(30) DEF TurnOnOpenWrite, UpstreamHeaded, sendVars, Goto
<1>2. \/ write_offset[r] = -1 /\ \E o \in Offset : OpenWrite(r, o)
      \/ /\ pc[r] = "fetch" /\ UNCHANGED <<fp, write_refs, write_offset>>
  BY <1>0, Zenon DEF TurnOnOpenWrite, UpstreamHeaded, PlaceOK, Running
<1>3. ASSUME write_offset[r] = -1, NEW o \in Offset, OpenWrite(r, o) PROVE RefsCountFibers'
  <2>1. write_refs' = write_refs + 1 /\ write_offset' = [write_offset EXCEPT ![r] = o] /\ o \in Nat
    BY <1>3, SMTT(30) DEF OpenWrite
  <2> QED BY <1>0, <1>1, <1>3, <2>1, WriterCounted, Zenon
<1>4. CASE pc[r] = "fetch" /\ UNCHANGED <<fp, write_refs, write_offset>>
  <2>1. SameUsers
    BY <1>1, <1>4, Zenon DEF SameUsers
  <2>2. \A q \in Rq : pc[q] = "turned_on" => pc'[q] = "turned_on"
    BY <1>0, <1>1, <1>4, Zenon DEF FiberTypes
  <2> QED BY <1>1, <1>4, <2>1, <2>2, QuietRefs, Zenon
<1> QED BY <1>2, <1>3, <1>4, Zenon

\* bo_write wakes readers, which stay readers.
LEMMA BoWriteCounted ==
  ASSUME TreeInv, FiberInv, RefsCountFibers, NEW r \in Rq, NEW n \in 1 .. MaxChunk, BoWrite(r, n)
  PROVE  RefsCountFibers'
<1>0. FiberTypes
  BY FiberTyped, Zenon
<1>1. /\ pc[r] = "body" /\ pc' = [pc EXCEPT ![r] = "wrote"]
      /\ UNCHANGED <<write_offset, fp, read_refs, write_refs>>
  BY Zenon DEF BoWrite, Running, Goto
<1>2. /\ offset[r] \in Offset /\ offset[r] + n <= fetch_end[r] /\ fetch_end[r] \in Offset
  BY Zenon DEF BoWrite, TreeInv, ValuesOK
<1>3. offset[r] + n \in Offset
  BY <1>2
<1>4. \/ UNCHANGED <<blocks, rpc, read_offset>>
      \/ \E b \in Froms : Contains(b, offset[r]) /\ WriteBlock(b, offset[r], n)
  BY Zenon DEF BoWrite
<1>5. WokenOrSame
  <2>1. CASE UNCHANGED <<blocks, rpc, read_offset>>
    BY <2>1, Zenon DEF WokenOrSame
  <2>2. ASSUME NEW b \in Froms, WriteBlock(b, offset[r], n), ~ UNCHANGED <<blocks, rpc, read_offset>>
        PROVE  WokenOrSame
    <3>1. blocks[b].to \in Int /\ offset[r] \in Int /\ n \in Int
      BY <1>2, TreeOfInv, SMTT(30) DEF IsTree, Block, Froms
    <3>2. blocks[b].to < offset[r] + n /\ Grow(b, offset[r], n)
      BY <2>2, <3>1, SMTT(30) DEF WriteBlock
    <3> QED BY <1>2, <1>3, <2>2, <3>2, GrowFibers, Zenon
  <2> QED BY <1>4, <2>1, <2>2, Zenon
<1>6. SameUsers
  BY <1>1, <1>5, Zenon DEF SameUsers, WokenOrSame, Reads
<1>7. \A q \in Rq : pc[q] = "turned_on" => pc'[q] = "turned_on"
  BY <1>0, <1>1, Zenon DEF FiberTypes
<1> QED BY <1>1, <1>6, <1>7, QuietRefs, Zenon

\* send_data()
LEMMA SendCounted ==
  ASSUME TreeInv, FiberInv, RefsCountFibers, NEW r \in Rq,
         OpenRead(r) \/ ReadFailed(r) \/ ReadNoBlock(r) \/ Read(r)
  PROVE  RefsCountFibers'
<1>0. FiberTypes /\ PlaceOK(r) /\ write_offset \in [Rq -> Int]
  <2>1. Offset \cup {-1} \subseteq Int
    OBVIOUS
  <2> QED BY <2>1, FiberTyped, Zenon DEF FiberInv, Places, FiberTypes
<1>1. UNCHANGED pc
  BY Zenon DEF OpenRead, ReadFailed, ReadNoBlock, Read, mainVars
<1>2. ASSUME SameUsers, UNCHANGED <<read_refs, write_refs, fp>> PROVE RefsCountFibers'
  BY <1>1, <1>2, QuietRefs, Zenon
<1>3. CASE OpenRead(r)
  <2>1. UNCHANGED <<write_refs, write_offset>> /\ rpc[r] = "start"
    BY <1>3, Zenon DEF OpenRead, mainVars, Sending
  <2>2. \/ rpc' = [rpc EXCEPT ![r] = "exit"] /\ UNCHANGED <<read_refs, fp>>
        \/ rpc' = [rpc EXCEPT ![r] = "loop"] /\ read_refs' = read_refs + 1
    BY <1>3, Zenon DEF OpenRead, SendEnd, SendGoto
  <2>3. ASSUME rpc' = [rpc EXCEPT ![r] = "exit"] PROVE SameUsers
    BY <1>0, <2>1, <2>3, Zenon DEF SameUsers, Reads, FiberTypes
  <2>4. ASSUME rpc' = [rpc EXCEPT ![r] = "loop"], read_refs' = read_refs + 1 PROVE RefsCountFibers'
    BY <1>0, <2>1, <2>4, ReaderCounted, Zenon DEF FiberTypes
  <2> QED BY <1>2, <2>1, <2>2, <2>3, <2>4, Zenon
<1>4. CASE ReadFailed(r) \/ ReadNoBlock(r)
  <2>1. /\ UNCHANGED <<read_refs, write_refs, fp, write_offset>> /\ rpc[r] = "loop"
        /\ rpc' = [rpc EXCEPT ![r] = "close"]
    BY <1>4, Zenon DEF ReadFailed, ReadNoBlock, mainVars, shared, SendEnd, SendGoto, Sending
  <2>2. SameUsers
    BY <1>0, <2>1, Zenon DEF SameUsers, Reads, FiberTypes
  <2> QED BY <1>2, <2>1, <2>2, Zenon
<1>5. CASE Read(r)
  <2>1. rpc[r] = "loop" /\ UNCHANGED <<read_refs, fp>>
    BY <1>5, Zenon DEF Read, Sending
  <2>2. \E t, b : \/ ReadData(r, t, b) \/ ReadStop(r, t, b) \/ ReadTakeOver(r, t, b)
                  \/ ReadWait(r, t, b)
    BY <1>5, Zenon DEF Read
  <2>3. ASSUME NEW t, NEW b, ReadData(r, t, b) \/ ReadStop(r, t, b) \/ ReadWait(r, t, b)
        PROVE  RefsCountFibers'
    <3>1. UNCHANGED <<write_refs, write_offset>>
      BY <2>3, Zenon DEF ReadData, ReadStop, ReadWait
    <3>2. \E p \in Reads : rpc' = [rpc EXCEPT ![r] = p]
      BY <2>3, Zenon DEF ReadData, ReadStop, ReadWait, SendEnd, SendGoto, SentUpTo, Reads
    <3>3. SameUsers
      BY <1>0, <2>1, <3>1, <3>2, Zenon DEF SameUsers, Reads, FiberTypes
    <3> QED BY <1>2, <2>1, <3>1, <3>3, Zenon
  <2>4. ASSUME NEW t, NEW b, ReadTakeOver(r, t, b) PROVE RefsCountFibers'
    <3>1. /\ pc[r] = "sending" /\ rpc' = [rpc EXCEPT ![r] = "close"]
          /\ write_refs' = write_refs + 1
          /\ write_offset' = [write_offset EXCEPT ![r] = read_offset[r]]
      BY <2>4, Zenon DEF ReadTakeOver, SendEnd, SendGoto
    <3>2. write_offset[r] = -1 /\ read_offset[r] \in Nat
      BY <1>0, <2>1, <3>1, SMTT(30) DEF PlaceOK, FiberTypes
    <3>3. \A q \in Rq : rpc'[q] \in Reads <=> rpc[q] \in Reads
      BY <1>0, <2>1, <3>1, Zenon DEF Reads, FiberTypes
    <3> QED BY <1>0, <2>1, <3>1, <3>2, <3>3, WriterCounted, Zenon
  <2> QED BY <2>2, <2>3, <2>4, Zenon
<1> QED BY <1>3, <1>4, <1>5, Zenon

\* The object is lost from memory.
LEMMA RestoreCounted ==
  ASSUME RefsCountFibers, SwapOutAndIn \/ Crash
  PROVE  RefsCountFibers'
<1>1. CASE SwapOutAndIn
  <2>1. UNCHANGED <<read_refs, write_refs, fp, pc, rpc, write_offset>>
    BY <1>1, Zenon DEF SwapOutAndIn, mainVars, sendVars
  <2>2. SameUsers
    BY <2>1, Zenon DEF SameUsers
  <2> QED BY <2>1, <2>2, QuietRefs, Zenon
<1>2. CASE Crash
  <2>1. /\ read_refs' = 0 /\ write_refs' = 0 /\ fp' = FALSE
        /\ rpc' = [q \in Rq |-> "none"] /\ write_offset' = [q \in Rq |-> -1]
    BY <1>2, Zenon DEF Crash
  <2>2. {q \in Rq : write_offset'[q] # -1} = {} /\ {q \in Rq : rpc'[q] \in {"loop", "wait", "close"}} = {}
    BY <2>1, Zenon
  <2>3. Cardinality({}) = 0
    BY FS_EmptySet, Zenon
  <2> QED BY <2>1, <2>2, <2>3, Zenon DEF RefsCountFibers, Writing
<1> QED BY <1>1, <1>2, Zenon

LEMMA RefsCountInit == Init => RefsCountFibers
<1> SUFFICES ASSUME Init PROVE RefsCountFibers
  OBVIOUS
<1>1. {q \in Rq : write_offset[q] # -1} = {} /\ {q \in Rq : rpc[q] \in {"loop", "wait", "close"}} = {}
  BY Zenon DEF Init
<1>2. Cardinality({}) = 0
  BY FS_EmptySet, Zenon
<1> QED BY <1>1, <1>2, Zenon DEF Init, RefsCountFibers, Writing

LEMMA RefsCountStep == TreeInv /\ FiberInv /\ RefsCountFibers /\ [Next]_vars => RefsCountFibers'
<1> SUFFICES ASSUME TreeInv, FiberInv, RefsCountFibers, [Next]_vars PROVE RefsCountFibers'
  OBVIOUS
<1>1. CASE UNCHANGED vars
  <2>1. UNCHANGED <<read_refs, write_refs, fp, pc, rpc, write_offset>>
    BY <1>1, Zenon DEF vars, shared, mainVars, sendVars
  <2>2. SameUsers
    BY <2>1, Zenon DEF SameUsers
  <2> QED BY <2>1, <2>2, QuietRefs, Zenon
<1>2. CASE SwapOutAndIn \/ Crash
  BY <1>2, RestoreCounted, Zenon
<1>3. ASSUME NEW r \in Rq, \E w \in Ranges : TurnOn(r, w) \/ OpenCache(r, w)
      PROVE  RefsCountFibers'
  BY <1>3, FindCounted, Zenon
<1>4. ASSUME NEW r \in Rq, MainStep(r) PROVE RefsCountFibers'
  <2>1. ASSUME NEW n \in 1 .. MaxChunk, BoWrite(r, n) PROVE RefsCountFibers'
    BY <2>1, BoWriteCounted, Zenon
  <2> QED BY <1>4, <2>1, MainCounted, OpenWriteCounted, CloseWriteCounted, Zenon DEF MainStep
<1>5. ASSUME NEW r \in Rq, SendStep(r) PROVE RefsCountFibers'
  BY <1>5, SendCounted, CloseReadCounted, Zenon DEF SendStep
<1> QED BY <1>1, <1>2, <1>3, <1>4, <1>5, Zenon DEF Next, Finished

\* read_refs and write_refs count the fibers between open_read and close_read and between
\* open_write and close_write, so the last of them closes the handle and saves the progress,
\* and none closes it under another.
THEOREM RefsAlwaysCountFibers == Spec => []RefsCountFibers
<1>1. TreeInv /\ FiberInv /\ RefsCountFibers /\ [Next]_vars => TreeInv' /\ FiberInv' /\ RefsCountFibers'
  BY TreeInvStep, FiberInvStep, RefsCountStep, Zenon
<1> QED BY <1>1, TreeInvInit, FiberInvInit, RefsCountInit, PTL DEF Spec
=============================================================================
