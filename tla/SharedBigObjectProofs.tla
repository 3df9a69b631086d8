----------------------- MODULE SharedBigObjectProofs -----------------------
(***************************************************************************)
(* Proofs about SharedBigObject, for every set of requests, every length   *)
(* and every sequence of failures: the blocks form a tree, what the tree,  *)
(* the progress file and can_satisfy say about the cache file is true, an  *)
(* object published as complete is whole, who waits is in the queue of a   *)
(* block that has a writer, a request that ends well has sent everything,  *)
(* and what is sent is on disk.                                            *)
(***************************************************************************)
EXTENDS SharedBigObject, TLAPS

\* t is a tree of blocks of this object.
IsTree(t) == DOMAIN t \subseteq Offset /\ t \in [DOMAIN t -> Block]

\* The blocks of t are disjoint, ordered and not adjacent.
Separated(t) ==
  /\ \A b \in DOMAIN t : b <= t[b].to
  /\ \A b, c \in DOMAIN t : b < c => t[b].to < c

\* The progress file describes such a tree.
ProgressSeparated ==
  /\ \A b \in DOMAIN progress : b <= progress[b]
  /\ \A b, c \in DOMAIN progress : b < c => progress[b] < c

\* No request has sent more than it was asked for.
ReadsInside == \A r \in Rq : read_offset[r] <= read_end[r]

\* TypeOK in two parts: the Boolean variables and the others.
FlagsOK ==
  /\ stored \in BOOLEAN /\ fp \in BOOLEAN /\ body_complete \in BOOLEAN
  /\ in_disk \in BOOLEAN /\ dead \in BOOLEAN /\ published \in BOOLEAN
  /\ creator \in [Rq -> BOOLEAN]
  /\ read_fiber_error \in [Rq -> BOOLEAN]

ValuesOK ==
  /\ aborted \in {"no", "store", "block"}
  /\ Froms \subseteq Offset
  /\ blocks \in [Froms -> Block]
  /\ DOMAIN progress \subseteq Offset
  /\ progress \in [DOMAIN progress -> Offset]
  /\ file \subseteq Offset
  /\ read_refs \in Int /\ write_refs \in Int
  /\ pc \in [Rq -> PCs]
  /\ rpc \in [Rq -> RPCs]
  /\ write_offset \in [Rq -> Offset \cup {-1}]
  /\ offset \in [Rq -> Offset]
  /\ fetch_end \in [Rq -> Offset]
  /\ read_offset \in [Rq -> Offset]
  /\ read_end \in [Rq -> Offset]
  /\ result \in [Rq -> Results]
  /\ send_result \in [Rq -> Results]
  /\ faults \in 0 .. MaxFaults
  /\ ReadsInside

\* The inductive strengthening of TypeOK and BlocksSeparated.
TreeInv == FlagsOK /\ ValuesOK /\ BlocksSeparated /\ ProgressSeparated

USE SizesAssumption, RequestsAssumption DEF Offset

-----------------------------------------------------------------------------
(* What the operators on trees return *)

\* The one fact about the order of offsets that a proof without arithmetic needs.
LEMMA LessOrEqual == ASSUME NEW a \in Int, NEW b \in Int, a <= b PROVE a < b \/ a = b
OBVIOUS

\* TypeOK and BlocksSeparated speak of the tree only through IsTree and Separated.
LEMMA TreeOfInv == TreeInv => IsTree(blocks) /\ Separated(blocks)
  BY Zenon DEF TreeInv, ValuesOK, BlocksSeparated, IsTree, Separated, Froms

\* The inductive invariant implies type correctness.
LEMMA TypeOfInv == TreeInv => TypeOK
  BY Zenon DEF TreeInv, FlagsOK, ValuesOK, TypeOK

\* insert() adds at most an empty block, and keeps the tree separated.
LEMMA InsertTree ==
  ASSUME IsTree(blocks), Separated(blocks), NEW o \in Offset
  PROVE  /\ IsTree(insert(o)) /\ Separated(insert(o))
         /\ \A b \in DOMAIN insert(o) :
              insert(o)[b] = IF b \in Froms THEN blocks[b] ELSE EmptyBlock(b)
         /\ Froms \subseteq DOMAIN insert(o)
<1>1. CASE \E b \in Froms : Contains(b, o)
  BY <1>1, Zenon DEF insert, Froms
<1>2. CASE ~ \E b \in Froms : Contains(b, o)
  <2>1. insert(o) = [b \in Froms \cup {o} |->
                       IF b = o THEN EmptyBlock(o) ELSE blocks[b]]
    BY <1>2, Zenon DEF insert
  <2>2. o \notin Froms
    BY <1>2 DEF Contains, Separated, Froms
  <2>3. EmptyBlock(o) \in Block
    BY DEF EmptyBlock, Block
  <2>4. IsTree(insert(o))
    BY <2>1, <2>3, Zenon DEF IsTree, Froms
  <2>5. Separated(insert(o))
    BY <1>2, <2>1 DEF Separated, Contains, EmptyBlock, Froms, IsTree, Block
  <2> QED BY <2>1, <2>2, <2>4, <2>5, Zenon
<1> QED BY <1>1, <1>2, Zenon

\* Growing a block of a tree keeps it a tree, whether it merges or not.
LEMMA ExtendedTree ==
  ASSUME IsTree(blocks), Separated(blocks), NEW b \in Froms, NEW end \in Offset,
         blocks[b].to < end, NEW tree \in Extended(b, end)
  PROVE  IsTree(tree) /\ Separated(tree) /\ b \in DOMAIN tree
<1>1. CASE \A c \in Froms : b < c => end < c
  <2>1. tree = [blocks EXCEPT ![b].to = end]
    BY <1>1, Zenon DEF Extended
  <2>2. IsTree(tree)
    BY <2>1 DEF IsTree, Block, Froms
  <2>3. Separated(tree)
    BY <1>1, <2>1 DEF Separated, IsTree, Block, Froms
  <2> QED BY <2>1, <2>2, <2>3, Zenon DEF Froms
<1>2. CASE ~ \A c \in Froms : b < c => end < c
  <2>1. PICK c \in Froms :
          /\ IsNext(b, c)
          /\ tree = [d \in Froms \ {c} |-> IF d = b THEN Merged(b, c) ELSE blocks[d]]
    BY <1>2, Zenon DEF Extended
  <2>2. b < c /\ c # b /\ b \in Froms \ {c}
    BY <2>1 DEF IsNext, IsTree, Froms
  <2>3. Merged(b, c) \in Block /\ Merged(b, c).to = blocks[c].to
    <3>1. blocks[b] \in Block /\ blocks[c] \in Block
      BY Zenon DEF IsTree, Froms
    <3>2. /\ blocks[b].merged \cup blocks[c].merged
               \cup (IF blocks[b].net_fiber # NULL
                     THEN {blocks[c].net_fiber} \ {NULL, blocks[b].net_fiber}
                     ELSE {}) \in SUBSET Rq
          /\ blocks[b].wait \cup blocks[c].wait \in SUBSET Rq
      BY <3>1, Zenon DEF Block
    <3>3. (IF blocks[b].net_fiber = NULL THEN blocks[c].net_fiber
                                         ELSE blocks[b].net_fiber) \in Rq \cup {NULL}
      BY <3>1, Zenon DEF Block
    <3> QED BY <3>1, <3>2, <3>3, Zenon DEF Merged, Block
  <2>4. IsTree(tree)
    BY <2>1, <2>2, <2>3, Zenon DEF IsTree, Froms
  <2>5. Separated(tree)
    <3>1. DOMAIN tree = Froms \ {c} /\ DOMAIN tree \subseteq Int
      BY <2>1 DEF IsTree, Froms
    <3>2. /\ tree[b].to = blocks[c].to
          /\ \A d \in DOMAIN tree : d # b => tree[d].to = blocks[d].to
      BY <2>1, <2>2, <2>3, Zenon
    <3>3. \A d \in Froms : blocks[d].to \in Int
      BY DEF IsTree, Block, Froms
    <3>4. \A d \in DOMAIN tree : b < d => c < d
      BY <2>1, <3>1 DEF IsNext, IsTree, Froms
    <3>5. \A d \in DOMAIN tree : d <= tree[d].to
      <4>1. b <= blocks[c].to /\ b \in Int /\ c \in Int
        BY <2>2, <3>3 DEF Separated, IsTree, Froms
      <4>2. ASSUME NEW d \in DOMAIN tree PROVE d <= tree[d].to
        <5>1. CASE d = b
          BY <5>1, <4>1, <3>2, Zenon
        <5>2. CASE d # b
          BY <5>2, <3>1, <3>2, Zenon DEF Separated, Froms
        <5> QED BY <5>1, <5>2, Zenon
      <4> QED BY <4>2, Zenon
    <3>6. ASSUME NEW d \in DOMAIN tree, NEW e \in DOMAIN tree, d < e
          PROVE  tree[d].to < e
      <4>1. CASE d = b
        BY <4>1, <3>1, <3>2, <3>4, <3>6, Zenon DEF Separated, Froms
      <4>2. CASE d # b
        BY <4>2, <3>1, <3>2, <3>6, Zenon DEF Separated, Froms
      <4> QED BY <4>1, <4>2, Zenon
    <3> QED BY <3>5, <3>6, Zenon DEF Separated
  <2> QED BY <2>1, <2>2, <2>4, <2>5, Zenon
<1> QED BY <1>1, <1>2, Zenon

\* The tree a progress file describes.
LEMMA RestoredTree == TreeInv => IsTree(Restored) /\ Separated(Restored)
  BY DEF TreeInv, ValuesOK, ProgressSeparated, Restored, IsTree, Separated,
         EmptyBlock, Block

\* Changing what is not the end of a block keeps the tree a separated one.
LEMMA SameEnds ==
  ASSUME NEW t, IsTree(t), Separated(t), NEW b \in DOMAIN t, NEW x \in Block,
         x.to = t[b].to
  PROVE  IsTree([t EXCEPT ![b] = x]) /\ Separated([t EXCEPT ![b] = x])
<1>1. IsTree([t EXCEPT ![b] = x])
  BY Zenon DEF IsTree
<1>2. \A c \in DOMAIN t : [t EXCEPT ![b] = x][c].to = t[c].to
  OBVIOUS
<1>3. Separated([t EXCEPT ![b] = x])
  BY <1>2, Zenon DEF Separated
<1> QED BY <1>1, <1>3, Zenon

\* A tree may be replaced by a tree; what close() saves is one.
LEMMA NewTree ==
  ASSUME IsTree(blocks)', Separated(blocks)'
  PROVE  /\ Froms' \subseteq Offset /\ blocks' \in [Froms' -> Block]
         /\ BlocksSeparated'
  BY Zenon DEF IsTree, Separated, BlocksSeparated, Froms

\* Closing a handle writes the tree, or nothing, to the progress file.
LEMMA CloseSaves ==
  ASSUME TreeInv, IsTree(blocks)', Separated(blocks)', NEW i, NEW j, NEW d,
         Close(i, j, d)
  PROVE  /\ fp' \in BOOLEAN
         /\ DOMAIN progress' \subseteq Offset
         /\ progress' \in [DOMAIN progress' -> Offset]
         /\ ProgressSeparated'
         /\ faults' \in 0 .. MaxFaults
<1>1. fp' \in BOOLEAN
  BY Zenon DEF TreeInv, FlagsOK, Close
<1>2. faults' \in 0 .. MaxFaults
  BY DEF TreeInv, ValuesOK, Close, Fault, NoFault
<1>3. CASE progress' = progress
  BY <1>1, <1>2, <1>3, Zenon DEF TreeInv, ValuesOK, ProgressSeparated
<1>4. CASE progress' = [b \in DOMAIN blocks' |-> blocks'[b].to]
  BY <1>1, <1>2, <1>4, Zenon DEF ProgressSeparated, IsTree, Separated, Block
<1> QED BY <1>3, <1>4, Zenon DEF Close

\* An object found in the cache starts with an empty tree.
LEMMA TreeInvInit == Init => TreeInv
<1> SUFFICES ASSUME Init PROVE TreeInv
  OBVIOUS
<1>1. FlagsOK
  BY Zenon DEF Init, FlagsOK
<1>2. ValuesOK
  BY DEF Init, ValuesOK, Froms, PCs, RPCs, Results, ReadsInside, Block
<1> QED BY <1>1, <1>2, Zenon DEF TreeInv, Init, BlocksSeparated, ProgressSeparated, Froms

\* The steps that leave the tree and the progress file alone.
LEMMA QuietStep ==
  ASSUME TreeInv, UNCHANGED <<blocks, progress>>,
         NEW r \in Rq,
         \/ \E w \in Ranges : TurnOn(r, w) \/ OpenCache(r, w)
         \/ CanSatisfy(r) \/ SendCached(r) \/ UpstreamFailed(r)
         \/ BoWriteRefused(r) \/ BoWritten(r) \/ BodyEnd(r) \/ Join(r) \/ Sent(r)
         \/ OpenRead(r) \/ ReadFailed(r) \/ ReadNoBlock(r)
  PROVE  TreeInv'
<1>0. BlocksSeparated' /\ ProgressSeparated'
  BY Zenon DEF TreeInv, BlocksSeparated, ProgressSeparated, Froms
<1>1. FlagsOK'
  <2> USE DEF TreeInv, FlagsOK, shared, objVars, mainVars, sendVars, OpenFileHandle
  <2>1. ASSUME NEW w \in Ranges, TurnOn(r, w) PROVE FlagsOK'
    BY <2>1, Zenon DEF TurnOn
  <2>2. ASSUME NEW w \in Ranges, OpenCache(r, w) PROVE FlagsOK'
    BY <2>2, Zenon DEF OpenCache
  <2>3. CASE CanSatisfy(r)
    BY <2>3, Zenon DEF CanSatisfy
  <2>4. CASE SendCached(r)
    BY <2>4, Zenon DEF SendCached
  <2>5. CASE UpstreamFailed(r)
    BY <2>5, Zenon DEF UpstreamFailed
  <2>6. CASE BoWriteRefused(r)
    BY <2>6, Zenon DEF BoWriteRefused
  <2>7. CASE BoWritten(r)
    BY <2>7, Zenon DEF BoWritten
  <2>8. CASE BodyEnd(r)
    BY <2>8, Zenon DEF BodyEnd
  <2>9. CASE Join(r)
    BY <2>9, Zenon DEF Join
  <2>10. CASE Sent(r)
    BY <2>10, Zenon DEF Sent
  <2>11. CASE OpenRead(r)
    BY <2>11, Zenon DEF OpenRead
  <2>12. CASE ReadFailed(r)
    BY <2>12, Zenon DEF ReadFailed
  <2>13. CASE ReadNoBlock(r)
    BY <2>13, Zenon DEF ReadNoBlock
  <2> QED
    BY <2>1, <2>2, <2>3, <2>4, <2>5, <2>6, <2>7, <2>8, <2>9, <2>10, <2>11, <2>12, <2>13, Zenon
<1>2. ValuesOK'
  <2> USE DEF TreeInv, ValuesOK, ReadsInside, Froms, shared, objVars, mainVars, sendVars,
              PCs, RPCs, Results, Running, Sending, Goto, SendGoto, End, SendEnd,
              Fault, NoFault, OpenFileHandle
  <2>1. ASSUME NEW w \in Ranges, TurnOn(r, w) PROVE ValuesOK'
    BY <2>1, RangesAssumption, SMTT(30) DEF TurnOn
  <2>2. ASSUME NEW w \in Ranges, OpenCache(r, w) PROVE ValuesOK'
    BY <2>2, RangesAssumption, SMTT(30) DEF OpenCache
  <2>3. CASE CanSatisfy(r)
    BY <2>3, SMTT(30) DEF CanSatisfy, MissingFrom, GapEnds, Min, Block
  <2>4. CASE SendCached(r)
    BY <2>4, SMTT(30) DEF SendCached
  <2>5. CASE UpstreamFailed(r)
    BY <2>5 DEF UpstreamFailed
  <2>6. CASE BoWriteRefused(r)
    BY <2>6, Zenon DEF BoWriteRefused
  <2>7. CASE BoWritten(r)
    BY <2>7, SMTT(30) DEF BoWritten
  <2>8. CASE BodyEnd(r)
    BY <2>8, SMTT(30) DEF BodyEnd
  <2>9. CASE Join(r)
    BY <2>9, SMTT(30) DEF Join
  <2>10. CASE Sent(r)
    BY <2>10, ZenonT(30) DEF Sent
  <2>11. CASE OpenRead(r)
    BY <2>11 DEF OpenRead
  <2>12. CASE ReadFailed(r)
    BY <2>12 DEF ReadFailed
  <2>13. CASE ReadNoBlock(r)
    BY <2>13, Zenon DEF ReadNoBlock
  <2> QED
    BY <2>1, <2>2, <2>3, <2>4, <2>5, <2>6, <2>7, <2>8, <2>9, <2>10, <2>11, <2>12, <2>13, Zenon
<1> QED BY <1>0, <1>1, <1>2, Zenon DEF TreeInv

\* open_write leaves a separated tree in which r is a writer.
LEMMA OpenWriteTree ==
  ASSUME TreeInv, NEW r \in Rq, NEW o \in Offset, OpenWrite(r, o)
  PROVE  IsTree(blocks)' /\ Separated(blocks)'
<1>1. IsTree(insert(o)) /\ Separated(insert(o))
  BY InsertTree, TreeOfInv, Zenon
<1>2. PICK b \in DOMAIN insert(o) : blocks' = [insert(o) EXCEPT ![b].net_fiber = r]
  BY Zenon DEF OpenWrite
<1> DEFINE x == [insert(o)[b] EXCEPT !.net_fiber = r]
<1>3. x \in Block /\ x.to = insert(o)[b].to
  BY <1>1, Zenon DEF IsTree, Block
<1>4. IsTree([insert(o) EXCEPT ![b] = x]) /\ Separated([insert(o) EXCEPT ![b] = x])
  BY <1>1, <1>3, SameEnds, Zenon
<1> QED BY <1>2, <1>4, Zenon

\* open_write inserts a block and keeps the blocks apart.
LEMMA OpenWriteStep ==
  ASSUME TreeInv, NEW r \in Rq, TurnOnOpenWrite(r) \/ UpstreamHeaded(r)
  PROVE  TreeInv'
<1>1. IsTree(blocks)' /\ Separated(blocks)'
  <2>1. read_offset[r] \in Offset /\ offset[r] \in Offset
    BY Zenon DEF TreeInv, ValuesOK
  <2>2. CASE blocks' = blocks
    BY <2>2, TreeOfInv, Zenon DEF IsTree, Separated
  <2>3. CASE OpenWrite(r, read_offset[r]) \/ OpenWrite(r, offset[r])
    BY <2>1, <2>3, OpenWriteTree, Zenon
  <2> QED BY <2>2, <2>3, Zenon DEF TurnOnOpenWrite, UpstreamHeaded
<1>2. progress' = progress
  BY Zenon DEF TurnOnOpenWrite, UpstreamHeaded, objVars
<1>3. FlagsOK'
  BY Zenon DEF TreeInv, FlagsOK, TurnOnOpenWrite, UpstreamHeaded, OpenWrite, objVars,
               sendVars, OpenFileHandle
<1>4. ValuesOK'
  BY <1>1, <1>2, NewTree, SMTT(30)
     DEF TreeInv, ValuesOK, TurnOnOpenWrite, UpstreamHeaded, OpenWrite, objVars, sendVars,
         OpenFileHandle, Fault, NoFault, PCs, Goto, ReadsInside
<1> QED BY <1>1, <1>2, <1>3, <1>4, NewTree, Zenon DEF TreeInv, ProgressSeparated

\* write() leaves a separated tree, and wakes readers inside their ranges.
LEMMA WriteTree ==
  ASSUME TreeInv, NEW b \in Froms, NEW o \in Offset, NEW n \in Nat, o + n \in Offset,
         WriteBlock(b, o, n)
  PROVE  /\ IsTree(blocks)' /\ Separated(blocks)'
         /\ rpc' \in [Rq -> RPCs]
         /\ read_offset' \in [Rq -> Offset]
         /\ \A r \in Rq : read_offset'[r] <= read_end[r]
<1>1. CASE UNCHANGED <<blocks, rpc, read_offset>>
  BY <1>1, TreeOfInv, Zenon DEF IsTree, Separated, TreeInv, ValuesOK, ReadsInside
<1>2. CASE blocks[b].to < o + n /\ Grow(b, o, n)
  <2>1. PICK tree \in Extended(b, o + n) :
          LET woken == {q \in tree[b].wait : \/ read_offset[q] < tree[b].to
                                             \/ tree[b].net_fiber = NULL}
              sent == [q \in Rq |-> IF q \in woken
                                    THEN read_offset[q] + Copied(q, o, n)
                                    ELSE read_offset[q]]
          IN /\ blocks' = [tree EXCEPT ![b].wait = @ \ woken]
             /\ read_offset' = sent
             /\ rpc' = [q \in Rq |-> IF q \in woken THEN SentUpTo(q, sent[q])
                                                    ELSE rpc[q]]
    BY <1>2, Zenon DEF Grow
  <2>2. IsTree(tree) /\ Separated(tree) /\ b \in DOMAIN tree
    BY <1>2, ExtendedTree, TreeOfInv, Zenon
  <2> DEFINE woken == {q \in tree[b].wait : \/ read_offset[q] < tree[b].to
                                            \/ tree[b].net_fiber = NULL}
             x == [tree[b] EXCEPT !.wait = @ \ woken]
  <2>3. x \in Block /\ x.to = tree[b].to
    BY <2>2, Zenon DEF IsTree, Block
  <2>4. IsTree([tree EXCEPT ![b] = x]) /\ Separated([tree EXCEPT ![b] = x])
    BY <2>2, <2>3, SameEnds, Zenon
  <2>5. \A q \in Rq : /\ Copied(q, o, n) \in Nat
                      /\ read_offset[q] + Copied(q, o, n) <= read_end[q]
    BY DEF Copied, Min, TreeInv, ValuesOK, ReadsInside
  <2>6. read_offset' \in [Rq -> Offset] /\ \A q \in Rq : read_offset'[q] <= read_end[q]
    BY <2>1, <2>5 DEF TreeInv, ValuesOK, ReadsInside
  <2>7. rpc' \in [Rq -> RPCs]
    BY <2>1, Zenon DEF TreeInv, ValuesOK, RPCs, SentUpTo
  <2>8. blocks' = [tree EXCEPT ![b] = x]
    BY <2>1, Zenon
  <2> QED BY <2>4, <2>6, <2>7, <2>8, Zenon
<1>3. blocks[b].to \in Int
  BY TreeOfInv DEF IsTree, Block, Froms
<1> QED BY <1>1, <1>2, <1>3 DEF WriteBlock

\* write extends the block of its writer, over the blocks it reaches.
LEMMA BoWriteStep ==
  ASSUME TreeInv, NEW r \in Rq, NEW n \in 1 .. MaxChunk, BoWrite(r, n)
  PROVE  TreeInv'
<1>1. offset[r] \in Offset /\ n \in Nat /\ offset[r] + n \in Offset
  BY SMTT(30) DEF TreeInv, ValuesOK, BoWrite
<1>2. /\ IsTree(blocks)' /\ Separated(blocks)'
      /\ rpc' \in [Rq -> RPCs]
      /\ read_offset' \in [Rq -> Offset]
      /\ \A q \in Rq : read_offset'[q] <= read_end[q]
  <2>1. CASE UNCHANGED <<blocks, rpc, read_offset>>
    BY <2>1, TreeOfInv, Zenon DEF IsTree, Separated, TreeInv, ValuesOK, ReadsInside
  <2>2. CASE \E b \in Froms : Contains(b, offset[r]) /\ WriteBlock(b, offset[r], n)
    BY <1>1, <2>2, WriteTree, Zenon
  <2> QED BY <2>1, <2>2, Zenon DEF BoWrite
<1>3. progress' = progress
  BY Zenon DEF BoWrite, objVars
<1>4. FlagsOK'
  BY Zenon DEF TreeInv, FlagsOK, BoWrite, objVars
<1>5. file' \subseteq Offset
  BY <1>1 DEF TreeInv, ValuesOK, BoWrite
<1>6. aborted' \in {"no", "store", "block"}
  BY Zenon DEF TreeInv, ValuesOK, BoWrite
<1>7. faults' \in 0 .. MaxFaults
  <2>1. Fault \/ NoFault
    BY Zenon DEF BoWrite
  <2> QED BY <2>1 DEF TreeInv, ValuesOK, Fault, NoFault
<1>8. pc' \in [Rq -> PCs] /\ offset' \in [Rq -> Offset]
  BY <1>1, Zenon DEF TreeInv, ValuesOK, BoWrite, PCs, Goto
<1>9. ReadsInside' /\ UNCHANGED <<read_refs, write_refs, write_offset, fetch_end, result,
                                  read_end, send_result>>
  BY <1>2, Zenon DEF BoWrite, ReadsInside
<1>10. ValuesOK'
  BY <1>2, <1>3, <1>5, <1>6, <1>7, <1>8, <1>9, NewTree, Zenon DEF TreeInv, ValuesOK
<1> QED BY <1>2, <1>3, <1>4, <1>10, NewTree, Zenon DEF TreeInv, ProgressSeparated

\* What close_write leaves of a block.
LEMMA WriterRemovedBlock ==
  ASSUME TreeInv, NEW b \in Froms, NEW r \in Rq, NEW new \in WriterRemoved(b, r)
  PROVE  new \in Block /\ new.to = blocks[b].to
<1>1. blocks[b] \in Block /\ b \in Offset
  BY TreeOfInv, Zenon DEF IsTree, Froms
<1> DEFINE old == blocks[b]
           rest == IF old.net_fiber # r THEN {[old EXCEPT !.merged = @ \ {r}]}
                   ELSE IF old.merged = {} THEN {[old EXCEPT !.net_fiber = NULL]}
                   ELSE {[old EXCEPT !.net_fiber = m, !.merged = @ \ {m}] :
                           m \in old.merged}
<1>2. \A x \in rest : x \in Block /\ x.to = old.to
  <2>1. /\ [old EXCEPT !.merged = @ \ {r}] \in Block
        /\ [old EXCEPT !.merged = @ \ {r}].to = old.to
    BY <1>1, Zenon DEF Block
  <2>2. /\ [old EXCEPT !.net_fiber = NULL] \in Block
        /\ [old EXCEPT !.net_fiber = NULL].to = old.to
    BY <1>1, Zenon DEF Block
  <2>3. ASSUME NEW m \in old.merged
        PROVE  /\ [old EXCEPT !.net_fiber = m, !.merged = @ \ {m}] \in Block
               /\ [old EXCEPT !.net_fiber = m, !.merged = @ \ {m}].to = old.to
    <3>1. m \in Rq /\ old.merged \ {m} \in SUBSET Rq
      BY <1>1, Zenon DEF Block
    <3> QED BY <1>1, <3>1, Zenon DEF Block
  <2> QED BY <2>1, <2>2, <2>3, Zenon
<1>3. \A x \in Block : /\ [x EXCEPT !.read_point = b, !.wait = {}] \in Block
                       /\ [x EXCEPT !.read_point = b, !.wait = {}].to = x.to
  BY <1>1, Zenon DEF Block
<1> HIDE DEF rest
<1>4. \/ new = old
      \/ \E x \in rest : new = x \/ new = [x EXCEPT !.read_point = b, !.wait = {}]
  BY Zenon DEF WriterRemoved, rest
<1> QED BY <1>1, <1>2, <1>3, <1>4, Zenon

\* close_write takes the writer off its block and moves no end.
LEMMA CloseWriteStep ==
  ASSUME TreeInv, NEW r \in Rq, CloseWrite(r)
  PROVE  TreeInv'
<1> PICK b \in Froms : \E new \in WriterRemoved(b, r) :
        /\ blocks' = [blocks EXCEPT ![b] = new]
        /\ rpc' = [q \in Rq |-> IF q \in blocks[b].wait \ new.wait THEN "loop"
                                                                 ELSE rpc[q]]
        /\ body_complete' = (body_complete \/ IsWhole(b))
        /\ IF IsWhole(b) /\ ~body_complete
           THEN /\ \/ published' = TRUE /\ in_disk' = FALSE
                   \/ UNCHANGED <<published, in_disk>>
                /\ dead' = TRUE
           ELSE UNCHANGED <<published, in_disk, dead>>
  BY Zenon DEF CloseWrite
<1>1. PICK new \in WriterRemoved(b, r) :
        /\ blocks' = [blocks EXCEPT ![b] = new]
        /\ rpc' = [q \in Rq |-> IF q \in blocks[b].wait \ new.wait THEN "loop"
                                                                 ELSE rpc[q]]
        /\ body_complete' = (body_complete \/ IsWhole(b))
        /\ IF IsWhole(b) /\ ~body_complete
           THEN /\ \/ published' = TRUE /\ in_disk' = FALSE
                   \/ UNCHANGED <<published, in_disk>>
                /\ dead' = TRUE
           ELSE UNCHANGED <<published, in_disk, dead>>
  BY Zenon
<1>2. IsTree(blocks)' /\ Separated(blocks)'
  BY <1>1, WriterRemovedBlock, SameEnds, TreeOfInv, Zenon DEF Froms
<1>3. /\ fp' \in BOOLEAN
      /\ DOMAIN progress' \subseteq Offset
      /\ progress' \in [DOMAIN progress' -> Offset]
      /\ ProgressSeparated'
      /\ faults' \in 0 .. MaxFaults
  BY <1>2, CloseSaves, Zenon DEF CloseWrite
<1>4. FlagsOK'
  BY <1>1, <1>3, Zenon DEF TreeInv, FlagsOK, CloseWrite
<1>5. ValuesOK'
  BY <1>1, <1>2, <1>3, NewTree
     DEF TreeInv, ValuesOK, CloseWrite, ReadsInside, PCs, RPCs, Goto
<1> QED BY <1>2, <1>3, <1>4, <1>5, NewTree, Zenon DEF TreeInv

\* The tree read() works on.
LEMMA ReadTree ==
  ASSUME TreeInv, NEW r \in Rq
  PROVE  LET tree == IF pc[r] = "sending" THEN insert(read_offset[r]) ELSE blocks
         IN IsTree(tree) /\ Separated(tree) /\ read_offset[r] \in Offset
<1>1. read_offset[r] \in Offset
  BY Zenon DEF TreeInv, ValuesOK
<1> QED BY <1>1, TreeOfInv, InsertTree, Zenon

\* What read() changes of the block it reads is not its end.
LEMMA ReadBlock ==
  ASSUME NEW r \in Rq, NEW tree, NEW b \in DOMAIN tree, IsTree(tree),
         read_offset[r] \in Offset,
         \/ ReadData(r, tree, b) \/ ReadStop(r, tree, b)
         \/ ReadTakeOver(r, tree, b) \/ ReadWait(r, tree, b)
  PROVE  \E x \in Block : x.to = tree[b].to /\ blocks' = [tree EXCEPT ![b] = x]
<1>0. tree[b] \in Block /\ b \in Offset
  BY Zenon DEF IsTree
<1>1. Watermark(read_offset[r], tree[b].read_point) \in Offset
  BY <1>0, Zenon DEF Watermark, Block
<1> DEFINE seen == [tree[b] EXCEPT !.read_point = Watermark(read_offset[r], @)]
<1>2. seen \in Block /\ seen.to = tree[b].to
  BY <1>0, <1>1, Zenon DEF Block
<1>3. CASE blocks' = [tree EXCEPT ![b] = seen]
  BY <1>2, <1>3, Zenon
<1>4. CASE blocks' = [tree EXCEPT ![b] = [seen EXCEPT !.net_fiber = r]]
  <2>1. /\ [seen EXCEPT !.net_fiber = r] \in Block
        /\ [seen EXCEPT !.net_fiber = r].to = tree[b].to
    BY <1>2, Zenon DEF Block
  <2> QED BY <1>4, <2>1, Zenon
<1>5. CASE blocks' = [tree EXCEPT ![b] = [seen EXCEPT !.wait = @ \cup {r}]]
  <2>1. /\ [seen EXCEPT !.wait = @ \cup {r}] \in Block
        /\ [seen EXCEPT !.wait = @ \cup {r}].to = tree[b].to
    BY <1>2, Zenon DEF Block
  <2> QED BY <1>5, <2>1, Zenon
<1>6. CASE ReadData(r, tree, b) \/ ReadStop(r, tree, b)
  BY <1>3, <1>6, Zenon DEF ReadData, ReadStop
<1>7. CASE ReadTakeOver(r, tree, b)
  BY <1>4, <1>7, Zenon DEF ReadTakeOver, IsTree
<1>8. CASE ReadWait(r, tree, b)
  <2>1. blocks' = [tree EXCEPT ![b].read_point = Watermark(read_offset[r], @),
                               ![b].wait = @ \cup {r}]
    BY <1>8, Zenon DEF ReadWait
  <2>2. blocks' = [tree EXCEPT ![b] = [seen EXCEPT !.wait = @ \cup {r}]]
    BY <1>0, <1>1, <2>1, Zenon DEF IsTree, Block
  <2> QED BY <1>5, <2>2, Zenon
<1> QED BY <1>6, <1>7, <1>8, Zenon

\* read inserts at most an empty block, and moves the request within its range.
LEMMA ReadStep ==
  ASSUME TreeInv, NEW r \in Rq, Read(r)
  PROVE  TreeInv'
<1> DEFINE tree == IF pc[r] = "sending" THEN insert(read_offset[r]) ELSE blocks
<1>1. IsTree(tree) /\ Separated(tree) /\ read_offset[r] \in Offset
  BY ReadTree, Zenon
<1>2. PICK b \in DOMAIN tree :
        /\ b <= read_offset[r] /\ read_offset[r] <= tree[b].to
        /\ \/ ReadData(r, tree, b) \/ ReadStop(r, tree, b)
           \/ ReadTakeOver(r, tree, b) \/ ReadWait(r, tree, b)
  BY Zenon DEF Read
<1>3. tree[b] \in Block /\ b \in Offset
  BY <1>1, Zenon DEF IsTree
<1> HIDE DEF tree
<1>4. PICK x \in Block : x.to = tree[b].to /\ blocks' = [tree EXCEPT ![b] = x]
  BY <1>1, <1>2, ReadBlock, Zenon
<1>5. IsTree(blocks)' /\ Separated(blocks)'
  BY <1>1, <1>4, SameEnds, Zenon
<1>6. progress' = progress
  BY Zenon DEF Read, objVars
<1>7. FlagsOK'
  BY Zenon DEF TreeInv, FlagsOK, Read, objVars
<1>8. ValuesOK'
  <2>1. GapEnds(b) \subseteq Offset
    BY DEF GapEnds, TreeInv, ValuesOK
  <2>2. ReadsInside' /\ read_offset' \in [Rq -> Offset]
    <3>1. CASE read_offset' = read_offset
      BY <3>1, Zenon DEF TreeInv, ValuesOK, ReadsInside, Read
    <3>2. CASE ReadData(r, tree, b)
      <4> DEFINE k == read_offset[r]
                   + Min(Min(MaxChunk, read_end[r] - read_offset[r]),
                         tree[b].to - read_offset[r])
      <4>1. k \in Offset /\ k <= read_end[r]
        BY <1>1, <1>3, <3>2 DEF TreeInv, ValuesOK, ReadsInside, ReadData, Min, Block
      <4>2. read_offset' = [read_offset EXCEPT ![r] = k]
        BY <3>2, Zenon DEF ReadData
      <4>3. read_end' = read_end
        BY Zenon DEF Read
      <4> HIDE DEF k
      <4> QED BY <4>1, <4>2, <4>3, Zenon DEF TreeInv, ValuesOK, ReadsInside
    <3> QED BY <1>2, <3>1, <3>2, Zenon DEF ReadStop, ReadTakeOver, ReadWait
  <2>3. rpc' \in [Rq -> RPCs] /\ send_result' \in [Rq -> Results]
    BY <1>2, ZenonT(30) DEF TreeInv, ValuesOK, Read, ReadData, ReadStop, ReadTakeOver, ReadWait,
        SendGoto, SendEnd, SentUpTo, RPCs, Results
  <2>4. /\ write_refs' \in Int /\ write_offset' \in [Rq -> Offset \cup {-1}]
        /\ offset' \in [Rq -> Offset] /\ fetch_end' \in [Rq -> Offset]
    <3>1. CASE UNCHANGED <<write_refs, write_offset, offset, fetch_end>>
      BY <3>1, Zenon DEF TreeInv, ValuesOK
    <3>2. CASE ReadTakeOver(r, tree, b)
      BY <1>1, <2>1, <3>2 DEF TreeInv, ValuesOK, ReadTakeOver
    <3> QED BY <1>2, <3>1, <3>2, Zenon DEF ReadData, ReadStop, ReadWait
  <2> QED BY <1>5, <1>6, <2>2, <2>3, <2>4, NewTree, Zenon
             DEF TreeInv, ValuesOK, Read, objVars
<1> QED BY <1>5, <1>6, <1>7, <1>8, NewTree, Zenon DEF TreeInv, ProgressSeparated

\* close_read leaves the tree alone.
LEMMA CloseReadStep ==
  ASSUME TreeInv, NEW r \in Rq, CloseRead(r)
  PROVE  TreeInv'
<1>1. IsTree(blocks)' /\ Separated(blocks)'
  BY TreeOfInv, Zenon DEF CloseRead, IsTree, Separated
<1>2. /\ fp' \in BOOLEAN
      /\ DOMAIN progress' \subseteq Offset
      /\ progress' \in [DOMAIN progress' -> Offset]
      /\ ProgressSeparated'
      /\ faults' \in 0 .. MaxFaults
  BY <1>1, CloseSaves, Zenon DEF CloseRead
<1>3. FlagsOK'
  BY <1>2, Zenon DEF TreeInv, FlagsOK, CloseRead, mainVars
<1>4. ValuesOK'
  BY <1>1, <1>2, NewTree
     DEF TreeInv, ValuesOK, CloseRead, ReadsInside, mainVars, RPCs, SendGoto
<1> QED BY <1>1, <1>2, <1>3, <1>4, NewTree, Zenon DEF TreeInv

\* The tree restored from the progress file has its blocks apart.
LEMMA RestoreStep ==
  ASSUME TreeInv, SwapOutAndIn \/ Crash
  PROVE  TreeInv'
<1>1. blocks' = Restored /\ progress' = progress
  BY Zenon DEF SwapOutAndIn, Crash
<1>2. IsTree(blocks)' /\ Separated(blocks)'
  BY <1>1, RestoredTree, Zenon
<1>3. FlagsOK'
  <2>1. CASE SwapOutAndIn
    BY <2>1, Zenon DEF TreeInv, FlagsOK, SwapOutAndIn, mainVars
  <2>2. CASE Crash
    BY <2>2, Zenon DEF TreeInv, FlagsOK, Crash
  <2> QED BY <2>1, <2>2, Zenon
<1>4. ValuesOK'
  <2>1. CASE SwapOutAndIn
    BY <1>1, <1>2, <2>1, NewTree, Zenon
       DEF TreeInv, ValuesOK, SwapOutAndIn, ReadsInside, mainVars, sendVars
  <2>2. CASE Crash
    <3>1. /\ pc' \in [Rq -> PCs] /\ rpc' \in [Rq -> RPCs] /\ result' \in [Rq -> Results]
          /\ write_offset' \in [Rq -> Offset \cup {-1}]
      BY <2>2, Zenon DEF TreeInv, ValuesOK, Crash, PCs, RPCs, Results
    <3>2. /\ read_refs' \in Int /\ write_refs' \in Int
          /\ faults' \in 0 .. MaxFaults /\ aborted' = "no"
      BY <2>2 DEF TreeInv, ValuesOK, Crash, Fault
    <3> QED BY <1>1, <1>2, <2>2, <3>1, <3>2, NewTree, Zenon
               DEF TreeInv, ValuesOK, Crash, ReadsInside
  <2> QED BY <2>1, <2>2, Zenon
<1> QED BY <1>1, <1>2, <1>3, <1>4, NewTree, Zenon DEF TreeInv, ProgressSeparated

\* Every step keeps the blocks apart.
LEMMA TreeInvStep == TreeInv /\ [Next]_vars => TreeInv'
<1> SUFFICES ASSUME TreeInv, [Next]_vars PROVE TreeInv'
  OBVIOUS
<1>1. CASE UNCHANGED vars
  <2>1. FlagsOK'
    BY <1>1, Zenon DEF TreeInv, FlagsOK, vars, shared, objVars, mainVars
  <2>2. ValuesOK' /\ BlocksSeparated' /\ ProgressSeparated'
    BY <1>1, Zenon DEF TreeInv, ValuesOK, BlocksSeparated, ProgressSeparated, ReadsInside, Froms,
                vars, shared, objVars, mainVars, sendVars
  <2> QED BY <2>1, <2>2, Zenon DEF TreeInv
<1>2. CASE SwapOutAndIn \/ Crash
  BY <1>2, RestoreStep, Zenon
<1>3. ASSUME NEW r \in Rq, \E w \in Ranges : TurnOn(r, w) \/ OpenCache(r, w)
      PROVE  TreeInv'
  BY <1>3, QuietStep, Zenon DEF TurnOn, OpenCache
<1>4. ASSUME NEW r \in Rq, MainStep(r) PROVE TreeInv'
  <2>1. CASE TurnOnOpenWrite(r) \/ UpstreamHeaded(r)
    BY <2>1, OpenWriteStep, Zenon
  <2>2. CASE \E n \in 1 .. MaxChunk : BoWrite(r, n)
    BY <2>2, BoWriteStep, Zenon
  <2>3. CASE CloseWrite(r)
    BY <2>3, CloseWriteStep, Zenon
  <2>4. CASE \/ CanSatisfy(r) \/ SendCached(r) \/ UpstreamFailed(r) \/ BoWriteRefused(r)
             \/ BoWritten(r) \/ BodyEnd(r) \/ Join(r) \/ Sent(r)
    <3>1. UNCHANGED <<blocks, progress>>
      BY <2>4, Zenon DEF CanSatisfy, SendCached, UpstreamFailed, BoWriteRefused, BoWritten, BodyEnd,
                  Join, Sent, shared, objVars
    <3> QED BY <2>4, <3>1, QuietStep, Zenon
  <2> QED BY <1>4, <2>1, <2>2, <2>3, <2>4, Zenon DEF MainStep
<1>5. ASSUME NEW r \in Rq, SendStep(r) PROVE TreeInv'
  <2>1. CASE Read(r)
    BY <2>1, ReadStep, Zenon
  <2>2. CASE CloseRead(r)
    BY <2>2, CloseReadStep, Zenon
  <2>3. CASE OpenRead(r) \/ ReadFailed(r) \/ ReadNoBlock(r)
    <3>1. UNCHANGED <<blocks, progress>>
      BY <2>3, Zenon DEF OpenRead, ReadFailed, ReadNoBlock, shared, objVars
    <3> QED BY <2>3, <3>1, QuietStep, Zenon
  <2> QED BY <1>5, <2>1, <2>2, <2>3, Zenon DEF SendStep
<1> QED BY <1>1, <1>2, <1>3, <1>4, <1>5, Zenon DEF Next, Finished

\* The tree and every request stay well formed whatever fails: the offsets stay inside the
\* object, and nobody is sent more than was asked for.
THEOREM TypeCorrect == Spec => []TypeOK
<1>1. TreeInv /\ [Next]_vars => TreeInv'
  BY TreeInvStep, Zenon
<1> QED BY <1>1, TreeInvInit, TypeOfInv, PTL DEF Spec

\* insert, write and restore keep the blocks of the tree disjoint, ordered and apart, with any
\* number of writers: what find_block_node and rb_next rely on.
THEOREM BlocksStaySeparated == Spec => []BlocksSeparated
<1>1. TreeInv /\ [Next]_vars => TreeInv'
  BY TreeInvStep, Zenon
<1>2. TreeInv => BlocksSeparated
  BY Zenon DEF TreeInv
<1> QED BY <1>1, <1>2, TreeInvInit, PTL DEF Spec

-----------------------------------------------------------------------------
(* What the tree records is on disk *)

\* Every block of t describes data that is in f.
OnDisk(t, f) == \A b \in DOMAIN t : b .. t[b].to - 1 \subseteq f

\* The whole object is in f.
Whole(f) == 0 .. ContentLength - 1 \subseteq f

\* The inductive strengthening of CachedBytesOnDisk and PublishedComplete: body_complete is
\* what can_satisfy goes by.
DiskInv == /\ OnDisk(blocks, file)
           /\ \A b \in DOMAIN progress : b .. progress[b] - 1 \subseteq file
           /\ \A r \in Rq : pc[r] = "direct" =>
                              read_offset[r] .. read_end[r] - 1 \subseteq file
           /\ body_complete \/ published => Whole(file)

\* The inductive invariant implies the two properties.
LEMMA DiskInvMeans == DiskInv => CachedBytesOnDisk /\ PublishedComplete
  BY Zenon DEF DiskInv, CachedBytesOnDisk, PublishedComplete, OnDisk, Whole, Recorded, Froms

\* The block insert() may add is empty.
LEMMA InsertOnDisk ==
  ASSUME TreeInv, DiskInv, NEW o \in Offset
  PROVE  OnDisk(insert(o), file)
<1>1. \A b \in DOMAIN insert(o) :
        insert(o)[b] = IF b \in Froms THEN blocks[b] ELSE EmptyBlock(b)
  BY InsertTree, TreeOfInv, Zenon
<1>2. DOMAIN insert(o) \subseteq Offset
  BY InsertTree, TreeOfInv, Zenon DEF IsTree
<1>3. ASSUME NEW b \in DOMAIN insert(o) PROVE b .. insert(o)[b].to - 1 \subseteq file
  <2>1. CASE b \in Froms
    BY <1>1, <2>1, Zenon DEF DiskInv, OnDisk, Froms
  <2>2. CASE b \notin Froms
    BY <1>1, <1>2, <2>2 DEF EmptyBlock
  <2> QED BY <2>1, <2>2, Zenon
<1> QED BY <1>3, Zenon DEF OnDisk

\* A block that grows over data just written stays on disk, whether it merges or not.
LEMMA ExtendedOnDisk ==
  ASSUME TreeInv, DiskInv, NEW b \in Froms, NEW o \in Offset, NEW n \in Nat,
         Contains(b, o), o + n \in Offset, NEW tree \in Extended(b, o + n)
  PROVE  OnDisk(tree, file \cup (o .. o + n - 1))
<1> DEFINE f == file \cup (o .. o + n - 1)
<1>1. \A d \in Froms : d \in Int /\ blocks[d].to \in Int /\ blocks[d] \in Block
  BY TreeOfInv DEF IsTree, Block, Froms
<1>2. \A d \in Froms : d .. blocks[d].to - 1 \subseteq f
  BY Zenon DEF DiskInv, OnDisk, Froms
<1>3. b .. o + n - 1 \subseteq f
  BY <1>1, <1>2 DEF Contains
<1>4. CASE tree = [blocks EXCEPT ![b].to = o + n]
  <2>1. ASSUME NEW d \in DOMAIN tree PROVE d .. tree[d].to - 1 \subseteq f
    <3>1. CASE d = b
      <4>1. tree[b].to = o + n
        BY <1>1, <1>4, Zenon DEF Froms, Block
      <4> QED BY <1>3, <3>1, <4>1
    <3>2. CASE d # b
      BY <1>2, <1>4, <3>2, Zenon DEF Froms
    <3> QED BY <3>1, <3>2, Zenon
  <2> QED BY <2>1, Zenon DEF OnDisk
<1>5. CASE ~ \A c \in Froms : b < c => o + n < c
  <2>1. PICK c \in Froms :
          /\ IsNext(b, c)
          /\ tree = [d \in Froms \ {c} |-> IF d = b THEN Merged(b, c) ELSE blocks[d]]
    BY <1>5, Zenon DEF Extended
  <2>2. c <= o + n
    BY <1>1, <1>5, <2>1 DEF IsNext
  <2>3. Merged(b, c).to = blocks[c].to
    BY <1>1, Zenon DEF Merged, Block
  <2>4. b .. blocks[c].to - 1 \subseteq f
    <3>1. ASSUME NEW x \in b .. blocks[c].to - 1 PROVE x \in f
      <4>1. CASE x < o + n
        BY <1>1, <1>3, <4>1
      <4>2. CASE x >= o + n
        BY <1>1, <1>2, <2>2, <4>2
      <4> QED BY <1>1, <4>1, <4>2
    <3> QED BY <3>1, Zenon
  <2>5. ASSUME NEW d \in DOMAIN tree PROVE d .. tree[d].to - 1 \subseteq f
    <3>1. CASE d = b
      BY <2>1, <2>3, <2>4, <3>1, Zenon
    <3>2. CASE d # b
      BY <1>2, <2>1, <3>2, Zenon
    <3> QED BY <3>1, <3>2, Zenon
  <2> QED BY <2>5, Zenon DEF OnDisk
<1> QED BY <1>4, <1>5, Zenon DEF Extended

\* Changing what is not the end of a block keeps it on disk.
LEMMA SameEndsOnDisk ==
  ASSUME NEW t, NEW f, OnDisk(t, f), NEW b \in DOMAIN t, NEW x, x.to = t[b].to
  PROVE  OnDisk([t EXCEPT ![b] = x], f)
<1>1. \A c \in DOMAIN t : [t EXCEPT ![b] = x][c].to = t[c].to
  OBVIOUS
<1> QED BY <1>1, Zenon DEF OnDisk

\* More data in the file does no harm.
LEMMA OnDiskGrows ==
  ASSUME NEW t, NEW f, NEW g, OnDisk(t, f), f \subseteq g
  PROVE  OnDisk(t, g)
BY Zenon DEF OnDisk

\* What close() saves is on disk, if the tree is.
LEMMA CloseSavesDisk ==
  ASSUME DiskInv, OnDisk(blocks, file)', file' = file, NEW i, NEW j, NEW d, Close(i, j, d)
  PROVE  \A b \in DOMAIN progress' : b .. progress'[b] - 1 \subseteq file'
<1>1. CASE progress' = progress
  BY <1>1, Zenon DEF DiskInv
<1>2. CASE progress' = [b \in DOMAIN blocks' |-> blocks'[b].to]
  BY <1>2, Zenon DEF OnDisk
<1> QED BY <1>1, <1>2, Zenon DEF Close

\* An object found in the cache starts with an empty tree, and nothing is complete.
LEMMA DiskInvInit == Init => DiskInv
  BY Zenon DEF Init, DiskInv, OnDisk, Whole

-----------------------------------------------------------------------------
(* What a step must do to keep DiskInv *)

\* The progress file describes data on disk.
Saved == \A b \in DOMAIN progress : b .. progress[b] - 1 \subseteq file

\* No request is newly answered from the file, and those that are only move forward.
Forward == \A q \in Rq : pc'[q] = "direct" =>
              /\ pc[q] = "direct" /\ read_end'[q] = read_end[q]
              /\ read_offset[q] <= read_offset'[q] /\ read_offset'[q] \in Int

\* The object is only declared complete when it is whole.
CompleteIsWhole == body_complete' \/ published' => body_complete \/ published \/ Whole(file)

Quiet == UNCHANGED <<file, blocks, progress, body_complete, published>>

\* A step that records no new data keeps what is recorded on disk.
LEMMA DiskKept ==
  ASSUME TreeInv, DiskInv, file \subseteq file', OnDisk(blocks, file)', Saved', Forward,
         CompleteIsWhole
  PROVE  DiskInv'
<1>1. ASSUME NEW r \in Rq, pc'[r] = "direct"
      PROVE  read_offset'[r] .. read_end'[r] - 1 \subseteq file'
  <2>1. read_offset[r] .. read_end[r] - 1 \subseteq file'
    BY <1>1, Zenon DEF DiskInv, Forward
  <2>2. read_offset[r] \in Int /\ read_end[r] \in Int
    BY DEF TreeInv, ValuesOK
  <2> QED BY <1>1, <2>1, <2>2 DEF Forward
<1>2. body_complete' \/ published' => Whole(file)'
  <2>1. Whole(file) => Whole(file')
    BY Zenon DEF Whole
  <2> QED BY <2>1, Zenon DEF DiskInv, Whole, CompleteIsWhole
<1> QED BY <1>1, <1>2, Zenon DEF DiskInv, Saved

\* Requests that stay where they are move forward.
LEMMA Still ==
  ASSUME TreeInv, UNCHANGED <<read_offset, read_end>>,
         \A q \in Rq : pc'[q] = "direct" => pc[q] = "direct"
  PROVE  Forward
<1>1. \A q \in Rq : read_offset[q] \in Int
  BY DEF TreeInv, ValuesOK
<1> QED BY <1>1 DEF Forward

\* A step that touches neither the tree nor the files keeps DiskInv.
LEMMA QuietKept ==
  ASSUME TreeInv, DiskInv, Quiet, Forward
  PROVE  DiskInv'
<1>1. file \subseteq file' /\ OnDisk(blocks, file)' /\ Saved'
  BY Zenon DEF DiskInv, OnDisk, Saved, Quiet
<1>2. CompleteIsWhole
  BY Zenon DEF CompleteIsWhole, Quiet
<1> QED BY <1>1, <1>2, DiskKept, Zenon

-----------------------------------------------------------------------------
(* One lemma per step *)

\* The restored tree is the progress file, which is on disk.
LEMMA RestoreDisk ==
  ASSUME TreeInv, DiskInv, SwapOutAndIn \/ Crash
  PROVE  DiskInv'
<1>1. blocks' = Restored /\ file' = file /\ progress' = progress
  BY Zenon DEF SwapOutAndIn, Crash
<1>2. file \subseteq file' /\ OnDisk(blocks, file)' /\ Saved'
  BY <1>1, Zenon DEF OnDisk, Restored, EmptyBlock, DiskInv, Saved
<1>3. UNCHANGED <<read_offset, read_end>>
      /\ \A r \in Rq : pc'[r] = "direct" => pc[r] = "direct"
  BY Zenon DEF SwapOutAndIn, Crash, mainVars, sendVars
<1>4. ~body_complete' /\ (published' => published)
  <2>1. CASE SwapOutAndIn
    BY <2>1, Zenon DEF SwapOutAndIn
  <2>2. CASE Crash
    <3>1. ~body_complete'
      BY <2>2, Zenon DEF Crash
    <3>2. PICK kept \in {published, FALSE} : published' = kept
      BY <2>2, Zenon DEF Crash
    <3>3. CASE kept = published
      BY <3>1, <3>2, <3>3, Zenon
    <3>4. CASE kept = FALSE
      BY <3>1, <3>2, <3>4, Zenon
    <3> QED BY <3>3, <3>4, Zenon
  <2> QED BY <2>1, <2>2, Zenon
<1>5. CompleteIsWhole
  BY <1>4, Zenon DEF CompleteIsWhole
<1>6. Forward
  BY <1>3, Still, Zenon
<1> QED BY <1>2, <1>5, <1>6, DiskKept, Zenon

\* A request that finds the object records nothing.
LEMMA FindDisk ==
  ASSUME TreeInv, DiskInv, NEW r \in Rq, NEW w \in Ranges, TurnOn(r, w) \/ OpenCache(r, w)
  PROVE  DiskInv'
<1>1. Quiet
  BY Zenon DEF TurnOn, OpenCache, Quiet
<1>2. pc[r] = "idle" /\ pc'[r] # "direct"
  BY Zenon DEF TurnOn, OpenCache, Running, Goto, End, TreeInv, ValuesOK
<1>3. \A q \in Rq \ {r} : /\ pc'[q] = pc[q] /\ read_end'[q] = read_end[q]
                          /\ read_offset'[q] = read_offset[q]
  BY Zenon DEF TurnOn, OpenCache, Goto, End, TreeInv, ValuesOK
<1>4. \A q \in Rq : read_offset[q] \in Int
  BY SMTT(30) DEF TreeInv, ValuesOK
<1>5. Forward
  BY <1>2, <1>3, <1>4 DEF Forward
<1> QED BY <1>1, <1>5, QuietKept, Zenon

\* open_write at o adds at most an empty block.
LEMMA OpenWriteOnDisk ==
  ASSUME TreeInv, DiskInv, NEW r \in Rq, NEW o \in Offset, OpenWrite(r, o), file' = file
  PROVE  OnDisk(blocks, file)'
<1>1. PICK b \in DOMAIN insert(o) : blocks' = [insert(o) EXCEPT ![b].net_fiber = r]
  BY Zenon DEF OpenWrite
<1>2. insert(o)[b] \in Block
  BY InsertTree, TreeOfInv, Zenon DEF IsTree
<1> DEFINE x == [insert(o)[b] EXCEPT !.net_fiber = r]
<1>3. x.to = insert(o)[b].to
  BY <1>2, Zenon DEF Block
<1>4. OnDisk([insert(o) EXCEPT ![b] = x], file)
  BY <1>3, InsertOnDisk, SameEndsOnDisk, Zenon
<1> QED BY <1>1, <1>4, Zenon

\* The writer opens its block.
LEMMA OpenWriteDisk ==
  ASSUME TreeInv, DiskInv, NEW r \in Rq, TurnOnOpenWrite(r) \/ UpstreamHeaded(r)
  PROVE  DiskInv'
<1>1. read_offset[r] \in Offset /\ offset[r] \in Offset
  BY Zenon DEF TreeInv, ValuesOK
<1>2. /\ UNCHANGED <<file, progress, body_complete, published, read_offset, read_end>>
      /\ \A q \in Rq : pc'[q] = "direct" => pc[q] = "direct"
  BY Zenon DEF TurnOnOpenWrite, UpstreamHeaded, objVars, sendVars, Goto, TreeInv, ValuesOK
<1>3. OnDisk(blocks, file)'
  <2>1. CASE blocks' = blocks
    BY <1>2, <2>1, Zenon DEF DiskInv, OnDisk
  <2>2. ASSUME NEW o \in Offset, OpenWrite(r, o) PROVE OnDisk(blocks, file)'
    BY <1>2, <2>2, OpenWriteOnDisk, ZenonT(30)
  <2> QED BY <1>1, <2>1, <2>2, ZenonT(30) DEF TurnOnOpenWrite, UpstreamHeaded
<1>4. Saved' /\ file \subseteq file'
  BY <1>2, Zenon DEF DiskInv, Saved
<1>5. CompleteIsWhole
  BY <1>2, Zenon DEF CompleteIsWhole
<1>6. Forward
  BY <1>2, Still, Zenon
<1> QED BY <1>3, <1>4, <1>5, <1>6, DiskKept, Zenon

\* The block of the writer grows, and waiting readers are handed what was just written.
LEMMA GrowDisk ==
  ASSUME TreeInv, DiskInv, NEW o \in Offset, NEW n \in Nat, o + n \in Offset,
         NEW b \in Froms, Contains(b, o), Grow(b, o, n), blocks[b].to < o + n,
         file' = file \cup (o .. o + n - 1)
  PROVE  /\ OnDisk(blocks, file)'
         /\ \A q \in Rq : read_offset[q] <= read_offset'[q] /\ read_offset'[q] \in Int
<1>1. PICK tree \in Extended(b, o + n) : \E woken \in SUBSET tree[b].wait :
        /\ blocks' = [tree EXCEPT ![b].wait = @ \ woken]
        /\ read_offset' = [q \in Rq |-> IF q \in woken THEN read_offset[q] + Copied(q, o, n)
                                       ELSE read_offset[q]]
  BY Zenon DEF Grow
<1>2. PICK woken \in SUBSET tree[b].wait :
        /\ blocks' = [tree EXCEPT ![b].wait = @ \ woken]
        /\ read_offset' = [q \in Rq |-> IF q \in woken THEN read_offset[q] + Copied(q, o, n)
                                       ELSE read_offset[q]]
  BY <1>1, Zenon
<1>3. IsTree(tree) /\ b \in DOMAIN tree
  BY ExtendedTree, TreeOfInv, Zenon
<1> DEFINE x == [tree[b] EXCEPT !.wait = @ \ woken]
<1>4. x.to = tree[b].to
  BY <1>3, Zenon DEF IsTree, Block
<1>5. OnDisk(tree, file')
  BY ExtendedOnDisk, Zenon
<1>6. OnDisk([tree EXCEPT ![b] = x], file')
  BY <1>3, <1>4, <1>5, SameEndsOnDisk, Zenon
<1>7. OnDisk(blocks, file)'
  BY <1>2, <1>6, Zenon
<1>8. \A q \in Rq : Copied(q, o, n) \in Nat /\ read_offset[q] \in Int
  BY DEF Copied, Min, TreeInv, ValuesOK, ReadsInside
<1>9. \A q \in Rq : read_offset[q] <= read_offset'[q] /\ read_offset'[q] \in Int
  BY <1>2, <1>8, SMTT(30)
<1> QED BY <1>7, <1>9, Zenon

\* A write puts the data in the file before the tree tells of it.
LEMMA BoWriteDisk ==
  ASSUME TreeInv, DiskInv, NEW r \in Rq, NEW n \in 1 .. MaxChunk, BoWrite(r, n)
  PROVE  DiskInv'
<1>1. /\ UNCHANGED <<progress, body_complete, published, read_end>>
      /\ file \subseteq file'
      /\ \A q \in Rq : pc'[q] = "direct" => pc[q] = "direct"
  BY Zenon DEF BoWrite, objVars, Goto, TreeInv, ValuesOK
<1>2. offset[r] \in Offset /\ n \in Nat /\ offset[r] + n \in Offset
  BY DEF TreeInv, ValuesOK, BoWrite
<1>3. CompleteIsWhole
  BY <1>1, ZenonT(30) DEF CompleteIsWhole
<1>4. Saved'
  BY <1>1, Zenon DEF DiskInv, Saved
<1>5. ASSUME UNCHANGED <<blocks, read_offset>> PROVE DiskInv'
  <2>1. OnDisk(blocks, file)'
    BY <1>1, <1>5, OnDiskGrows, Zenon DEF DiskInv
  <2>2. Forward
    BY <1>1, <1>5, Still, Zenon
  <2> QED BY <1>1, <1>3, <1>4, <2>1, <2>2, DiskKept, ZenonT(30)
<1>6. ASSUME NEW b \in Froms, Contains(b, offset[r]), Grow(b, offset[r], n),
             file' = file \cup (offset[r] .. offset[r] + n - 1),
             blocks[b].to < offset[r] + n
      PROVE  DiskInv'
  <2>1. /\ OnDisk(blocks, file)'
        /\ \A q \in Rq : read_offset[q] <= read_offset'[q] /\ read_offset'[q] \in Int
    BY <1>2, <1>6, GrowDisk, Zenon
  <2>2. Forward
    BY <1>1, <2>1, Zenon DEF Forward
  <2> QED BY <1>1, <1>3, <1>4, <2>1, <2>2, DiskKept, Zenon
<1>7. \A b \in Froms : blocks[b].to \in Int
  BY TreeOfInv DEF IsTree, Block, Froms
<1>8. \/ UNCHANGED <<blocks, read_offset>>
      \/ /\ file' = file \cup (offset[r] .. offset[r] + n - 1)
         /\ \E b \in Froms : /\ Contains(b, offset[r])
                            /\ WriteBlock(b, offset[r], n)
  BY Zenon DEF BoWrite
<1> QED BY <1>2, <1>5, <1>6, <1>7, <1>8, SMTT(30) DEF WriteBlock

\* The writer leaves: the progress file is saved from the tree, and the object is complete
\* only if the one block left covers it.
LEMMA CloseWriteDisk ==
  ASSUME TreeInv, DiskInv, NEW r \in Rq, CloseWrite(r)
  PROVE  DiskInv'
<1>1. /\ UNCHANGED <<file, read_offset, read_end>>
      /\ \A q \in Rq : pc'[q] = "direct" => pc[q] = "direct"
  BY Zenon DEF CloseWrite, Goto, TreeInv, ValuesOK
<1>2. PICK b \in Froms : \E new \in WriterRemoved(b, r) :
        /\ blocks' = [blocks EXCEPT ![b] = new]
        /\ body_complete' = (body_complete \/ IsWhole(b))
        /\ published' = published \/ IsWhole(b)
  BY Zenon DEF CloseWrite
<1>3. PICK new \in WriterRemoved(b, r) :
        /\ blocks' = [blocks EXCEPT ![b] = new]
        /\ body_complete' = (body_complete \/ IsWhole(b))
        /\ published' = published \/ IsWhole(b)
  BY <1>2, Zenon
<1>4. OnDisk(blocks, file)'
  <2>1. new.to = blocks[b].to
    BY WriterRemovedBlock, Zenon
  <2>2. OnDisk([blocks EXCEPT ![b] = new], file)
    BY <2>1, SameEndsOnDisk, Zenon DEF DiskInv, Froms
  <2> QED BY <1>1, <1>3, <2>2, Zenon
<1>5. Saved'
  BY <1>1, <1>4, CloseSavesDisk, Zenon DEF CloseWrite, Saved
<1>6. IsWhole(b) => Whole(file)
  <2>1. blocks[b].to \in Int /\ b .. blocks[b].to - 1 \subseteq file
    BY TreeOfInv DEF IsTree, Block, Froms, DiskInv, OnDisk
  <2> QED BY <2>1 DEF IsWhole, Whole
<1>7. CompleteIsWhole
  BY <1>3, <1>6, Zenon DEF CompleteIsWhole
<1>8. Forward
  BY <1>1, Still, Zenon
<1> QED BY <1>1, <1>4, <1>5, <1>7, <1>8, DiskKept, Zenon

\* can_satisfy says yes only when the data is there.
LEMMA SatisfyOnDisk ==
  ASSUME TreeInv, DiskInv, NEW r \in Rq, SatisfyAll(r)
  PROVE  read_offset[r] .. read_end[r] - 1 \subseteq file
<1>1. read_offset[r] \in Offset /\ read_end[r] \in Offset
  BY Zenon DEF TreeInv, ValuesOK
<1>2. CASE body_complete
  <2>1. Whole(file)
    BY <1>2, Zenon DEF DiskInv
  <2> QED BY <1>1, <2>1 DEF Whole
<1>3. CASE \E b \in Froms : Contains(b, read_offset[r]) /\ blocks[b].to >= read_end[r]
  <2>1. PICK b \in Froms : Contains(b, read_offset[r]) /\ blocks[b].to >= read_end[r]
    BY <1>3, Zenon
  <2>2. b .. blocks[b].to - 1 \subseteq file /\ b \in Int /\ blocks[b].to \in Int
    BY TreeOfInv DEF IsTree, Block, Froms, DiskInv, OnDisk
  <2> QED BY <1>1, <2>1, <2>2 DEF Contains
<1> QED BY <1>2, <1>3, Zenon DEF SatisfyAll

\* A request is only answered from the file when can_satisfy said yes.
LEMMA CanSatisfyDisk ==
  ASSUME TreeInv, DiskInv, NEW r \in Rq, CanSatisfy(r)
  PROVE  DiskInv'
<1>1. Quiet /\ UNCHANGED <<read_offset, read_end>>
  BY Zenon DEF CanSatisfy, shared, objVars, sendVars, Quiet
<1>2. \A q \in Rq \ {r} : pc'[q] = pc[q]
  BY Zenon DEF CanSatisfy, Goto, TreeInv, ValuesOK
<1>3. CASE pc'[r] # "direct"
  <2>1. \A q \in Rq : pc'[q] = "direct" => pc[q] = "direct"
    BY <1>2, <1>3, Zenon
  <2>2. Forward
    BY <1>1, <2>1, Still, Zenon
  <2> QED BY <1>1, <2>2, QuietKept, Zenon
<1>4. CASE SatisfyAll(r)
  <2>1. \A q \in Rq : pc'[q] = "direct" => read_offset'[q] .. read_end'[q] - 1 \subseteq file'
    BY <1>1, <1>2, <1>4, SatisfyOnDisk, Zenon DEF DiskInv, Quiet
  <2>2. OnDisk(blocks, file)' /\ \A b \in DOMAIN progress' : b .. progress'[b] - 1 \subseteq file'
    BY <1>1, Zenon DEF DiskInv, OnDisk, Quiet
  <2>3. body_complete' \/ published' => Whole(file')
    BY <1>1, Zenon DEF DiskInv, Quiet
  <2> QED BY <2>1, <2>2, <2>3, Zenon DEF DiskInv
<1>5. ~SatisfyAll(r) => pc'[r] # "direct"
  BY Zenon DEF CanSatisfy, Goto, TreeInv, ValuesOK
<1> QED BY <1>3, <1>4, <1>5, Zenon

\* The other steps of a request's fiber record nothing.
LEMMA FetchDisk ==
  ASSUME TreeInv, DiskInv, NEW r \in Rq,
         \/ SendCached(r) \/ UpstreamFailed(r) \/ BoWriteRefused(r)
         \/ BoWritten(r) \/ BodyEnd(r) \/ Join(r) \/ Sent(r)
  PROVE  DiskInv'
<1>1. Quiet
  BY Zenon DEF SendCached, UpstreamFailed, BoWriteRefused, BoWritten, BodyEnd, Join, Sent,
               shared, objVars, Quiet
<1>2. /\ read_end' = read_end
      /\ \A q \in Rq : pc'[q] = "direct" => pc[q] = "direct" /\ read_offset'[q] = read_offset[q]
  <2>1. CASE SendCached(r)
    BY <2>1, Zenon DEF SendCached, sendVars, Goto, End, TreeInv, ValuesOK
  <2>2. CASE UpstreamFailed(r)
    BY <2>2, Zenon DEF UpstreamFailed, sendVars, Goto, End, TreeInv, ValuesOK
  <2>3. CASE BoWriteRefused(r)
    BY <2>3, Zenon DEF BoWriteRefused, sendVars, Goto, End, TreeInv, ValuesOK
  <2>4. CASE BoWritten(r)
    BY <2>4, SMTT(30) DEF BoWritten, sendVars, Goto, End, TreeInv, ValuesOK
  <2>5. CASE BodyEnd(r) \/ Join(r) \/ Sent(r)
    BY <2>5, ZenonT(30) DEF BodyEnd, Join, Sent, sendVars, Goto, End, TreeInv, ValuesOK
  <2> QED BY <2>1, <2>2, <2>3, <2>4, <2>5, Zenon
<1>3. \A q \in Rq : read_offset[q] \in Int
  BY SMTT(30) DEF TreeInv, ValuesOK
<1>4. Forward
  BY <1>2, <1>3, SMTT(30) DEF Forward
<1> QED BY <1>1, <1>4, QuietKept, Zenon

\* read adds at most an empty block, and changes no end.
LEMMA ReadDisk ==
  ASSUME TreeInv, DiskInv, NEW r \in Rq, Read(r)
  PROVE  DiskInv'
<1> DEFINE tree == IF pc[r] = "sending" THEN insert(read_offset[r]) ELSE blocks
<1>1. IsTree(tree) /\ read_offset[r] \in Offset
  BY ReadTree, ZenonT(40)
<1>2. OnDisk(tree, file)
  BY <1>1, InsertOnDisk, Zenon DEF DiskInv
<1>3. PICK b \in DOMAIN tree :
        \/ ReadData(r, tree, b) \/ ReadStop(r, tree, b)
        \/ ReadTakeOver(r, tree, b) \/ ReadWait(r, tree, b)
  BY Zenon DEF Read
<1>4. tree[b] \in Block
  BY <1>1, Zenon DEF IsTree
<1>5. UNCHANGED <<file, progress, body_complete, published, pc, read_end>>
  BY Zenon DEF Read, objVars
<1> HIDE DEF tree
<1>6. PICK x : x.to = tree[b].to /\ blocks' = [tree EXCEPT ![b] = x]
  BY <1>1, <1>3, <1>4, ReadBlock, Zenon
<1>7. OnDisk(blocks, file)'
  BY <1>2, <1>5, <1>6, SameEndsOnDisk, Zenon
<1>8. \A q \in Rq : read_offset[q] <= read_offset'[q] /\ read_offset'[q] \in Int
  <2>1. read_offset \in [Rq -> Offset] /\ read_end \in [Rq -> Offset]
        /\ \A q \in Rq : read_offset[q] <= read_end[q]
    BY Zenon DEF TreeInv, ValuesOK, ReadsInside
  <2>2. CASE read_offset' = read_offset
    BY <2>1, <2>2
  <2>3. CASE ReadData(r, tree, b)
    BY <1>4, <2>1, <2>3, SMTT(30) DEF ReadData, Min, Block
  <2> QED BY <1>3, <2>2, <2>3, Zenon DEF ReadStop, ReadTakeOver, ReadWait
<1>9. Forward
  BY <1>5, <1>8, Zenon DEF Forward
<1>10. CompleteIsWhole
  BY <1>5, ZenonT(30) DEF CompleteIsWhole
<1>11. Saved' /\ file \subseteq file'
  BY <1>5, Zenon DEF DiskInv, Saved
<1> QED BY <1>7, <1>9, <1>10, <1>11, DiskKept, Zenon

\* The reader leaves: the progress file may be saved from the tree.
LEMMA CloseReadDisk ==
  ASSUME TreeInv, DiskInv, NEW r \in Rq, CloseRead(r)
  PROVE  DiskInv'
<1>1. UNCHANGED <<file, blocks, body_complete, published, pc, read_end, read_offset>>
  BY Zenon DEF CloseRead, mainVars
<1>2. OnDisk(blocks, file)' /\ file \subseteq file'
  BY <1>1, Zenon DEF DiskInv, OnDisk
<1>3. Saved'
  BY <1>1, <1>2, CloseSavesDisk, Zenon DEF CloseRead, Saved
<1>4. CompleteIsWhole
  BY <1>1, Zenon DEF CompleteIsWhole
<1>5. Forward
  BY <1>1, Still, Zenon
<1> QED BY <1>2, <1>3, <1>4, <1>5, DiskKept, Zenon

\* The other steps of a send fiber change neither the tree nor an offset.
LEMMA SendDisk ==
  ASSUME TreeInv, DiskInv, NEW r \in Rq, OpenRead(r) \/ ReadFailed(r) \/ ReadNoBlock(r)
  PROVE  DiskInv'
<1>1. Quiet /\ UNCHANGED <<pc, read_end, read_offset>>
  BY Zenon DEF OpenRead, ReadFailed, ReadNoBlock, shared, objVars, mainVars, Quiet
<1>2. Forward
  BY <1>1, Still, Zenon
<1> QED BY <1>1, <1>2, QuietKept, Zenon

\* Every step keeps what is recorded on disk.
LEMMA DiskInvStep == TreeInv /\ DiskInv /\ [Next]_vars => DiskInv'
<1> SUFFICES ASSUME TreeInv, DiskInv, [Next]_vars PROVE DiskInv'
  OBVIOUS
<1>1. CASE UNCHANGED vars
  <2>1. Quiet /\ UNCHANGED <<pc, read_end, read_offset>>
    BY <1>1, Zenon DEF vars, shared, objVars, mainVars, sendVars, Quiet
  <2>2. Forward
    BY <2>1, Still, Zenon
  <2> QED BY <2>1, <2>2, QuietKept, Zenon
<1>2. CASE SwapOutAndIn \/ Crash
  BY <1>2, RestoreDisk, Zenon
<1>3. ASSUME NEW r \in Rq, NEW w \in Ranges, TurnOn(r, w) \/ OpenCache(r, w) PROVE DiskInv'
  BY <1>3, FindDisk, Zenon
<1>4. ASSUME NEW r \in Rq, MainStep(r) PROVE DiskInv'
  <2>1. ASSUME NEW n \in 1 .. MaxChunk, BoWrite(r, n) PROVE DiskInv'
    BY <2>1, BoWriteDisk, Zenon
  <2>2. CASE TurnOnOpenWrite(r) \/ UpstreamHeaded(r) \/ CloseWrite(r) \/ CanSatisfy(r)
    BY <2>2, OpenWriteDisk, CloseWriteDisk, CanSatisfyDisk, Zenon
  <2>3. CASE \/ SendCached(r) \/ UpstreamFailed(r) \/ BoWriteRefused(r)
             \/ BoWritten(r) \/ BodyEnd(r) \/ Join(r) \/ Sent(r)
    BY <2>3, FetchDisk, Zenon
  <2> QED BY <1>4, <2>1, <2>2, <2>3, Zenon DEF MainStep
<1>5. ASSUME NEW r \in Rq, SendStep(r) PROVE DiskInv'
  BY <1>5, ReadDisk, CloseReadDisk, SendDisk, Zenon DEF SendStep
<1>6. CASE Finished
  BY <1>1, <1>6, Zenon DEF Finished
<1> QED BY <1>1, <1>2, <1>3, <1>4, <1>5, <1>6, Zenon DEF Next

\* A block never describes data that is not in the cache file, nor does the progress file or the
\* decision to answer a request from the file alone: an index that is ahead of the data would
\* send holes, after a restart too.
THEOREM CachedDataIsOnDisk == Spec => []CachedBytesOnDisk
<1>1. TreeInv /\ DiskInv /\ [Next]_vars => TreeInv' /\ DiskInv'
  BY TreeInvStep, DiskInvStep, Zenon
<1> QED BY <1>1, TreeInvInit, DiskInvInit, DiskInvMeans, PTL DEF Spec

\* close_write only replaces the object by a completed one when every byte is on disk.
THEOREM PublishedObjectIsWhole == Spec => []PublishedComplete
<1>1. TreeInv /\ DiskInv /\ [Next]_vars => TreeInv' /\ DiskInv'
  BY TreeInvStep, DiskInvStep, Zenon
<1> QED BY <1>1, TreeInvInit, DiskInvInit, DiskInvMeans, PTL DEF Spec

-----------------------------------------------------------------------------
(* The fibers of the requests *)

\* Where a request is while its send_data() runs, and while it writes; how its
\* results come about.
PlaceOK(r) ==
  /\ rpc[r] # "none" => pc[r] \in {"body", "wrote", "close", "join", "sending"}
  /\ pc[r] = "sending" => rpc[r] # "none"
  /\ rpc[r] \in {"loop", "wait"} => send_result[r] = "ok"
  /\ pc[r] \in {"body", "wrote", "close", "release"} => write_offset[r] # -1
  /\ pc[r] \in {"idle", "turned_on", "satisfy", "direct", "join", "done"}
       => write_offset[r] = -1
  /\ pc[r] = "sending" =>
       (write_offset[r] # -1 <=> rpc[r] \in {"close", "exit"} /\ send_result[r] = "net")
  /\ pc[r] = "sending" /\ rpc[r] \in {"close", "exit"} /\ send_result[r] = "ok"
       => read_offset[r] = read_end[r]
  /\ pc[r] = "release" => result[r] # "ok"
  /\ pc[r] = "done" /\ result[r] = "ok" /\ ~creator[r] => read_offset[r] = read_end[r]

Places == \A r \in Rq : PlaceOK(r)

\* No reader of a block of t is ahead of its end.
ReadPoints(t) == \A b \in DOMAIN t : t[b].read_point <= t[b].to

\* The writers of a block of t write inside it, wo being where they opened it; a
\* block without one has no readers, and its writer is not also a merged one.
WritersOf(t, b) == t[b].merged \cup ({t[b].net_fiber} \ {NULL})

WritersIn(t, wo) ==
  \A b \in DOMAIN t :
    /\ t[b].net_fiber = NULL => t[b].wait = {} /\ t[b].merged = {}
    /\ t[b].net_fiber \notin t[b].merged
    /\ \A r \in WritersOf(t, b) : wo[r] # -1 /\ b <= wo[r] /\ wo[r] <= t[b].to

\* Exactly the parked readers are in a queue, of the block that ends where they read.
WaitsIn(t, p, o) ==
  /\ \A b \in DOMAIN t : \A q \in t[b].wait : p[q] = "wait" /\ t[b].to = o[q]
  /\ \A q \in Rq : p[q] = "wait" => \E b \in DOMAIN t : q \in t[b].wait

FiberInv ==
  /\ Places
  /\ ReadPoints(blocks)
  /\ WritersIn(blocks, write_offset)
  /\ WaitsIn(blocks, rpc, read_offset)

\* The inductive invariant implies what the runs check.
LEMMA FiberInvMeans ==
  FiberInv => WaitersHaveWriter /\ ReadersBehindWriter /\ OkMeansAll
<1> SUFFICES ASSUME FiberInv PROVE WaitersHaveWriter /\ ReadersBehindWriter /\ OkMeansAll
  OBVIOUS
<1>1. ReadersBehindWriter
  BY Zenon DEF FiberInv, ReadPoints, ReadersBehindWriter, Froms
<1>2. OkMeansAll
  BY Zenon DEF FiberInv, Places, PlaceOK, OkMeansAll
<1>3. \A r \in Rq : rpc[r] = "wait" <=>
        \E b \in Froms : r \in blocks[b].wait /\ blocks[b].to = read_offset[r]
  BY Zenon DEF FiberInv, WaitsIn, Froms
<1>4. \A b \in Froms :
       /\ blocks[b].net_fiber = NULL => blocks[b].wait = {} /\ blocks[b].merged = {}
       /\ \A r \in blocks[b].merged \cup ({blocks[b].net_fiber} \ {NULL}) :
            Writing(r) /\ Contains(b, write_offset[r])
  BY Zenon DEF FiberInv, WritersIn, WritersOf, Froms, Writing, Contains
<1> QED BY <1>1, <1>2, <1>3, <1>4, Zenon DEF WaitersHaveWriter

LEMMA FiberInvInit == Init => FiberInv
<1> SUFFICES ASSUME Init PROVE FiberInv
  OBVIOUS
<1>1. Places
  BY Zenon DEF Init, Places, PlaceOK
<1>2. ReadPoints(blocks) /\ WritersIn(blocks, write_offset) /\ WaitsIn(blocks, rpc, read_offset)
  BY Zenon DEF Init, ReadPoints, WritersIn, WaitsIn
<1> QED BY <1>1, <1>2, Zenon DEF FiberInv

-----------------------------------------------------------------------------
(* Steps of one request that leave the tree alone *)

\* Nothing of a request other than r changes.
Alone(r) ==
  \A q \in Rq \ {r} :
    /\ pc'[q] = pc[q] /\ rpc'[q] = rpc[q] /\ write_offset'[q] = write_offset[q]
    /\ send_result'[q] = send_result[q] /\ result'[q] = result[q]
    /\ read_offset'[q] = read_offset[q] /\ read_end'[q] = read_end[q]
    /\ creator'[q] = creator[q]

LEMMA AlonePlaces ==
  ASSUME Places, NEW r \in Rq, Alone(r), PlaceOK(r)'
  PROVE  Places'
<1> SUFFICES ASSUME NEW q \in Rq \ {r} PROVE PlaceOK(q)'
  BY Zenon DEF Places
<1>1. /\ pc'[q] = pc[q] /\ rpc'[q] = rpc[q] /\ write_offset'[q] = write_offset[q]
      /\ send_result'[q] = send_result[q] /\ result'[q] = result[q]
      /\ read_offset'[q] = read_offset[q] /\ read_end'[q] = read_end[q]
      /\ creator'[q] = creator[q]
  BY Zenon DEF Alone
<1>2. PlaceOK(q)
  BY Zenon DEF Places
<1> QED BY <1>1, <1>2, Zenon DEF PlaceOK

\* The tree and those that it names stay as they are.
LEMMA SameTreeKept ==
  ASSUME TreeInv, FiberInv, Places', UNCHANGED <<blocks, write_offset>>,
         \A q \in Rq : /\ rpc'[q] = "wait" <=> rpc[q] = "wait"
                       /\ rpc[q] = "wait" => read_offset'[q] = read_offset[q]
  PROVE  FiberInv'
<1>1. ReadPoints(blocks)' /\ WritersIn(blocks, write_offset)'
  BY ZenonT(30) DEF FiberInv, ReadPoints, WritersIn, WritersOf
<1>2. WaitsIn(blocks, rpc, read_offset)'
  <2>1. ASSUME NEW b \in DOMAIN blocks, NEW q \in blocks[b].wait
        PROVE  rpc'[q] = "wait" /\ blocks[b].to = read_offset'[q]
    <3>1. q \in Rq
      BY <2>1, TreeOfInv, Zenon DEF IsTree, Block
    <3> QED BY <3>1, <2>1, Zenon DEF FiberInv, WaitsIn
  <2> QED BY <2>1, ZenonT(30) DEF FiberInv, WaitsIn
<1> QED BY <1>1, <1>2, Zenon DEF FiberInv

\* What such a step has to show of its request.
QuietFor(r) ==
  /\ Alone(r) /\ PlaceOK(r)' /\ UNCHANGED <<blocks, write_offset>>
  /\ rpc'[r] = "wait" <=> rpc[r] = "wait"
  /\ rpc[r] = "wait" => read_offset'[r] = read_offset[r]

LEMMA QuietForKept ==
  ASSUME TreeInv, FiberInv, NEW r \in Rq, QuietFor(r)
  PROVE  FiberInv'
<1>1. Places'
  BY AlonePlaces, Zenon DEF FiberInv, QuietFor
<1>2. \A q \in Rq : /\ rpc'[q] = "wait" <=> rpc[q] = "wait"
                    /\ rpc[q] = "wait" => read_offset'[q] = read_offset[q]
  <2> SUFFICES ASSUME NEW q \in Rq
               PROVE /\ rpc'[q] = "wait" <=> rpc[q] = "wait"
                     /\ rpc[q] = "wait" => read_offset'[q] = read_offset[q]
    OBVIOUS
  <2>1. CASE q = r
    BY <2>1, Zenon DEF QuietFor
  <2>2. CASE q # r
    BY <2>2, Zenon DEF QuietFor, Alone
  <2> QED BY <2>1, <2>2, Zenon
<1> QED BY <1>1, <1>2, SameTreeKept, Zenon DEF QuietFor

\* The types that the steps below rely on.
FiberTypes ==
  /\ pc \in [Rq -> PCs] /\ rpc \in [Rq -> RPCs] /\ result \in [Rq -> Results]
  /\ send_result \in [Rq -> Results] /\ write_offset \in [Rq -> Offset \cup {-1}]
  /\ read_offset \in [Rq -> Offset] /\ read_end \in [Rq -> Offset]
  /\ creator \in [Rq -> BOOLEAN]
  /\ \A q \in Rq : read_offset[q] <= read_end[q]

LEMMA FiberTyped == TreeInv => FiberTypes
BY Zenon DEF TreeInv, ValuesOK, FlagsOK, FiberTypes, ReadsInside

\* Finding the object, and sending it from the file.
LEMMA FindFibers ==
  ASSUME TreeInv, FiberInv, NEW r \in Rq,
         \/ \E w \in Ranges : TurnOn(r, w) \/ OpenCache(r, w)
         \/ CanSatisfy(r) \/ SendCached(r)
  PROVE  FiberInv'
<1>0. FiberTypes /\ PlaceOK(r)
  BY FiberTyped, Zenon DEF FiberInv, Places
<1>1. ASSUME NEW w \in Ranges, TurnOn(r, w) PROVE QuietFor(r)
  <2>1. Alone(r)
    BY <1>0, <1>1, ZenonT(30) DEF TurnOn, Alone, FiberTypes, Goto, End
  <2>2. PlaceOK(r)' /\ UNCHANGED <<blocks, write_offset>> /\ rpc[r] = "none" /\ rpc' = rpc
    BY <1>0, <1>1, Zenon DEF TurnOn, PlaceOK, FiberTypes, Running, Goto, End
  <2> QED BY <2>1, <2>2, Zenon DEF QuietFor
<1>2. ASSUME NEW w \in Ranges, OpenCache(r, w) PROVE QuietFor(r)
  <2>1. Alone(r)
    BY <1>0, <1>2, Zenon DEF OpenCache, Alone, FiberTypes, Goto, End
  <2>2. PlaceOK(r)' /\ UNCHANGED <<blocks, write_offset>> /\ rpc[r] = "none" /\ rpc' = rpc
    BY <1>0, <1>2, Zenon DEF OpenCache, PlaceOK, FiberTypes, Running, Goto, End
  <2> QED BY <2>1, <2>2, Zenon DEF QuietFor
<1>3. ASSUME CanSatisfy(r) PROVE QuietFor(r)
  <2>1. Alone(r)
    BY <1>0, <1>3, Zenon DEF CanSatisfy, Alone, FiberTypes, Goto, sendVars
  <2>2. PlaceOK(r)' /\ UNCHANGED <<blocks, write_offset>> /\ rpc[r] = "none" /\ rpc' = rpc
    BY <1>0, <1>3, Zenon DEF CanSatisfy, PlaceOK, FiberTypes, Running, Goto, shared, sendVars
  <2> QED BY <2>1, <2>2, Zenon DEF QuietFor
<1>4. ASSUME SendCached(r) PROVE QuietFor(r)
  <2>1. Alone(r)
    BY <1>0, <1>4, Zenon DEF SendCached, Alone, FiberTypes, Goto, End
  <2>2. PlaceOK(r)' /\ UNCHANGED <<blocks, write_offset>> /\ rpc[r] = "none" /\ rpc' = rpc
    BY <1>0, <1>4, Zenon DEF SendCached, PlaceOK, FiberTypes, Running, Goto, End, shared
  <2> QED BY <2>1, <2>2, Zenon DEF QuietFor
<1> QED BY <1>1, <1>2, <1>3, <1>4, QuietForKept, Zenon

\* The main fiber between its writes.
LEMMA FetchFibers ==
  ASSUME TreeInv, FiberInv, NEW r \in Rq,
         \/ UpstreamFailed(r) \/ BoWriteRefused(r) \/ BoWritten(r) \/ BodyEnd(r)
         \/ Join(r) \/ Sent(r)
  PROVE  FiberInv'
<1>0. FiberTypes /\ PlaceOK(r)
  BY FiberTyped, Zenon DEF FiberInv, Places
<1> USE DEF FiberTypes, Goto, End, SendGoto, shared, sendVars
<1>1. ASSUME UpstreamFailed(r) PROVE QuietFor(r)
  <2>1. Alone(r)
    BY <1>0, <1>1, Zenon DEF UpstreamFailed, Alone
  <2>2. PlaceOK(r)' /\ UNCHANGED <<blocks, write_offset>> /\ rpc[r] = "none" /\ rpc' = rpc
    BY <1>0, <1>1, Zenon DEF UpstreamFailed, PlaceOK, Running
  <2> QED BY <2>1, <2>2, Zenon DEF QuietFor
<1>2. ASSUME BoWriteRefused(r) \/ BodyEnd(r) PROVE QuietFor(r)
  <2>1. Alone(r)
    BY <1>0, <1>2, Zenon DEF BoWriteRefused, BodyEnd, Alone
  <2>2. PlaceOK(r)' /\ UNCHANGED <<blocks, write_offset>> /\ UNCHANGED <<rpc, read_offset>>
    BY <1>0, <1>2, Zenon DEF BoWriteRefused, BodyEnd, PlaceOK, Running
  <2> QED BY <2>1, <2>2, Zenon DEF QuietFor
<1>3. ASSUME BoWritten(r) PROVE QuietFor(r)
  <2>1. Alone(r)
    BY <1>0, <1>3, ZenonT(30) DEF BoWritten, Alone
  <2>2. PlaceOK(r)' /\ UNCHANGED <<blocks, write_offset, read_offset>>
    BY <1>0, <1>3 DEF BoWritten, PlaceOK, Running
  <2>3. rpc' = rpc \/ (rpc[r] \in {"none", "exit"} /\ rpc'[r] \in {"none", "start"})
    BY <1>0, <1>3, Zenon DEF BoWritten
  <2> QED BY <2>1, <2>2, <2>3, Zenon DEF QuietFor
<1>4. ASSUME Join(r) PROVE QuietFor(r)
  <2>1. Alone(r)
    BY <1>0, <1>4, ZenonT(30) DEF Join, Alone
  <2>2. PlaceOK(r)' /\ UNCHANGED <<blocks, write_offset, read_offset>>
    BY <1>0, <1>4 DEF Join, PlaceOK, Running
  <2>3. rpc[r] \in {"none", "exit"} /\ rpc'[r] \in {"none", "start"}
    BY <1>0, <1>4, Zenon DEF Join
  <2> QED BY <2>1, <2>2, <2>3, Zenon DEF QuietFor
<1>5. ASSUME Sent(r) PROVE QuietFor(r)
  <2>1. Alone(r)
    BY <1>0, <1>5, Zenon DEF Sent, Alone
  <2>2. PlaceOK(r)' /\ UNCHANGED <<blocks, write_offset, read_offset>>
    BY <1>0, <1>5 DEF Sent, PlaceOK, Running
  <2>3. rpc[r] = "exit" /\ rpc'[r] = "none"
    BY <1>0, <1>5, Zenon DEF Sent
  <2> QED BY <2>1, <2>2, <2>3, Zenon DEF QuietFor
<1> QED BY <1>1, <1>2, <1>3, <1>4, <1>5, QuietForKept, Zenon

\* send_data() where it reads nothing.
LEMMA SendFibers ==
  ASSUME TreeInv, FiberInv, NEW r \in Rq,
         OpenRead(r) \/ ReadFailed(r) \/ ReadNoBlock(r) \/ CloseRead(r)
  PROVE  FiberInv'
<1>0. FiberTypes /\ PlaceOK(r)
  BY FiberTyped, Zenon DEF FiberInv, Places
<1> USE DEF FiberTypes, SendGoto, SendEnd, shared, mainVars
<1>1. Alone(r)
  BY <1>0, Zenon DEF OpenRead, ReadFailed, ReadNoBlock, CloseRead, Alone
<1>2. UNCHANGED <<blocks, write_offset, read_offset, pc, read_end, result, creator>>
  BY Zenon DEF OpenRead, ReadFailed, ReadNoBlock, CloseRead
<1>3. rpc[r] \in {"start", "loop", "close"} /\ rpc'[r] \in {"loop", "exit", "close"}
  BY <1>0, Zenon DEF OpenRead, ReadFailed, ReadNoBlock, CloseRead, Sending
<1>4. PlaceOK(r)'
  <2>1. CASE OpenRead(r)
    BY <1>0, <1>2, <2>1, Zenon DEF OpenRead, PlaceOK, Sending
  <2>2. CASE ReadFailed(r) \/ ReadNoBlock(r)
    BY <1>0, <1>2, <2>2, Zenon DEF ReadFailed, ReadNoBlock, PlaceOK, Sending
  <2>3. CASE CloseRead(r)
    BY <1>0, <1>2, <2>3, Zenon DEF CloseRead, PlaceOK, Sending
  <2> QED BY <2>1, <2>2, <2>3, Zenon
<1>5. QuietFor(r)
  BY <1>1, <1>2, <1>3, <1>4, Zenon DEF QuietFor
<1> QED BY <1>5, QuietForKept, Zenon

-----------------------------------------------------------------------------
(* One block of a tree is replaced *)

\* A new read_point that is not ahead.
LEMMA PointReplaced ==
  ASSUME NEW t, ReadPoints(t), NEW b \in DOMAIN t, NEW x, x.read_point <= x.to
  PROVE  ReadPoints([t EXCEPT ![b] = x])
BY Zenon DEF ReadPoints

\* The same queue at the same end.
LEMMA QueueReplaced ==
  ASSUME NEW t, NEW p, NEW o, WaitsIn(t, p, o), NEW b \in DOMAIN t, NEW x,
         x.to = t[b].to, x.wait = t[b].wait
  PROVE  WaitsIn([t EXCEPT ![b] = x], p, o)
<1> DEFINE u == [t EXCEPT ![b] = x]
<1>1. DOMAIN u = DOMAIN t /\ \A c \in DOMAIN t : u[c].to = t[c].to /\ u[c].wait = t[c].wait
  OBVIOUS
<1> HIDE DEF u
<1>2. WaitsIn(u, p, o)
  BY <1>1, Zenon DEF WaitsIn
<1> QED BY <1>2, Zenon DEF u

\* The same writers at the same end, where there is one to serve the queue.
LEMMA WritersReplaced ==
  ASSUME NEW t, NEW wo, WritersIn(t, wo), NEW b \in DOMAIN t, NEW x,
         x.to = t[b].to, x.net_fiber = t[b].net_fiber, x.merged = t[b].merged,
         x.net_fiber = NULL => x.wait = {}
  PROVE  WritersIn([t EXCEPT ![b] = x], wo)
<1> DEFINE u == [t EXCEPT ![b] = x]
<1>1. /\ DOMAIN u = DOMAIN t /\ u[b] = x
      /\ \A c \in DOMAIN t : u[c].to = t[c].to /\ WritersOf(u, c) = WritersOf(t, c)
      /\ \A c \in DOMAIN t : c # b => u[c] = t[c]
  BY Zenon DEF WritersOf
<1> HIDE DEF u
<1>2. ASSUME NEW c \in DOMAIN u
      PROVE  /\ u[c].net_fiber = NULL => u[c].wait = {} /\ u[c].merged = {}
             /\ u[c].net_fiber \notin u[c].merged
             /\ \A r \in WritersOf(u, c) : wo[r] # -1 /\ c <= wo[r] /\ wo[r] <= u[c].to
  <2>1. \A r \in WritersOf(u, c) : wo[r] # -1 /\ c <= wo[r] /\ wo[r] <= u[c].to
    BY <1>1, <1>2, Zenon DEF WritersIn
  <2>2. CASE c = b
    BY <1>1, <1>2, <2>1, <2>2, Zenon DEF WritersIn
  <2>3. CASE c # b
    BY <1>1, <1>2, <2>1, <2>3, Zenon DEF WritersIn
  <2> QED BY <2>2, <2>3, Zenon
<1>3. WritersIn(u, wo)
  BY <1>2, Zenon DEF WritersIn
<1> QED BY <1>3, Zenon DEF u

\* r, which was not writing, becomes the writer of b.
LEMMA WriterAdded ==
  ASSUME NEW t, IsTree(t), NEW wo \in [Rq -> Offset \cup {-1}], WritersIn(t, wo),
         NEW b \in DOMAIN t, NEW r \in Rq, wo[r] = -1, NEW x, NEW o \in Offset,
         b <= o, o <= t[b].to,
         x.to = t[b].to, x.net_fiber = r, x.merged = t[b].merged
  PROVE  WritersIn([t EXCEPT ![b] = x], [wo EXCEPT ![r] = o])
<1> DEFINE u == [t EXCEPT ![b] = x]
           w == [wo EXCEPT ![r] = o]
<1>1. /\ DOMAIN u = DOMAIN t /\ u[b] = x
      /\ \A c \in DOMAIN t : c # b => u[c] = t[c]
  OBVIOUS
<1>2. /\ w[r] = o /\ o # -1 /\ r # NULL
      /\ \A q \in Rq : q # r => w[q] = wo[q]
  OBVIOUS
<1>3. \A c \in DOMAIN t : \A q \in WritersOf(t, c) : q \in Rq /\ q # r
  BY DEF WritersIn, WritersOf, IsTree, Block
<1> HIDE DEF u, w
<1>4. ASSUME NEW c \in DOMAIN u
      PROVE  /\ u[c].net_fiber = NULL => u[c].wait = {} /\ u[c].merged = {}
             /\ u[c].net_fiber \notin u[c].merged
             /\ \A q \in WritersOf(u, c) : w[q] # -1 /\ c <= w[q] /\ w[q] <= u[c].to
  <2>1. CASE c = b
    <3>1. r \notin x.merged
      BY <1>3, Zenon DEF WritersOf
    <3>2. \A q \in WritersOf(u, b) : q = r \/ q \in WritersOf(t, b)
      BY <1>1, Zenon DEF WritersOf
    <3>3. \A q \in WritersOf(t, b) : w[q] # -1 /\ b <= w[q] /\ w[q] <= t[b].to
      BY <1>2, <1>3, Zenon DEF WritersIn
    <3> QED BY <1>1, <1>2, <2>1, <3>1, <3>2, <3>3, Zenon
  <2>2. CASE c # b
    <3>1. u[c] = t[c] /\ c \in DOMAIN t /\ WritersOf(u, c) = WritersOf(t, c)
      BY <1>1, <1>4, <2>2, Zenon DEF WritersOf
    <3>2. \A q \in WritersOf(t, c) : w[q] # -1 /\ c <= w[q] /\ w[q] <= t[c].to
      BY <1>2, <1>3, <3>1, ZenonT(30) DEF WritersIn
    <3> QED BY <3>1, <3>2, Zenon DEF WritersIn
  <2> QED BY <2>1, <2>2, Zenon
<1>5. WritersIn(u, w)
  BY <1>4, Zenon DEF WritersIn
<1> QED BY <1>5, Zenon DEF u, w

\* insert() adds at most a block without readers and writers.
LEMMA InsertFibers ==
  ASSUME TreeInv, FiberInv, NEW o \in Offset
  PROVE  /\ ReadPoints(insert(o))
         /\ WritersIn(insert(o), write_offset)
         /\ WaitsIn(insert(o), rpc, read_offset)
<1> DEFINE t == insert(o)
<1>1. /\ IsTree(t) /\ Froms \subseteq DOMAIN t
      /\ \A b \in DOMAIN t : t[b] = IF b \in Froms THEN blocks[b] ELSE EmptyBlock(b)
  BY InsertTree, TreeOfInv, Zenon
<1> HIDE DEF t
<1>2. \A b \in DOMAIN t : b \notin Froms =>
        /\ t[b].to = b /\ t[b].read_point = 0 /\ t[b].net_fiber = NULL
        /\ t[b].merged = {} /\ t[b].wait = {} /\ b \in Offset
  BY <1>1 DEF EmptyBlock, IsTree
<1>3. \A b \in DOMAIN t : b \in Froms => t[b] = blocks[b] /\ b \in DOMAIN blocks
  BY <1>1, Zenon DEF Froms
<1>4. ReadPoints(t)
  BY <1>2, <1>3 DEF ReadPoints, FiberInv
<1>5. WritersIn(t, write_offset)
  <2> SUFFICES ASSUME NEW b \in DOMAIN t
               PROVE  /\ t[b].net_fiber = NULL => t[b].wait = {} /\ t[b].merged = {}
                      /\ t[b].net_fiber \notin t[b].merged
                      /\ \A r \in WritersOf(t, b) :
                           /\ write_offset[r] # -1 /\ b <= write_offset[r]
                           /\ write_offset[r] <= t[b].to
    BY Zenon DEF WritersIn
  <2>1. CASE b \notin Froms
    BY <1>2, <2>1, Zenon DEF WritersOf
  <2>2. CASE b \in Froms
    <3>1. t[b] = blocks[b] /\ b \in DOMAIN blocks /\ WritersOf(t, b) = WritersOf(blocks, b)
      BY <1>3, <2>2, Zenon DEF WritersOf
    <3> QED BY <3>1, Zenon DEF FiberInv, WritersIn
  <2> QED BY <2>1, <2>2, Zenon
<1>6. WaitsIn(t, rpc, read_offset)
  <2>1. ASSUME NEW b \in DOMAIN t, NEW q \in t[b].wait
        PROVE  rpc[q] = "wait" /\ t[b].to = read_offset[q]
    <3>1. b \in Froms /\ t[b] = blocks[b] /\ b \in DOMAIN blocks
      BY <1>2, <1>3, <2>1, Zenon
    <3> QED BY <2>1, <3>1, Zenon DEF FiberInv, WaitsIn
  <2>2. ASSUME NEW q \in Rq, rpc[q] = "wait" PROVE \E b \in DOMAIN t : q \in t[b].wait
    <3>1. PICK b \in DOMAIN blocks : q \in blocks[b].wait
      BY <2>2, Zenon DEF FiberInv, WaitsIn
    <3>2. b \in DOMAIN t /\ t[b] = blocks[b]
      BY <1>1, <1>3, Zenon DEF Froms
    <3> QED BY <3>1, <3>2, Zenon
  <2> QED BY <2>1, <2>2, Zenon DEF WaitsIn
<1> QED BY <1>4, <1>5, <1>6, Zenon DEF t

-----------------------------------------------------------------------------
(* Steps that change the tree *)

\* open_write: r becomes the writer of the block at o.
LEMMA OpenWriteQueues ==
  ASSUME TreeInv, FiberInv, NEW r \in Rq, NEW o \in Offset, write_offset[r] = -1,
         OpenWrite(r, o), UNCHANGED <<rpc, read_offset>>
  PROVE  /\ ReadPoints(blocks)'
         /\ WritersIn(blocks, write_offset)'
         /\ WaitsIn(blocks, rpc, read_offset)'
<1> DEFINE t == insert(o)
<1>1. PICK b \in DOMAIN t : /\ b <= o /\ o <= t[b].to
                            /\ blocks' = [t EXCEPT ![b].net_fiber = r]
  BY Zenon DEF OpenWrite
<1>2. write_offset' = [write_offset EXCEPT ![r] = o]
  BY Zenon DEF OpenWrite
<1>3. /\ ReadPoints(t) /\ WritersIn(t, write_offset) /\ WaitsIn(t, rpc, read_offset)
      /\ IsTree(t)
  BY InsertFibers, InsertTree, TreeOfInv, Zenon
<1>4. write_offset \in [Rq -> Offset \cup {-1}]
  BY Zenon DEF TreeInv, ValuesOK
<1> HIDE DEF t
<1> DEFINE x == [t[b] EXCEPT !.net_fiber = r]
<1>5. /\ x.to = t[b].to /\ x.net_fiber = r /\ x.merged = t[b].merged /\ x.wait = t[b].wait
      /\ x.read_point = t[b].read_point
  BY <1>3, Zenon DEF IsTree, Block
<1>6. blocks' = [t EXCEPT ![b] = x]
  BY <1>1, Zenon
<1> HIDE DEF x
<1>7. ReadPoints([t EXCEPT ![b] = x])
  BY <1>3, <1>5, PointReplaced, Zenon DEF ReadPoints
<1>8. WaitsIn([t EXCEPT ![b] = x], rpc, read_offset)
  BY <1>3, <1>5, QueueReplaced, Zenon
<1>9. WritersIn([t EXCEPT ![b] = x], [write_offset EXCEPT ![r] = o])
  BY <1>1, <1>3, <1>4, <1>5, WriterAdded, Zenon
<1> QED BY <1>2, <1>6, <1>7, <1>8, <1>9, Zenon

\* The writer opens its block.
LEMMA OpenWriteFibers ==
  ASSUME TreeInv, FiberInv, NEW r \in Rq, TurnOnOpenWrite(r) \/ UpstreamHeaded(r)
  PROVE  FiberInv'
<1>0. FiberTypes /\ PlaceOK(r) /\ offset[r] \in Offset /\ read_offset[r] \in Offset
  BY FiberTyped, Zenon DEF FiberInv, Places, TreeInv, ValuesOK
<1>1. \/ write_offset[r] = -1 /\ \E o \in Offset : OpenWrite(r, o)
      \/ write_offset[r] # -1 /\ UNCHANGED <<blocks, write_offset>>
  BY <1>0, Zenon DEF TurnOnOpenWrite, UpstreamHeaded, PlaceOK, Running
<1>2. /\ pc[r] \in {"turned_on", "fetch"} /\ pc' = [pc EXCEPT ![r] = "body"]
      /\ UNCHANGED <<result, creator, rpc, read_offset, read_end, send_result>>
  BY Zenon DEF TurnOnOpenWrite, UpstreamHeaded, Running, Goto, sendVars
<1>3. \E o \in Offset : \/ write_offset' = [write_offset EXCEPT ![r] = o]
                        \/ write_offset[r] # -1 /\ write_offset' = write_offset
  BY <1>0, <1>1, Zenon DEF OpenWrite
<1>4. Alone(r) /\ PlaceOK(r)'
  BY <1>0, <1>2, <1>3 DEF Alone, PlaceOK, FiberTypes
<1>5. CASE write_offset[r] = -1
  <2>1. /\ ReadPoints(blocks)' /\ WritersIn(blocks, write_offset)'
        /\ WaitsIn(blocks, rpc, read_offset)'
    BY <1>1, <1>2, <1>5, OpenWriteQueues, Zenon
  <2>2. Places'
    BY <1>4, AlonePlaces, Zenon DEF FiberInv
  <2> QED BY <2>1, <2>2, Zenon DEF FiberInv
<1>6. CASE write_offset[r] # -1
  <2>1. QuietFor(r)
    BY <1>1, <1>2, <1>4, <1>6, Zenon DEF QuietFor
  <2> QED BY <2>1, QuietForKept, Zenon
<1> QED BY <1>5, <1>6, Zenon

\* read() of data, at an end nobody writes, and as the next writer.
LEMMA ReadOnFibers ==
  ASSUME TreeInv, FiberInv, NEW r \in Rq, Sending(r, "loop"), NEW t, NEW b \in DOMAIN t,
         IsTree(t), ReadPoints(t), WritersIn(t, write_offset), WaitsIn(t, rpc, read_offset),
         b <= read_offset[r], read_offset[r] <= t[b].to,
         ReadData(r, t, b) \/ ReadStop(r, t, b) \/ ReadTakeOver(r, t, b) \/ ReadWait(r, t, b),
         UNCHANGED <<pc, result, creator, read_end>>
  PROVE  FiberInv'
<1>0. /\ FiberTypes /\ PlaceOK(r) /\ rpc[r] = "loop" /\ t[b] \in Block
      /\ write_offset \in [Rq -> Offset \cup {-1}] /\ read_offset[r] \in Offset
      /\ DOMAIN t \subseteq Offset /\ t[b].wait \subseteq Rq
  BY FiberTyped, Zenon DEF FiberInv, Places, FiberTypes, Sending, IsTree, Block
<1> DEFINE o == read_offset[r]
           seen == [t[b] EXCEPT !.read_point = Watermark(o, @)]
<1>1. /\ seen.to = t[b].to /\ seen.net_fiber = t[b].net_fiber /\ seen.merged = t[b].merged
      /\ seen.wait = t[b].wait /\ seen.read_point <= seen.to /\ seen \in Block
  BY <1>0, Zenon DEF Block, Watermark, ReadPoints
<1>2. r \notin t[b].wait /\ \A c \in DOMAIN t : r \notin t[c].wait
  BY <1>0, Zenon DEF WaitsIn
<1>3. CASE ReadData(r, t, b) \/ ReadStop(r, t, b)
  <2>1. blocks' = [t EXCEPT ![b] = seen] /\ write_offset' = write_offset
    BY <1>3, Zenon DEF ReadData, ReadStop
  <2>2. rpc'[r] \in {"loop", "close"} /\ \A q \in Rq \ {r} : rpc'[q] = rpc[q] /\ read_offset'[q] = read_offset[q]
    BY <1>0, <1>3, Zenon DEF ReadData, ReadStop, SendGoto, SendEnd, SentUpTo, FiberTypes
  <2>3. Alone(r)
    BY <1>0, <1>3, <2>2, Zenon DEF ReadData, ReadStop, SendEnd, Alone, FiberTypes
  <2>4. PlaceOK(r)'
    <3>1. CASE ReadData(r, t, b)
      <4> DEFINE k == o + Min(Min(MaxChunk, read_end[r] - o), t[b].to - o)
      <4>1. /\ read_offset' = [read_offset EXCEPT ![r] = k]
            /\ rpc' = [rpc EXCEPT ![r] = IF k < read_end[r] THEN "loop" ELSE "close"]
        BY <3>1, ZenonT(30) DEF ReadData, SendGoto, SentUpTo
      <4>3. k \in Int /\ k <= read_end[r] /\ read_end[r] \in Int
        BY <1>0, SMTT(30) DEF FiberTypes, Min, Block
      <4> HIDE DEF k
      <4>2. UNCHANGED <<send_result, write_offset>>
        BY <3>1, ZenonT(30) DEF ReadData
      <4>a. /\ read_offset'[r] = k
            /\ rpc'[r] = IF k < read_end[r] THEN "loop" ELSE "close"
        BY <1>0, <4>1, ZenonT(30) DEF FiberTypes
      <4>b. k < read_end[r] \/ k = read_end[r]
        BY <4>3, LessOrEqual, Zenon
      <4>4. read_offset'[r] = k /\ (rpc'[r] = "close" => k = read_end[r])
            /\ rpc'[r] \in {"loop", "close"}
        BY <4>a, <4>b, Zenon
      <4> QED BY <1>0, <4>2, <4>4, Zenon DEF PlaceOK
    <3>2. CASE ReadStop(r, t, b)
      BY <1>0, <3>2, Zenon DEF ReadStop, SendEnd, SendGoto, PlaceOK, FiberTypes
    <3> QED BY <1>3, <3>1, <3>2, Zenon
  <2>5. WritersIn([t EXCEPT ![b] = seen], write_offset) /\ ReadPoints([t EXCEPT ![b] = seen])
    <3>1. seen.net_fiber = NULL => seen.wait = {}
      BY <1>1, Zenon DEF WritersIn
    <3> HIDE DEF seen
    <3> QED BY <1>1, <3>1, WritersReplaced, PointReplaced, Zenon
  <2>6. WaitsIn([t EXCEPT ![b] = seen], rpc, read_offset)
    BY <1>1, QueueReplaced, Zenon
  <2>7. WaitsIn([t EXCEPT ![b] = seen], rpc', read_offset')
    <3> DEFINE u == [t EXCEPT ![b] = seen]
    <3>1. \A c \in DOMAIN u : u[c].wait \subseteq Rq \ {r}
      BY <1>0, <1>1, <1>2 DEF IsTree, Block
    <3> HIDE DEF u
    <3>2. WaitsIn(u, rpc, read_offset)
      BY <2>6, Zenon DEF u
    <3>3. WaitsIn(u, rpc', read_offset')
      BY <1>0, <2>2, <3>1, <3>2, ZenonT(30) DEF WaitsIn
    <3> QED BY <3>3, Zenon DEF u
  <2> QED BY <2>1, <2>3, <2>4, <2>5, <2>7, AlonePlaces, Zenon DEF FiberInv
<1>4. CASE ReadTakeOver(r, t, b)
  <2> DEFINE x == [seen EXCEPT !.net_fiber = r]
  <2>1. /\ x.to = t[b].to /\ x.net_fiber = r /\ x.merged = t[b].merged
        /\ x.wait = t[b].wait /\ x.read_point <= x.to
    BY <1>1, Zenon DEF Block
  <2>2. blocks' = [t EXCEPT ![b] = x] /\ write_offset' = [write_offset EXCEPT ![r] = o]
    BY <1>4, Zenon DEF ReadTakeOver
  <2> HIDE DEF x
  <2>3. /\ rpc' = [rpc EXCEPT ![r] = "close"] /\ send_result' = [send_result EXCEPT ![r] = "net"]
        /\ read_offset' = read_offset /\ pc[r] = "sending"
    BY <1>4, Zenon DEF ReadTakeOver, SendEnd, SendGoto
  <2>4. write_offset[r] = -1
    BY <1>0, <2>3, Zenon DEF PlaceOK
  <2>5. Alone(r) /\ PlaceOK(r)'
    BY <1>0, <2>2, <2>3 DEF Alone, PlaceOK, FiberTypes
  <2>6. WritersIn([t EXCEPT ![b] = x], [write_offset EXCEPT ![r] = o])
    BY <1>0, <2>1, <2>4, WriterAdded, Zenon
  <2>7. ReadPoints([t EXCEPT ![b] = x])
    BY <2>1, PointReplaced, Zenon
  <2>8. WaitsIn([t EXCEPT ![b] = x], rpc, read_offset)
    BY <2>1, QueueReplaced, Zenon
  <2>9. WaitsIn([t EXCEPT ![b] = x], rpc', read_offset')
    <3> DEFINE u == [t EXCEPT ![b] = x]
    <3>1. \A c \in DOMAIN u : u[c].wait \subseteq Rq \ {r}
      BY <1>0, <1>2, <2>1 DEF IsTree, Block
    <3> HIDE DEF u
    <3>2. WaitsIn(u, rpc, read_offset)
      BY <2>8, Zenon DEF u
    <3>3. WaitsIn(u, rpc', read_offset')
      BY <1>0, <2>3, <3>1, <3>2, ZenonT(30) DEF WaitsIn, FiberTypes
    <3> QED BY <3>3, Zenon DEF u
  <2> QED BY <2>2, <2>5, <2>6, <2>7, <2>9, AlonePlaces, Zenon DEF FiberInv
<1>5. CASE ReadWait(r, t, b)
  <2> DEFINE x == [seen EXCEPT !.wait = @ \cup {r}]
  <2>1. /\ x.to = t[b].to /\ x.net_fiber = t[b].net_fiber /\ x.merged = t[b].merged
        /\ x.wait = t[b].wait \cup {r} /\ x.read_point <= x.to
    BY <1>1, Zenon DEF Block
  <2>2. blocks' = [t EXCEPT ![b] = x]
    BY <1>0, <1>5, Zenon DEF ReadWait, IsTree, Block
  <2> HIDE DEF x
  <2>3. /\ rpc' = [rpc EXCEPT ![r] = "wait"] /\ o = t[b].to /\ t[b].net_fiber # NULL
        /\ UNCHANGED <<read_offset, write_offset, send_result>>
    BY <1>5, Zenon DEF ReadWait, SendGoto
  <2>4. Alone(r) /\ PlaceOK(r)'
    BY <1>0, <2>3, Zenon DEF Alone, PlaceOK, FiberTypes
  <2>5. WritersIn([t EXCEPT ![b] = x], write_offset) /\ ReadPoints([t EXCEPT ![b] = x])
    BY <2>1, <2>3, WritersReplaced, PointReplaced, Zenon
  <2>6. WaitsIn([t EXCEPT ![b] = x], rpc', read_offset)
    <3> DEFINE u == [t EXCEPT ![b] = x]
    <3>1. /\ DOMAIN u = DOMAIN t
          /\ \A c \in DOMAIN t : /\ u[c].to = t[c].to
                                 /\ u[c].wait = IF c = b THEN t[c].wait \cup {r} ELSE t[c].wait
                                 /\ t[c].wait \subseteq Rq
      BY <2>1, ZenonT(30) DEF IsTree, Block
    <3> HIDE DEF u
    <3>5. /\ rpc'[r] = "wait" /\ t[b].to = read_offset[r] /\ b \in DOMAIN t
          /\ \A q \in Rq : q = r \/ rpc'[q] = rpc[q]
      BY <1>0, <2>3, Zenon DEF FiberTypes
    <3>2. \A c \in DOMAIN u : \A q \in u[c].wait : rpc'[q] = "wait" /\ u[c].to = read_offset[q]
      <4> SUFFICES ASSUME NEW c \in DOMAIN u, NEW q \in u[c].wait
                   PROVE  rpc'[q] = "wait" /\ u[c].to = read_offset[q]
        BY Zenon
      <4>1. u[c].to = t[c].to /\ c \in DOMAIN t
        BY <3>1, Zenon
      <4>2. CASE c = b /\ q = r
        BY <3>5, <4>1, <4>2, Zenon
      <4>3. CASE q \in t[c].wait
        <5>1. q \in Rq /\ rpc[q] = "wait" /\ t[c].to = read_offset[q]
          BY <3>1, <4>1, <4>3, Zenon DEF WaitsIn
        <5> QED BY <3>5, <4>1, <5>1, Zenon
      <4> QED BY <3>1, <4>1, <4>2, <4>3, ZenonT(30)
    <3>3. \A q \in Rq : rpc'[q] = "wait" => \E c \in DOMAIN u : q \in u[c].wait
      BY <3>1, <3>5, ZenonT(30) DEF WaitsIn
    <3>4. WaitsIn(u, rpc', read_offset)
      BY <3>2, <3>3, Zenon DEF WaitsIn
    <3> QED BY <3>4, Zenon DEF u
  <2> QED BY <2>2, <2>3, <2>4, <2>5, <2>6, AlonePlaces, Zenon DEF FiberInv
<1> QED BY <1>3, <1>4, <1>5, Zenon

LEMMA ReadFibers ==
  ASSUME TreeInv, FiberInv, NEW r \in Rq, Read(r)
  PROVE  FiberInv'
<1> DEFINE t == IF pc[r] = "sending" THEN insert(read_offset[r]) ELSE blocks
<1>1. /\ Sending(r, "loop") /\ UNCHANGED <<pc, result, creator, read_end>>
  BY Zenon DEF Read
<1>2. PICK b \in DOMAIN t :
        /\ b <= read_offset[r] /\ read_offset[r] <= t[b].to
        /\ ReadData(r, t, b) \/ ReadStop(r, t, b) \/ ReadTakeOver(r, t, b) \/ ReadWait(r, t, b)
  BY Zenon DEF Read
<1>3. read_offset[r] \in Offset
  BY FiberTyped, Zenon DEF FiberTypes
<1>4. IsTree(t) /\ ReadPoints(t) /\ WritersIn(t, write_offset) /\ WaitsIn(t, rpc, read_offset)
  <2>1. CASE pc[r] = "sending"
    <3>1. t = insert(read_offset[r])
      BY <2>1, Zenon
    <3> QED BY <1>3, <3>1, InsertFibers, InsertTree, TreeOfInv, Zenon
  <2>2. CASE pc[r] # "sending"
    <3>1. t = blocks
      BY <2>2, Zenon
    <3> QED BY <3>1, TreeOfInv, Zenon DEF FiberInv
  <2> QED BY <2>1, <2>2, Zenon
<1> HIDE DEF t
<1> QED BY <1>1, <1>2, <1>4, ReadOnFibers, Zenon

\* The memory of the object is lost when no send_data() runs.
LEMMA RestoredFibers ==
  ASSUME TreeInv, Places', blocks' = Restored, \A q \in Rq : rpc'[q] = "none"
  PROVE  FiberInv'
<1>1. \A b \in DOMAIN blocks' :
        /\ blocks'[b].to = progress[b] /\ blocks'[b].read_point = 0
        /\ blocks'[b].net_fiber = NULL /\ blocks'[b].merged = {} /\ blocks'[b].wait = {}
        /\ progress[b] \in Nat
  BY SMTT(30) DEF Restored, EmptyBlock, TreeInv, ValuesOK
<1>2. ReadPoints(blocks)'
  BY <1>1 DEF ReadPoints
<1>3. WritersIn(blocks, write_offset)'
  BY <1>1, Zenon DEF WritersIn, WritersOf
<1>4. WaitsIn(blocks, rpc, read_offset)'
  BY <1>1, Zenon DEF WaitsIn
<1> QED BY <1>2, <1>3, <1>4, Zenon DEF FiberInv

LEMMA RestoreFibers ==
  ASSUME TreeInv, FiberInv, SwapOutAndIn \/ Crash
  PROVE  FiberInv'
<1>0. FiberTypes /\ Places
  BY FiberTyped, Zenon DEF FiberInv
<1>1. CASE SwapOutAndIn
  <2>1. /\ blocks' = Restored
        /\ UNCHANGED <<pc, rpc, write_offset, send_result, result, read_offset, read_end, creator>>
    BY <1>1, Zenon DEF SwapOutAndIn, mainVars, sendVars
  <2>2. \A q \in Rq : rpc[q] = "none"
    BY <1>0, <1>1, Zenon DEF SwapOutAndIn, Using, Places, PlaceOK
  <2>3. Places'
    BY <1>0, <2>1, Zenon DEF Places, PlaceOK
  <2> QED BY <2>1, <2>2, <2>3, RestoredFibers, Zenon
<1>2. CASE Crash
  <2>1. blocks' = Restored /\ \A q \in Rq : rpc'[q] = "none"
    BY <1>2, Zenon DEF Crash
  <2>2. \A q \in Rq : PlaceOK(q)'
    <3> SUFFICES ASSUME NEW q \in Rq PROVE PlaceOK(q)'
      BY Zenon
    <3>1. /\ rpc'[q] = "none" /\ write_offset'[q] = -1 /\ PlaceOK(q)
          /\ pc'[q] = IF Using(q) THEN "done" ELSE pc[q]
          /\ result'[q] = IF Using(q) THEN "err" ELSE result[q]
          /\ UNCHANGED <<creator, read_offset, read_end, send_result>>
      BY <1>0, <1>2, Zenon DEF Crash, Places
    <3> QED BY <3>1, Zenon DEF PlaceOK, Using
  <2> QED BY <2>1, <2>2, RestoredFibers, Zenon DEF Places
<1> QED BY <1>1, <1>2, Zenon

\* The readers in the queues of a tree are parked, each in one queue.
LEMMA OneQueue ==
  ASSUME NEW t, IsTree(t), Separated(t), NEW p, NEW o, WaitsIn(t, p, o),
         NEW b \in DOMAIN t, NEW c \in DOMAIN t, NEW q \in t[b].wait, q \in t[c].wait
  PROVE  b = c
<1>1. t[b].to = t[c].to
  BY Zenon DEF WaitsIn
<1>2. /\ b \in Int /\ c \in Int /\ b <= t[b].to /\ c <= t[c].to
      /\ b < c => t[b].to < c
      /\ c < b => t[c].to < b
      /\ t[b].to \in Int
  BY DEF IsTree, Block, Separated
<1> QED BY <1>1, <1>2

\* What close_write leaves of the block that r writes.
LEMMA RemovedBlock ==
  ASSUME IsTree(blocks), WritersIn(blocks, write_offset), ReadPoints(blocks),
         Separated(blocks), NEW r \in Rq, NEW b \in Froms, NEW new \in WriterRemoved(b, r)
  PROVE  /\ new.to = blocks[b].to /\ new.read_point <= new.to
         /\ new.net_fiber # NULL => new.wait = blocks[b].wait
         /\ new.net_fiber = NULL => new.wait = {} /\ new.merged = {}
         /\ new.net_fiber \notin new.merged
         /\ \A q \in new.merged \cup ({new.net_fiber} \ {NULL}) :
              q \in WritersOf(blocks, b) /\ q # r
<1> DEFINE old == blocks[b]
<1>1. /\ old \in Block /\ old.net_fiber \notin old.merged
      /\ old.net_fiber = NULL => old.wait = {} /\ old.merged = {}
      /\ old.read_point <= old.to /\ b <= old.to /\ b \in Int /\ r # NULL
  BY SMTT(30) DEF IsTree, WritersIn, ReadPoints, Froms, Separated
<1>2. WritersOf(blocks, b) = old.merged \cup ({old.net_fiber} \ {NULL})
  BY Zenon DEF WritersOf
<1> HIDE DEF old
<1>3. /\ old.merged \subseteq Rq /\ old.to \in Int /\ old.read_point \in Int
  BY <1>1, SMTT(30) DEF Block
<1>4. CASE r \notin old.merged \cup {old.net_fiber}
  <2>1. new = old
    BY <1>4, Zenon DEF WriterRemoved, old
  <2> QED BY <1>1, <1>2, <1>4, <2>1, Zenon DEF old
<1>5. CASE r \in old.merged /\ r # old.net_fiber
  <2>1. PICK x \in {[old EXCEPT !.merged = @ \ {r}]} :
          new = IF x.net_fiber = NULL THEN [x EXCEPT !.read_point = b, !.wait = {}] ELSE x
    BY <1>5, Zenon DEF WriterRemoved, old
  <2>2. x.net_fiber = old.net_fiber /\ x.merged = old.merged \ {r} /\ x.to = old.to
        /\ x.wait = old.wait /\ x.read_point = old.read_point
    BY <1>1, <2>1, Zenon DEF Block
  <2>3. old.net_fiber # NULL
    BY <1>1, <1>5, Zenon
  <2>4. new = x
    BY <2>1, <2>2, <2>3, Zenon
  <2> QED BY <1>1, <1>2, <1>5, <2>2, <2>3, <2>4, Zenon DEF old
<1>6. CASE r = old.net_fiber /\ old.merged = {}
  <2>1. PICK x \in {[old EXCEPT !.net_fiber = NULL]} :
          new = IF x.net_fiber = NULL THEN [x EXCEPT !.read_point = b, !.wait = {}] ELSE x
    BY <1>6, Zenon DEF WriterRemoved, old
  <2>2. x.net_fiber = NULL /\ x.merged = {} /\ x.to = old.to /\ x \in Block
    BY <1>1, <1>6, <2>1, Zenon DEF Block
  <2>3. /\ new.net_fiber = NULL /\ new.merged = {} /\ new.to = old.to /\ new.wait = {}
        /\ new.read_point = b
    BY <2>1, <2>2, Zenon DEF Block
  <2> QED BY <1>1, <2>3, Zenon DEF old
<1>7. CASE r = old.net_fiber /\ old.merged # {}
  <2>1. PICK x \in {[old EXCEPT !.net_fiber = m, !.merged = @ \ {m}] : m \in old.merged} :
          new = IF x.net_fiber = NULL THEN [x EXCEPT !.read_point = b, !.wait = {}] ELSE x
    BY <1>7, ZenonT(30) DEF WriterRemoved, old
  <2>2. PICK m \in old.merged : x = [old EXCEPT !.net_fiber = m, !.merged = @ \ {m}]
    BY <2>1, ZenonT(30)
  <2>3. x.net_fiber = m /\ x.merged = old.merged \ {m} /\ x.to = old.to
        /\ x.wait = old.wait /\ x.read_point = old.read_point
    BY <1>1, <2>2, ZenonT(30) DEF Block
  <2>4. m # NULL /\ new = x /\ m # r
    BY <1>1, <1>3, <1>7, <2>1, <2>3, Zenon
  <2> QED BY <1>1, <1>2, <1>7, <2>3, <2>4, Zenon DEF old
<1> QED BY <1>4, <1>5, <1>6, <1>7, Zenon

\* close_write wakes all readers of a block or none.
LEMMA CloseWriteFibers ==
  ASSUME TreeInv, FiberInv, NEW r \in Rq, CloseWrite(r)
  PROVE  FiberInv'
<1>0. /\ FiberTypes /\ Places /\ IsTree(blocks) /\ Separated(blocks) /\ ReadPoints(blocks)
      /\ WritersIn(blocks, write_offset) /\ WaitsIn(blocks, rpc, read_offset)
  BY FiberTyped, TreeOfInv, Zenon DEF FiberInv
<1>a. PICK b \in Froms : \E new \in WriterRemoved(b, r) :
        /\ Contains(b, write_offset[r])
        /\ blocks' = [blocks EXCEPT ![b] = new]
        /\ rpc' = [q \in Rq |-> IF q \in blocks[b].wait \ new.wait THEN "loop" ELSE rpc[q]]
  BY Zenon DEF CloseWrite
<1>1. PICK new \in WriterRemoved(b, r) :
        /\ Contains(b, write_offset[r])
        /\ blocks' = [blocks EXCEPT ![b] = new]
        /\ rpc' = [q \in Rq |-> IF q \in blocks[b].wait \ new.wait THEN "loop" ELSE rpc[q]]
  BY <1>a, Zenon
<1>2. /\ pc[r] \in {"close", "release"}
      /\ pc' = [pc EXCEPT ![r] = IF pc[r] = "close" THEN "join" ELSE "done"]
      /\ write_offset' = [write_offset EXCEPT ![r] = -1]
      /\ UNCHANGED <<creator, result, read_offset, read_end, send_result>>
  BY Zenon DEF CloseWrite, Goto
<1>3. /\ new.to = blocks[b].to /\ new.read_point <= new.to
      /\ new.net_fiber # NULL => new.wait = blocks[b].wait
      /\ new.net_fiber = NULL => new.wait = {} /\ new.merged = {}
      /\ new.net_fiber \notin new.merged
      /\ \A q \in new.merged \cup ({new.net_fiber} \ {NULL}) :
           q \in WritersOf(blocks, b) /\ q # r
  BY <1>0, RemovedBlock
<1>4. /\ DOMAIN blocks' = DOMAIN blocks /\ b \in DOMAIN blocks /\ blocks'[b] = new
      /\ \A c \in DOMAIN blocks : c # b => blocks'[c] = blocks[c]
      /\ \A c \in DOMAIN blocks : blocks[c].wait \subseteq Rq
  BY <1>0, <1>1, Zenon DEF Froms, IsTree, Block
<1> DEFINE up == blocks[b].wait \ new.wait
<1>5. /\ up = {} \/ (up = blocks[b].wait /\ new.wait = {})
      /\ \A q \in up : rpc'[q] = "loop" /\ rpc[q] = "wait"
      /\ \A q \in Rq : q \notin up => rpc'[q] = rpc[q]
  <2>1. up = {} \/ (up = blocks[b].wait /\ new.wait = {})
    BY <1>3, Zenon
  <2>2. \A q \in up : rpc[q] = "wait" /\ q \in Rq
    BY <1>0, <1>4, Zenon DEF WaitsIn
  <2> QED BY <1>1, <2>1, <2>2, Zenon
<1> HIDE DEF up
<1>6. Places'
  <2> SUFFICES ASSUME NEW q \in Rq PROVE PlaceOK(q)'
    BY Zenon DEF Places
  <2>1. rpc'[q] = rpc[q] \/ (rpc[q] = "wait" /\ rpc'[q] = "loop")
    BY <1>5, Zenon
  <2>2. PlaceOK(q)
    BY <1>0, Zenon DEF Places
  <2>3. CASE q # r
    <3>1. pc'[q] = pc[q] /\ write_offset'[q] = write_offset[q]
      BY <1>0, <1>2, <2>3, ZenonT(30) DEF FiberTypes
    <3> QED BY <1>2, <2>1, <2>2, <3>1, Zenon DEF PlaceOK
  <2>4. CASE q = r
    <3>1. /\ pc'[q] = IF pc[q] = "close" THEN "join" ELSE "done"
          /\ write_offset'[q] = -1
      BY <1>0, <1>2, <2>4, Zenon DEF FiberTypes
    <3> QED BY <1>2, <2>1, <2>2, <2>4, <3>1, SMTT(30) DEF PlaceOK
  <2> QED BY <2>3, <2>4, Zenon
<1>7. ReadPoints(blocks)'
  BY <1>0, <1>1, <1>3, PointReplaced, Zenon DEF Froms
<1>8. WritersIn(blocks, write_offset)'
  <2>1. \A q \in Rq : q # r => write_offset'[q] = write_offset[q]
    BY <1>0, <1>2, Zenon DEF FiberTypes
  <2>2. \A c \in DOMAIN blocks : c # b => r \notin WritersOf(blocks, c)
    <3> SUFFICES ASSUME NEW c \in DOMAIN blocks, c # b, r \in WritersOf(blocks, c) PROVE FALSE
      OBVIOUS
    <3>1. c <= write_offset[r] /\ write_offset[r] <= blocks[c].to
      BY <1>0, Zenon DEF WritersIn
    <3>2. b <= write_offset[r] /\ write_offset[r] <= blocks[b].to
      BY <1>1, Zenon DEF Contains
    <3>3. /\ b \in Int /\ c \in Int /\ blocks[b].to \in Int /\ blocks[c].to \in Int
          /\ write_offset[r] \in Int
          /\ b < c => blocks[b].to < c
          /\ c < b => blocks[c].to < b
      BY <1>0, <1>4 DEF IsTree, Block, Separated, FiberTypes
    <3> QED BY <3>1, <3>2, <3>3
  <2>3. \A c \in DOMAIN blocks : WritersOf(blocks, c) \subseteq Rq
    BY <1>0, Zenon DEF WritersOf, IsTree, Block
  <2> SUFFICES ASSUME NEW c \in DOMAIN blocks'
               PROVE  /\ blocks'[c].net_fiber = NULL => blocks'[c].wait = {} /\ blocks'[c].merged = {}
                      /\ blocks'[c].net_fiber \notin blocks'[c].merged
                      /\ \A q \in WritersOf(blocks', c) :
                           /\ write_offset'[q] # -1 /\ c <= write_offset'[q]
                           /\ write_offset'[q] <= blocks'[c].to
    BY Zenon DEF WritersIn
  <2>4. CASE c = b
    <3>1. \A q \in WritersOf(blocks', b) : q \in WritersOf(blocks, b) /\ q # r
      BY <1>3, <1>4, Zenon DEF WritersOf
    <3>2. \A q \in WritersOf(blocks, b) : /\ write_offset[q] # -1 /\ b <= write_offset[q]
                                          /\ write_offset[q] <= blocks[b].to
      BY <1>0, <1>4, Zenon DEF WritersIn
    <3>3. \A q \in WritersOf(blocks', b) : write_offset'[q] = write_offset[q]
      BY <1>4, <2>1, <2>3, <3>1, Zenon
    <3>4. \A q \in WritersOf(blocks', b) :
            /\ write_offset'[q] # -1 /\ b <= write_offset'[q]
            /\ write_offset'[q] <= blocks'[b].to
      BY <1>3, <1>4, <3>1, <3>2, <3>3, Zenon
    <3> QED BY <1>3, <1>4, <2>4, <3>4, Zenon
  <2>5. CASE c # b
    <3>1. blocks'[c] = blocks[c] /\ c \in DOMAIN blocks /\ WritersOf(blocks', c) = WritersOf(blocks, c)
      BY <1>4, <2>5, Zenon DEF WritersOf
    <3>2. \A q \in WritersOf(blocks, c) : write_offset'[q] = write_offset[q]
      BY <2>1, <2>2, <2>3, <2>5, <3>1, Zenon
    <3> QED BY <1>0, <3>1, <3>2, ZenonT(30) DEF WritersIn
  <2> QED BY <2>4, <2>5, Zenon
<1>9. WaitsIn(blocks, rpc, read_offset)'
  <2>1. \A c \in DOMAIN blocks : blocks'[c].to = blocks[c].to
                                 /\ blocks'[c].wait \subseteq blocks[c].wait \ up
    <3> SUFFICES ASSUME NEW c \in DOMAIN blocks
                 PROVE  blocks'[c].to = blocks[c].to
                        /\ blocks'[c].wait \subseteq blocks[c].wait \ up
      BY Zenon
    <3>1. CASE c = b
      BY <1>3, <1>4, <3>1, Zenon DEF up
    <3>2. CASE c # b
      <4>1. ASSUME NEW q \in blocks[c].wait, q \in up PROVE FALSE
        BY <1>0, <1>4, <3>2, <4>1, OneQueue, Zenon DEF up
      <4> QED BY <1>4, <3>2, <4>1, Zenon
    <3> QED BY <3>1, <3>2, Zenon
  <2>2. ASSUME NEW c \in DOMAIN blocks', NEW q \in blocks'[c].wait
        PROVE  rpc'[q] = "wait" /\ blocks'[c].to = read_offset'[q]
    <3>1. /\ c \in DOMAIN blocks /\ q \in blocks[c].wait /\ q \notin up /\ q \in Rq
          /\ blocks'[c].to = blocks[c].to
      BY <1>4, <2>1, <2>2, Zenon
    <3> QED BY <1>0, <1>2, <1>5, <3>1, ZenonT(30) DEF WaitsIn
  <2>3. ASSUME NEW q \in Rq, rpc'[q] = "wait" PROVE \E c \in DOMAIN blocks' : q \in blocks'[c].wait
    <3>1. q \notin up /\ rpc[q] = "wait"
      BY <1>5, <2>3, Zenon
    <3>2. PICK c \in DOMAIN blocks : q \in blocks[c].wait
      BY <1>0, <3>1, Zenon DEF WaitsIn
    <3>3. q \in blocks'[c].wait
      BY <1>3, <1>4, <3>1, <3>2, Zenon DEF up
    <3> QED BY <1>4, <3>2, <3>3, Zenon
  <2> QED BY <2>2, <2>3, Zenon DEF WaitsIn
<1> QED BY <1>6, <1>7, <1>8, <1>9, Zenon DEF FiberInv

\* A block and its successor have no writer in common.
LEMMA WritersApart ==
  ASSUME IsTree(blocks), Separated(blocks), NEW wo \in [Rq -> Offset \cup {-1}],
         WritersIn(blocks, wo), NEW b \in Froms, NEW c \in Froms, b < c
  PROVE  \A q \in WritersOf(blocks, b) : q \in Rq /\ q \notin WritersOf(blocks, c)
<1> SUFFICES ASSUME NEW q \in WritersOf(blocks, b)
             PROVE  q \in Rq /\ q \notin WritersOf(blocks, c)
  OBVIOUS
<1>1. wo[q] <= blocks[b].to /\ (q \in WritersOf(blocks, c) => c <= wo[q])
  BY Zenon DEF WritersIn, Froms
<1>2. q \in Rq /\ blocks[b].to < c /\ blocks[b].to \in Int /\ c \in Int
  BY SMTT(30) DEF IsTree, Block, Separated, Froms, WritersOf
<1> QED BY <1>1, <1>2

\* The tree of write(): the readers and writers of the successor move over.
LEMMA ExtendedFibers ==
  ASSUME IsTree(blocks), Separated(blocks), ReadPoints(blocks),
         NEW wo \in [Rq -> Offset \cup {-1}], WritersIn(blocks, wo),
         NEW p, NEW ro, WaitsIn(blocks, p, ro),
         NEW b \in Froms, NEW end \in Offset, blocks[b].to < end,
         NEW tree \in Extended(b, end)
  PROVE  /\ WritersIn(tree, wo) /\ ReadPoints(tree)
         /\ DOMAIN tree \subseteq Froms /\ b \in DOMAIN tree
         /\ \A d \in DOMAIN tree : d # b => tree[d] = blocks[d]
         /\ blocks[b].to < tree[b].to
         /\ blocks[b].wait \subseteq tree[b].wait
         /\ \A q \in tree[b].wait : \/ q \in blocks[b].wait
                                    \/ p[q] = "wait" /\ tree[b].to = ro[q]
         /\ \A c \in Froms : c \in DOMAIN tree \/ blocks[c].wait \subseteq tree[b].wait
<1>0. /\ blocks[b] \in Block /\ b \in DOMAIN blocks
      /\ blocks[b].net_fiber = NULL => blocks[b].wait = {} /\ blocks[b].merged = {}
      /\ blocks[b].net_fiber \notin blocks[b].merged
  BY Zenon DEF IsTree, Froms, WritersIn
<1>a. \A r \in WritersOf(blocks, b) : wo[r] # -1 /\ b <= wo[r] /\ wo[r] <= blocks[b].to
  BY ZenonT(30) DEF WritersIn, Froms
<1>1. CASE \A c \in Froms : b < c => end < c
  <2> DEFINE x == [blocks[b] EXCEPT !.to = end]
  <2>1. tree = [blocks EXCEPT ![b] = x]
    BY <1>1, Zenon DEF Extended
  <2>2. /\ x.to = end /\ x.read_point = blocks[b].read_point /\ x.wait = blocks[b].wait
        /\ x.net_fiber = blocks[b].net_fiber /\ x.merged = blocks[b].merged
    BY <1>0, Zenon DEF Block
  <2> HIDE DEF x
  <2>3. /\ DOMAIN tree = DOMAIN blocks /\ tree[b] = x
        /\ \A d \in DOMAIN blocks : d # b => tree[d] = blocks[d]
    BY <1>0, <2>1, Zenon
  <2>4. x.read_point <= x.to
    BY <1>0, <2>2, SMTT(30) DEF ReadPoints, Block
  <2>5. ReadPoints(tree)
    BY <1>0, <2>1, <2>4, PointReplaced, Zenon
  <2>6. WritersIn(tree, wo)
    <3> SUFFICES ASSUME NEW d \in DOMAIN tree
                 PROVE  /\ tree[d].net_fiber = NULL => tree[d].wait = {} /\ tree[d].merged = {}
                        /\ tree[d].net_fiber \notin tree[d].merged
                        /\ \A r \in WritersOf(tree, d) :
                             wo[r] # -1 /\ d <= wo[r] /\ wo[r] <= tree[d].to
      BY Zenon DEF WritersIn
    <3>1. CASE d = b
      <4>1. WritersOf(tree, b) = WritersOf(blocks, b)
        BY <2>2, <2>3, Zenon DEF WritersOf
      <4>2. \A r \in WritersOf(blocks, b) : r \in Rq
        BY <1>0, Zenon DEF WritersOf, Block
      <4>3. \A r \in WritersOf(tree, b) : wo[r] # -1 /\ b <= wo[r] /\ wo[r] <= tree[b].to
        BY <1>0, <1>a, <2>2, <2>3, <4>1, <4>2, SMTT(30) DEF Block
      <4> QED BY <1>0, <2>2, <2>3, <3>1, <4>3, Zenon
    <3>2. CASE d # b
      <4>1. tree[d] = blocks[d] /\ d \in DOMAIN blocks /\ WritersOf(tree, d) = WritersOf(blocks, d)
        BY <2>3, <3>2, Zenon DEF WritersOf
      <4> QED BY <4>1, Zenon DEF WritersIn
    <3> QED BY <3>1, <3>2, Zenon
  <2> QED BY <1>0, <2>2, <2>3, <2>5, <2>6, Zenon DEF Froms
<1>2. CASE ~ \A c \in Froms : b < c => end < c
  <2>1. PICK c \in Froms :
          /\ IsNext(b, c)
          /\ tree = [d \in Froms \ {c} |-> IF d = b THEN Merged(b, c) ELSE blocks[d]]
    BY <1>2, Zenon DEF Extended
  <2>2. b < c /\ c # b /\ b \in Froms \ {c} /\ blocks[b].to < c /\ c <= blocks[c].to
    BY <2>1 DEF IsNext, IsTree, Froms, Separated
  <2>3. /\ DOMAIN tree = Froms \ {c} /\ tree[b] = Merged(b, c)
        /\ \A d \in Froms : d # b /\ d # c => tree[d] = blocks[d]
    BY <2>1, <2>2, Zenon
  <2> DEFINE B == blocks[b]
             C == blocks[c]
             x == tree[b]
  <2>4. /\ x.to = C.to /\ x.read_point = B.read_point /\ x.wait = B.wait \cup C.wait
        /\ x.net_fiber = IF B.net_fiber = NULL THEN C.net_fiber ELSE B.net_fiber
        /\ x.merged = B.merged \cup C.merged
                        \cup IF B.net_fiber # NULL THEN {C.net_fiber} \ {NULL, B.net_fiber} ELSE {}
    BY <1>0, <2>3, Zenon DEF Merged, Block
  <2>5. /\ C \in Block /\ c \in DOMAIN blocks /\ C.net_fiber \notin C.merged
        /\ C.net_fiber = NULL => C.wait = {} /\ C.merged = {}
    BY Zenon DEF IsTree, Froms, WritersIn
  <2>6. \A r \in WritersOf(blocks, c) : wo[r] # -1 /\ c <= wo[r] /\ wo[r] <= C.to
    BY Zenon DEF WritersIn, Froms
  <2>7. /\ WritersOf(blocks, b) = B.merged \cup ({B.net_fiber} \ {NULL})
        /\ WritersOf(blocks, c) = C.merged \cup ({C.net_fiber} \ {NULL})
        /\ WritersOf(tree, b) = x.merged \cup ({x.net_fiber} \ {NULL})
    BY Zenon DEF WritersOf
  <2> HIDE DEF B, C, x
  <2>8. \A r \in WritersOf(blocks, b) : r \in Rq /\ r \notin WritersOf(blocks, c)
    BY <2>2, WritersApart, ZenonT(30)
  <2>9. /\ x.net_fiber = NULL => x.wait = {} /\ x.merged = {}
        /\ x.net_fiber \notin x.merged
        /\ WritersOf(tree, b) \subseteq WritersOf(blocks, b) \cup WritersOf(blocks, c)
    <3>1. CASE B.net_fiber = NULL
      <4>1. x.net_fiber = C.net_fiber /\ x.merged = C.merged /\ x.wait = C.wait
        BY <1>0, <2>4, <3>1, Zenon DEF B
      <4> QED BY <2>5, <2>7, <4>1, ZenonT(30)
    <3>2. CASE B.net_fiber # NULL
      <4>1. /\ x.net_fiber = B.net_fiber
            /\ x.merged = B.merged \cup C.merged \cup ({C.net_fiber} \ {NULL, B.net_fiber})
        BY <2>4, <3>2, Zenon
      <4>2. B.net_fiber \notin C.merged
        BY <2>7, <2>8, <3>2, ZenonT(30)
      <4> QED BY <1>0, <2>7, <3>2, <4>1, <4>2, ZenonT(30) DEF B
    <3> QED BY <3>1, <3>2, ZenonT(30)
  <2>10. /\ \A r \in WritersOf(tree, b) : wo[r] # -1 /\ b <= wo[r] /\ wo[r] <= x.to
         /\ B.to < x.to
    <3>1. /\ b \in Int /\ c \in Int /\ B.to \in Int /\ C.to \in Int /\ x.to = C.to
          /\ b < c /\ B.to < c /\ c <= C.to
      BY <1>0, <2>2, <2>4, <2>5, SMTT(30) DEF IsTree, Froms, Block, B, C
    <3>2. \A r \in WritersOf(blocks, b) : wo[r] # -1 /\ b <= wo[r] /\ wo[r] <= B.to /\ wo[r] \in Int
      BY <1>a, <2>8, SMTT(30) DEF B
    <3>3. \A r \in WritersOf(blocks, c) : wo[r] # -1 /\ c <= wo[r] /\ wo[r] <= C.to /\ wo[r] \in Int
      BY <2>5, <2>6, <2>7, SMTT(30) DEF Block
    <3>4. B.to < x.to
      BY <3>1, SMTT(30)
    <3>5. ASSUME NEW r \in WritersOf(blocks, b) PROVE wo[r] # -1 /\ b <= wo[r] /\ wo[r] <= x.to
      BY <3>1, <3>2, SMTT(30)
    <3>6. ASSUME NEW r \in WritersOf(blocks, c) PROVE wo[r] # -1 /\ b <= wo[r] /\ wo[r] <= x.to
      BY <3>1, <3>3
    <3> QED BY <2>9, <3>4, <3>5, <3>6, Zenon
  <2>11. WritersIn(tree, wo)
    <3> SUFFICES ASSUME NEW d \in DOMAIN tree
                 PROVE  /\ tree[d].net_fiber = NULL => tree[d].wait = {} /\ tree[d].merged = {}
                        /\ tree[d].net_fiber \notin tree[d].merged
                        /\ \A r \in WritersOf(tree, d) :
                             wo[r] # -1 /\ d <= wo[r] /\ wo[r] <= tree[d].to
      BY Zenon DEF WritersIn
    <3>1. CASE d = b
      BY <2>9, <2>10, <3>1, Zenon DEF x
    <3>2. CASE d # b
      <4>1. tree[d] = blocks[d] /\ d \in DOMAIN blocks /\ WritersOf(tree, d) = WritersOf(blocks, d)
        BY <2>3, <3>2, Zenon DEF WritersOf, Froms
      <4> QED BY <4>1, Zenon DEF WritersIn
    <3> QED BY <3>1, <3>2, Zenon
  <2>12. ReadPoints(tree)
    <3>1. x.read_point <= x.to
      BY <1>0, <2>4, <2>5, <2>10, SMTT(30) DEF ReadPoints, Block, B
    <3> QED BY <2>3, <3>1, Zenon DEF ReadPoints, x, Froms
  <2>13. \A q \in C.wait : p[q] = "wait" /\ x.to = ro[q]
    BY <2>4, <2>5, Zenon DEF WaitsIn, C
  <2>14. \A q \in x.wait : q \in B.wait \/ (p[q] = "wait" /\ x.to = ro[q])
    BY <2>4, <2>13, Zenon
  <2>15. \A d \in Froms : d \in DOMAIN tree \/ blocks[d].wait \subseteq x.wait
    BY <2>3, <2>4, ZenonT(30) DEF C
  <2>16. B.wait \subseteq x.wait /\ DOMAIN tree \subseteq Froms /\ b \in DOMAIN tree
    BY <2>2, <2>3, <2>4, ZenonT(30)
  <2>17. \A d \in DOMAIN tree : d # b => tree[d] = blocks[d]
    BY <2>3, Zenon
  <2> QED BY <2>10, <2>11, <2>12, <2>14, <2>15, <2>16, <2>17, Zenon DEF B, x
<1> QED BY <1>1, <1>2, Zenon

\* write() wakes exactly the readers its block had before, and each of them goes on
\* or has all it asked for.
WokenOrSame ==
  \A q \in Rq :
    \/ rpc'[q] = rpc[q] /\ read_offset'[q] = read_offset[q]
    \/ rpc[q] = "wait" /\ rpc'[q] = "loop"
    \/ rpc[q] = "wait" /\ rpc'[q] = "close" /\ read_offset'[q] = read_end[q]

LEMMA GrowFibers ==
  ASSUME TreeInv, FiberInv, NEW b \in Froms, NEW o \in Offset, NEW n \in 1 .. MaxChunk,
         o + n \in Offset, blocks[b].to < o + n, Grow(b, o, n)
  PROVE  /\ WokenOrSame /\ ReadPoints(blocks') /\ WritersIn(blocks', write_offset)
         /\ WaitsIn(blocks', rpc', read_offset')
<1>0. /\ FiberTypes /\ IsTree(blocks) /\ Separated(blocks) /\ ReadPoints(blocks)
      /\ WritersIn(blocks, write_offset) /\ WaitsIn(blocks, rpc, read_offset)
      /\ write_offset \in [Rq -> Offset \cup {-1}]
  BY FiberTyped, TreeOfInv, Zenon DEF FiberInv, FiberTypes
<1> DEFINE woken(t) == {q \in t[b].wait : \/ read_offset[q] < t[b].to
                                          \/ t[b].net_fiber = NULL}
           sent(t) == [q \in Rq |-> IF q \in woken(t)
                                    THEN read_offset[q] + Copied(q, o, n)
                                    ELSE read_offset[q]]
<1>1. PICK t \in Extended(b, o + n) :
        /\ blocks' = [t EXCEPT ![b].wait = @ \ woken(t)]
        /\ read_offset' = sent(t)
        /\ rpc' = [q \in Rq |-> IF q \in woken(t) THEN SentUpTo(q, sent(t)[q]) ELSE rpc[q]]
  BY ZenonT(30) DEF Grow
<1> DEFINE up == woken(t)
<1>2. /\ WritersIn(t, write_offset) /\ ReadPoints(t)
      /\ DOMAIN t \subseteq Froms /\ b \in DOMAIN t
      /\ \A d \in DOMAIN t : d # b => t[d] = blocks[d]
      /\ blocks[b].to < t[b].to
      /\ blocks[b].wait \subseteq t[b].wait
      /\ \A q \in t[b].wait : \/ q \in blocks[b].wait
                              \/ rpc[q] = "wait" /\ t[b].to = read_offset[q]
      /\ \A c \in Froms : c \in DOMAIN t \/ blocks[c].wait \subseteq t[b].wait
  BY <1>0, ExtendedFibers, Zenon
<1>3. IsTree(t) /\ t[b] \in Block
  BY <1>0, <1>2, ExtendedTree DEF IsTree
<1>4. \A q \in blocks[b].wait : rpc[q] = "wait" /\ blocks[b].to = read_offset[q] /\ q \in Rq
  BY <1>0, Zenon DEF WaitsIn, Froms, IsTree, Block
<1>5. t[b].wait \subseteq Rq /\ t[b].to \in Int /\ blocks[b].to \in Int
  BY <1>0, <1>3, SMTT(30) DEF Block, IsTree, Froms
<1>6. up = blocks[b].wait
  <2>1. t[b].net_fiber = NULL => t[b].wait = {}
    BY <1>2, ZenonT(30) DEF WritersIn
  <2>2. ASSUME NEW q \in up PROVE q \in blocks[b].wait
    BY <1>0, <1>2, <1>5, <2>1, <2>2, SMTT(30) DEF FiberTypes
  <2>3. ASSUME NEW q \in blocks[b].wait PROVE q \in up
    BY <1>2, <1>4, <2>3, Zenon
  <2> QED BY <2>2, <2>3, Zenon
<1>7. ASSUME NEW q \in Rq
      PROVE  /\ q \in up => /\ read_offset'[q] = read_offset[q] + Copied(q, o, n)
                            /\ rpc'[q] = SentUpTo(q, read_offset'[q])
             /\ q \notin up => read_offset'[q] = read_offset[q] /\ rpc'[q] = rpc[q]
  <2> HIDE DEF woken
  <2>1. read_offset'[q] = sent(t)[q]
    BY <1>1, Zenon
  <2> QED BY <1>1, <1>7, <2>1, Zenon
<1>8. blocks' = [t EXCEPT ![b].wait = @ \ up]
  BY <1>1, Zenon
<1> HIDE DEF up, woken, sent
<1>9. WokenOrSame
  <2> SUFFICES ASSUME NEW q \in Rq
               PROVE  \/ rpc'[q] = rpc[q] /\ read_offset'[q] = read_offset[q]
                      \/ rpc[q] = "wait" /\ rpc'[q] = "loop"
                      \/ rpc[q] = "wait" /\ rpc'[q] = "close" /\ read_offset'[q] = read_end[q]
    BY Zenon DEF WokenOrSame
  <2>1. CASE q \notin up
    BY <1>7, <2>1, Zenon
  <2>2. CASE q \in up
    <3>1. rpc[q] = "wait"
      BY <1>4, <1>6, <2>2, Zenon
    <3>2. /\ read_offset[q] \in Int /\ read_end[q] \in Int /\ read_offset[q] <= read_end[q]
          /\ o \in Int /\ n \in Int /\ n > 0 /\ MaxChunk > 0
      BY <1>0, SMTT(30) DEF FiberTypes
    <3>3. Copied(q, o, n) \in Int /\ read_offset[q] + Copied(q, o, n) <= read_end[q]
      BY <3>2, SMTT(30) DEF Copied, Min
    <3> HIDE DEF Copied
    <3>4. read_offset'[q] \in Int /\ read_offset'[q] <= read_end[q]
      BY <1>7, <2>2, <3>2, <3>3
    <3> QED BY <1>7, <2>2, <3>1, <3>2, <3>4, SMTT(30) DEF SentUpTo
  <2> QED BY <2>1, <2>2, Zenon
<1> DEFINE x == [t[b] EXCEPT !.wait = @ \ up]
<1>10. /\ blocks' = [t EXCEPT ![b] = x]
       /\ x.to = t[b].to /\ x.read_point = t[b].read_point /\ x.net_fiber = t[b].net_fiber
       /\ x.merged = t[b].merged /\ x.wait = t[b].wait \ up
  BY <1>3, <1>8, Zenon DEF Block
<1> HIDE DEF x
<1>11. ReadPoints(blocks')
  <2>1. x.read_point <= x.to
    BY <1>2, <1>10, Zenon DEF ReadPoints
  <2> QED BY <1>2, <1>10, <2>1, PointReplaced, Zenon
<1>12. WritersIn(blocks', write_offset)
  <2>1. x.net_fiber = NULL => x.wait = {}
    <3>1. t[b].net_fiber = NULL => t[b].wait = {}
      BY <1>2, Zenon DEF WritersIn
    <3> QED BY <1>10, <3>1, Zenon
  <2> QED BY <1>2, <1>10, <2>1, WritersReplaced, Zenon
<1>13. /\ DOMAIN blocks' = DOMAIN t /\ blocks'[b] = x
       /\ \A d \in DOMAIN t : d # b => blocks'[d] = blocks[d] /\ d \in DOMAIN blocks
  BY <1>2, <1>10, Zenon DEF Froms
<1>14. ASSUME NEW d \in DOMAIN blocks', NEW q \in blocks'[d].wait
       PROVE  rpc'[q] = "wait" /\ blocks'[d].to = read_offset'[q]
  <2>1. q \notin up /\ rpc[q] = "wait" /\ blocks'[d].to = read_offset[q] /\ q \in Rq
    <3>1. CASE d = b
      <4>1. q \in t[b].wait /\ q \notin up /\ blocks'[d].to = t[b].to
        BY <1>10, <1>13, <1>14, <3>1, Zenon
      <4> QED BY <1>2, <1>5, <1>6, <4>1, Zenon
    <3>2. CASE d # b
      <4>1. blocks'[d] = blocks[d] /\ d \in DOMAIN blocks /\ q \in blocks[d].wait
        BY <1>13, <1>14, <3>2, Zenon
      <4>2. rpc[q] = "wait" /\ blocks[d].to = read_offset[q] /\ q \in Rq
        BY <1>0, <4>1, Zenon DEF WaitsIn, IsTree, Block
      <4>3. q \notin blocks[b].wait
        BY <1>0, <3>2, <4>1, OneQueue, Zenon DEF Froms
      <4> QED BY <1>6, <4>1, <4>2, <4>3, Zenon
    <3> QED BY <3>1, <3>2, ZenonT(30)
  <2> QED BY <1>7, <2>1, ZenonT(30)
<1>15. ASSUME NEW q \in Rq, rpc'[q] = "wait" PROVE \E d \in DOMAIN blocks' : q \in blocks'[d].wait
  <2>1. q \notin up
    BY <1>7, <1>15, Zenon DEF SentUpTo
  <2>2. rpc[q] = "wait"
    BY <1>7, <1>15, <2>1, Zenon
  <2>3. PICK d \in DOMAIN blocks : q \in blocks[d].wait
    BY <1>0, <2>2, Zenon DEF WaitsIn
  <2>4. CASE d \in DOMAIN t /\ d # b
    BY <1>13, <2>3, <2>4, Zenon
  <2>5. CASE d = b
    BY <1>6, <2>1, <2>3, <2>5, Zenon
  <2>6. CASE d \notin DOMAIN t
    <3>1. q \in t[b].wait
      BY <1>2, <2>3, <2>6, Zenon DEF Froms
    <3> QED BY <1>2, <1>10, <1>13, <2>1, <3>1, Zenon
  <2> QED BY <2>4, <2>5, <2>6, Zenon
<1>16. WaitsIn(blocks', rpc', read_offset')
  BY <1>14, <1>15, Zenon DEF WaitsIn
<1> QED BY <1>9, <1>11, <1>12, <1>16, Zenon

\* bo_write
LEMMA BoWriteFibers ==
  ASSUME TreeInv, FiberInv, NEW r \in Rq, NEW n \in 1 .. MaxChunk, BoWrite(r, n)
  PROVE  FiberInv'
<1>0. FiberTypes /\ Places
  BY FiberTyped, Zenon DEF FiberInv
<1>1. /\ pc[r] = "body" /\ pc' = [pc EXCEPT ![r] = "wrote"]
      /\ UNCHANGED <<creator, write_offset, result, read_end, send_result>>
  BY Zenon DEF BoWrite, Running, Goto
<1>2. /\ offset[r] \in Offset /\ offset[r] + n <= fetch_end[r] /\ fetch_end[r] \in Offset
  BY Zenon DEF BoWrite, TreeInv, ValuesOK
<1>3. offset[r] + n \in Offset
  BY <1>2, SMTT(30)
<1>4. ASSUME WokenOrSame PROVE Places'
  <2> SUFFICES ASSUME NEW q \in Rq PROVE PlaceOK(q)'
    BY Zenon DEF Places
  <2>1. /\ PlaceOK(q)
        /\ \/ rpc'[q] = rpc[q] /\ read_offset'[q] = read_offset[q]
           \/ rpc[q] = "wait" /\ rpc'[q] = "loop"
           \/ rpc[q] = "wait" /\ rpc'[q] = "close" /\ read_offset'[q] = read_end[q]
    BY <1>0, <1>4, Zenon DEF Places, WokenOrSame
  <2>2. pc'[q] = IF q = r THEN "wrote" ELSE pc[q]
    BY <1>0, <1>1, ZenonT(30) DEF FiberTypes
  <2>3. CASE q = r
    <3>1. pc[q] = "body" /\ pc'[q] = "wrote"
      BY <1>1, <2>2, <2>3, Zenon
    <3>2. /\ write_offset'[q] # -1
          /\ rpc[q] \in {"loop", "wait"} => send_result[q] = "ok"
          /\ send_result'[q] = send_result[q]
      BY <1>1, <2>1, <3>1, Zenon DEF PlaceOK
    <3>3. rpc'[q] \in {"loop", "wait"} => send_result'[q] = "ok"
      BY <2>1, <3>2, Zenon
    <3>4. /\ "wrote" \in {"body", "wrote", "close", "join", "sending"}
          /\ "wrote" \notin {"idle", "turned_on", "satisfy", "direct", "join", "done"}
          /\ "wrote" # "sending" /\ "wrote" # "release" /\ "wrote" # "done"
      OBVIOUS
    <3> QED BY <3>1, <3>2, <3>3, <3>4, Zenon DEF PlaceOK
  <2>4. CASE q # r
    BY <1>1, <2>1, <2>2, <2>4, Zenon DEF PlaceOK
  <2> QED BY <2>3, <2>4, Zenon
<1>5. \/ UNCHANGED <<blocks, rpc, read_offset>>
      \/ \E b \in Froms : Contains(b, offset[r]) /\ WriteBlock(b, offset[r], n)
  BY ZenonT(30) DEF BoWrite
<1>6. CASE UNCHANGED <<blocks, rpc, read_offset>>
  <2>1. WokenOrSame
    BY <1>6, Zenon DEF WokenOrSame
  <2>2. Places'
    BY <1>4, <2>1, Zenon
  <2> QED BY <1>1, <1>6, <2>2, SameTreeKept, Zenon
<1>7. ASSUME NEW b \in Froms, Contains(b, offset[r]), WriteBlock(b, offset[r], n),
             ~ UNCHANGED <<blocks, rpc, read_offset>>
      PROVE  FiberInv'
  <2>1. blocks[b].to < offset[r] + n /\ Grow(b, offset[r], n)
    <3>1. blocks[b].to \in Int /\ offset[r] \in Int /\ n \in Int
      BY <1>2, TreeOfInv, SMTT(30) DEF IsTree, Block, Froms
    <3> QED BY <1>7, <3>1 DEF WriteBlock
  <2>2. /\ WokenOrSame /\ ReadPoints(blocks') /\ WritersIn(blocks', write_offset)
        /\ WaitsIn(blocks', rpc', read_offset')
    BY <1>2, <1>3, <1>7, <2>1, GrowFibers, Zenon
  <2>3. Places'
    BY <1>4, <2>2, Zenon
  <2> QED BY <1>1, <2>2, <2>3, Zenon DEF FiberInv
<1> QED BY <1>5, <1>6, <1>7, Zenon

\* Every step keeps the fibers and the tree in agreement.
LEMMA FiberInvStep == TreeInv /\ FiberInv /\ [Next]_vars => FiberInv'
<1> SUFFICES ASSUME TreeInv, FiberInv, [Next]_vars PROVE FiberInv'
  OBVIOUS
<1>1. CASE UNCHANGED vars
  <2>1. UNCHANGED <<blocks, write_offset, rpc, read_offset, pc, send_result, result, read_end,
                    creator>>
    BY <1>1, ZenonT(30) DEF vars, shared, mainVars, sendVars
  <2>2. Places'
    BY <2>1, Zenon DEF FiberInv, Places, PlaceOK
  <2> QED BY <2>1, <2>2, SameTreeKept, Zenon
<1>2. CASE SwapOutAndIn \/ Crash
  BY <1>2, RestoreFibers, Zenon
<1>3. ASSUME NEW r \in Rq, \E w \in Ranges : TurnOn(r, w) \/ OpenCache(r, w)
      PROVE  FiberInv'
  BY <1>3, FindFibers, Zenon
<1>4. ASSUME NEW r \in Rq, MainStep(r) PROVE FiberInv'
  <2>1. ASSUME NEW n \in 1 .. MaxChunk, BoWrite(r, n) PROVE FiberInv'
    BY <2>1, BoWriteFibers, Zenon
  <2> QED BY <1>4, <2>1, FindFibers, OpenWriteFibers, FetchFibers, CloseWriteFibers, Zenon
          DEF MainStep
<1>5. ASSUME NEW r \in Rq, SendStep(r) PROVE FiberInv'
  BY <1>5, SendFibers, ReadFibers, Zenon DEF SendStep
<1> QED BY <1>1, <1>2, <1>3, <1>4, <1>5, Zenon DEF Next, Finished

\* Nobody waits for data that nobody is going to write: a reader parked by read() is in the
\* queue of the block it waits for, and that block has a writer which still has to come to
\* close_write, where it wakes the readers or hands them to the next writer.
THEOREM WaitersAlwaysHaveWriter == Spec => []WaitersHaveWriter
<1>1. TreeInv /\ FiberInv /\ [Next]_vars => TreeInv' /\ FiberInv'
  BY TreeInvStep, FiberInvStep, Zenon
<1> QED BY <1>1, TreeInvInit, FiberInvInit, FiberInvMeans, PTL DEF Spec

\* The assertion of write() that preloaded_length is not negative holds: no reader's mark is
\* ahead of the end of its block.
THEOREM ReadersStayBehindWriter == Spec => []ReadersBehindWriter
<1>1. TreeInv /\ FiberInv /\ [Next]_vars => TreeInv' /\ FiberInv'
  BY TreeInvStep, FiberInvStep, Zenon
<1> QED BY <1>1, TreeInvInit, FiberInvInit, FiberInvMeans, PTL DEF Spec

\* A cache hit that internal_fetch reports as ok has sent the whole range.
THEOREM OkAlwaysMeansAll == Spec => []OkMeansAll
<1>1. TreeInv /\ FiberInv /\ [Next]_vars => TreeInv' /\ FiberInv'
  BY TreeInvStep, FiberInvStep, Zenon
<1> QED BY <1>1, TreeInvInit, FiberInvInit, FiberInvMeans, PTL DEF Spec

-----------------------------------------------------------------------------
(* What a step sends, and what it keeps *)

\* The step sends r nothing that is not in the file.
SentTo(r) == rpc[r] \in {"loop", "wait"} => read_offset[r] .. read_offset'[r] - 1 \subseteq file'

\* A step that sends nothing to anybody.
LEMMA NothingSent ==
  ASSUME TreeInv, \A q \in Rq : rpc[q] \in {"loop", "wait"} => read_offset'[q] = read_offset[q]
  PROVE  \A q \in Rq : SentTo(q)
<1>1. \A q \in Rq : read_offset[q] \in Int
  BY SMTT(30) DEF TreeInv, ValuesOK
<1> QED BY <1>1 DEF SentTo

\* A woken reader is handed what the writer has just written.
LEMMA GrowSent ==
  ASSUME TreeInv, NEW o \in Offset, NEW n \in 1 .. MaxChunk, NEW b \in Froms, Grow(b, o, n),
         o .. o + n - 1 \subseteq file'
  PROVE  \A q \in Rq : SentTo(q)
<1> SUFFICES ASSUME NEW q \in Rq PROVE SentTo(q)
  OBVIOUS
<1>1. read_offset'[q] \in {read_offset[q], read_offset[q] + Copied(q, o, n)}
  <2> DEFINE woken(t) == {s \in t[b].wait : \/ read_offset[s] < t[b].to
                                            \/ t[b].net_fiber = NULL}
  <2>2. PICK t \in Extended(b, o + n) :
          read_offset' = [s \in Rq |-> IF s \in woken(t) THEN read_offset[s] + Copied(s, o, n)
                                       ELSE read_offset[s]]
    BY Zenon DEF Grow
  <2> HIDE DEF woken
  <2> HIDE DEF Copied
  <2> QED BY <2>2, Zenon
<1>2. read_offset[q] \in Int /\ read_end[q] \in Int
  BY SMTT(30) DEF TreeInv, ValuesOK
<1>3. read_offset[q] .. read_offset[q] + Copied(q, o, n) - 1 \subseteq o .. o + n - 1
  BY <1>2, SMTT(30) DEF Copied, Min
<1>4. Copied(q, o, n) \in Int
  BY <1>2, SMTT(30) DEF Copied, Min
<1> HIDE DEF Copied
<1> QED BY <1>1, <1>2, <1>3, <1>4, SMTT(30) DEF SentTo

\* read() sends what the block it found records.
LEMMA ReadSent ==
  ASSUME TreeInv, DiskInv, NEW r \in Rq, Read(r)
  PROVE  \A q \in Rq : SentTo(q)
<1> DEFINE t == IF pc[r] = "sending" THEN insert(read_offset[r]) ELSE blocks
<1>1. PICK b \in DOMAIN t :
        /\ b <= read_offset[r] /\ read_offset[r] <= t[b].to
        /\ ReadData(r, t, b) \/ ReadStop(r, t, b) \/ ReadTakeOver(r, t, b) \/ ReadWait(r, t, b)
  BY Zenon DEF Read
<1>2. /\ read_offset \in [Rq -> Offset] /\ read_end[r] \in Offset /\ file' = file
  BY Zenon DEF TreeInv, ValuesOK, Read
<1>3. IsTree(t) /\ OnDisk(t, file)
  <2>1. CASE pc[r] = "sending"
    <3>1. t = insert(read_offset[r])
      BY <2>1, Zenon
    <3> QED BY <1>2, <3>1, InsertOnDisk, InsertTree, TreeOfInv, Zenon
  <2>2. CASE pc[r] # "sending"
    <3>1. t = blocks
      BY <2>2, Zenon
    <3> QED BY <3>1, TreeOfInv, Zenon DEF DiskInv
  <2> QED BY <2>1, <2>2, ZenonT(30)
<1> HIDE DEF t
<1>4. CASE ReadData(r, t, b)
  <2> DEFINE k == read_offset[r] + Min(Min(MaxChunk, read_end[r] - read_offset[r]),
                                       t[b].to - read_offset[r])
  <2>1. read_offset' = [read_offset EXCEPT ![r] = k]
    BY <1>4, Zenon DEF ReadData
  <2>2. b \in Int /\ t[b].to \in Int /\ b .. t[b].to - 1 \subseteq file
    BY <1>3, SMTT(30) DEF IsTree, Block, OnDisk
  <2>3. k \in Int /\ k <= t[b].to
    BY <1>2, <2>2, SMTT(30) DEF Min
  <2> HIDE DEF k
  <2>4. read_offset[r] .. k - 1 \subseteq file
    BY <1>1, <1>2, <2>2, <2>3, SMTT(30)
  <2>5. SentTo(r)
    BY <1>2, <2>1, <2>4, Zenon DEF SentTo
  <2>6. \A q \in Rq \ {r} : SentTo(q)
    BY <1>2, <2>1 DEF SentTo
  <2> QED BY <2>5, <2>6, Zenon
<1>5. CASE ReadStop(r, t, b) \/ ReadTakeOver(r, t, b) \/ ReadWait(r, t, b)
  <2>1. read_offset' = read_offset
    BY <1>5, Zenon DEF ReadStop, ReadTakeOver, ReadWait
  <2> QED BY <2>1, NothingSent, Zenon
<1> QED BY <1>1, <1>4, <1>5, Zenon

\* Every step sends only what is in the file.
LEMMA StepSent ==
  ASSUME TreeInv, FiberInv, DiskInv, [Next]_vars
  PROVE  \A q \in Rq : SentTo(q)
<1>0. FiberTypes /\ Places
  BY FiberTyped, Zenon DEF FiberInv
<1>1. CASE UNCHANGED vars
  BY <1>1, NothingSent, Zenon DEF vars, sendVars
<1>2. CASE SwapOutAndIn \/ Crash
  BY <1>2, NothingSent, Zenon DEF SwapOutAndIn, Crash, sendVars
<1>3. ASSUME NEW r \in Rq, pc[r] \in {"idle", "direct"},
             \A q \in Rq \ {r} : read_offset'[q] = read_offset[q]
      PROVE  \A q \in Rq : SentTo(q)
  <2>1. rpc[r] = "none"
    BY <1>0, <1>3, Zenon DEF Places, PlaceOK
  <2> QED BY <1>3, <2>1, NothingSent, Zenon
<1>4. ASSUME NEW r \in Rq, \E w \in Ranges : TurnOn(r, w) \/ OpenCache(r, w)
      PROVE  \A q \in Rq : SentTo(q)
  <2>1. pc[r] = "idle" /\ \A q \in Rq \ {r} : read_offset'[q] = read_offset[q]
    BY <1>0, <1>4, ZenonT(30) DEF TurnOn, OpenCache, Running, FiberTypes
  <2> QED BY <1>3, <2>1, Zenon
<1>5. ASSUME NEW r \in Rq, MainStep(r) PROVE \A q \in Rq : SentTo(q)
  <2>1. CASE SendCached(r)
    <3>1. pc[r] = "direct" /\ \A q \in Rq \ {r} : read_offset'[q] = read_offset[q]
      BY <1>0, <2>1, Zenon DEF SendCached, Running, FiberTypes
    <3> QED BY <1>3, <3>1, Zenon
  <2>2. ASSUME NEW n \in 1 .. MaxChunk, BoWrite(r, n) PROVE \A q \in Rq : SentTo(q)
    <3>1. \/ read_offset' = read_offset
          \/ /\ file' = file \cup (offset[r] .. offset[r] + n - 1)
             /\ \E b \in Froms : WriteBlock(b, offset[r], n)
      BY <2>2, Zenon DEF BoWrite
    <3>2. offset[r] \in Offset
      BY Zenon DEF TreeInv, ValuesOK
    <3>3. ASSUME NEW b \in Froms, Grow(b, offset[r], n),
                 file' = file \cup (offset[r] .. offset[r] + n - 1)
          PROVE  \A q \in Rq : SentTo(q)
      BY <3>2, <3>3, GrowSent, Zenon
    <3>4. ASSUME read_offset' = read_offset PROVE \A q \in Rq : SentTo(q)
      BY <3>4, NothingSent, ZenonT(30)
    <3> QED BY <3>1, <3>3, <3>4, Zenon DEF WriteBlock
  <2>3. ASSUME read_offset' = read_offset PROVE \A q \in Rq : SentTo(q)
    BY <2>3, NothingSent, Zenon
  <2> QED BY <1>5, <2>1, <2>2, <2>3, ZenonT(30) DEF MainStep, TurnOnOpenWrite, CanSatisfy,
             UpstreamHeaded, UpstreamFailed, BoWriteRefused, BoWritten, BodyEnd, CloseWrite, Join,
             Sent, sendVars
<1>6. ASSUME NEW r \in Rq, SendStep(r) PROVE \A q \in Rq : SentTo(q)
  <2>1. ASSUME read_offset' = read_offset PROVE \A q \in Rq : SentTo(q)
    BY <2>1, NothingSent, Zenon
  <2> QED BY <1>6, <2>1, ReadSent, Zenon DEF SendStep, OpenRead, ReadFailed, ReadNoBlock, CloseRead
<1> QED BY <1>1, <1>2, <1>4, <1>5, <1>6, Zenon DEF Next, Finished

\* No client is ever sent a hole: what read() and write() hand to a client is in the cache file
\* by then, however the writers, the readers and their failures interleave.
THEOREM SentBytesAreOnDisk == Spec => SentBytesOnDisk
<1>1. TreeInv /\ FiberInv /\ DiskInv /\ [Next]_vars => TreeInv' /\ FiberInv' /\ DiskInv'
  BY TreeInvStep, FiberInvStep, DiskInvStep, Zenon
<1>2. TreeInv /\ FiberInv /\ DiskInv /\ [Next]_vars =>
        [\A r \in Rq : rpc[r] \in {"loop", "wait"} =>
           read_offset[r] .. read_offset'[r] - 1 \subseteq file']_vars
  BY StepSent, Zenon DEF SentTo
<1> QED BY <1>1, <1>2, TreeInvInit, FiberInvInit, DiskInvInit, PTL DEF Spec, SentBytesOnDisk

\* Every block of t lies inside one of u.
Covers(u, t) == \A b \in DOMAIN t : \E c \in DOMAIN u : c <= b /\ t[b].to <= u[c].to

LEMMA CoversRecords ==
  ASSUME TreeInv, IsTree(blocks'), Covers(blocks', blocks)
  PROVE  Recorded \subseteq Recorded'
<1> SUFFICES ASSUME NEW b \in Froms, NEW x \in b .. blocks[b].to - 1
             PROVE  \E c \in DOMAIN blocks' : x \in c .. blocks'[c].to - 1
  BY Zenon DEF Recorded, Froms
<1>1. PICK c \in DOMAIN blocks' : c <= b /\ blocks[b].to <= blocks'[c].to
  BY Zenon DEF Covers, Froms
<1>2. /\ b \in Int /\ blocks[b].to \in Int /\ c \in Int /\ blocks'[c].to \in Int
  BY TreeOfInv DEF IsTree, Block, Froms
<1>3. x \in c .. blocks'[c].to - 1
  BY <1>1, <1>2
<1> QED BY <1>3, Zenon

\* One block changes, not its end.
LEMMA CoversSameEnds ==
  ASSUME NEW t, IsTree(t), NEW s, IsTree(s), DOMAIN s \subseteq DOMAIN t,
         \A b \in DOMAIN s : t[b].to = s[b].to,
         NEW c \in DOMAIN t, NEW x, x.to = t[c].to
  PROVE  Covers([t EXCEPT ![c] = x], s)
<1> DEFINE u == [t EXCEPT ![c] = x]
<1>1. DOMAIN u = DOMAIN t /\ \A b \in DOMAIN t : u[b].to = t[b].to
  OBVIOUS
<1> HIDE DEF u
<1>2. \A b \in DOMAIN s : b \in Int /\ s[b].to \in Int
  BY DEF IsTree, Block
<1>3. Covers(u, s)
  BY <1>1, <1>2 DEF Covers
<1> QED BY <1>3, Zenon DEF u

\* insert() adds.
LEMMA InsertKeeps ==
  ASSUME TreeInv, NEW o \in Offset
  PROVE  IsTree(insert(o)) /\ DOMAIN blocks \subseteq DOMAIN insert(o)
         /\ \A b \in DOMAIN blocks : insert(o)[b].to = blocks[b].to
<1>1. /\ IsTree(insert(o)) /\ Froms \subseteq DOMAIN insert(o)
      /\ \A b \in DOMAIN insert(o) : insert(o)[b] = IF b \in Froms THEN blocks[b] ELSE EmptyBlock(b)
  BY InsertTree, TreeOfInv, Zenon
<1> HIDE DEF insert
<1> QED BY <1>1, Zenon DEF Froms

\* write() extends a block, and the one it merges lies inside it.
LEMMA GrowCovers ==
  ASSUME TreeInv, NEW o \in Offset, NEW n \in 1 .. MaxChunk, o + n \in Offset, NEW b \in Froms,
         blocks[b].to < o + n, Grow(b, o, n)
  PROVE  Covers(blocks', blocks)
<1> DEFINE woken(t) == {q \in t[b].wait : \/ read_offset[q] < t[b].to
                                          \/ t[b].net_fiber = NULL}
<1>1. PICK t \in Extended(b, o + n) : blocks' = [t EXCEPT ![b].wait = @ \ woken(t)]
  BY Zenon DEF Grow
<1> HIDE DEF woken
<1>2. IsTree(t) /\ b \in DOMAIN t /\ IsTree(blocks) /\ Separated(blocks)
  BY ExtendedTree, TreeOfInv, Zenon
<1>3. DOMAIN blocks' = DOMAIN t /\ \A d \in DOMAIN t : blocks'[d].to = t[d].to
  BY <1>1, <1>2, Zenon DEF IsTree, Block
<1>4. \A d \in Froms : d \in Int /\ blocks[d].to \in Int /\ blocks[d] \in Block /\ d <= blocks[d].to
  BY <1>2, SMTT(30) DEF IsTree, Block, Froms, Separated
<1>5. CASE \A c \in Froms : b < c => o + n < c
  <2>1. t = [blocks EXCEPT ![b].to = o + n]
    BY <1>5, Zenon DEF Extended
  <2>2. DOMAIN t = Froms /\ \A d \in Froms : blocks[d].to <= t[d].to
    BY <1>4, <2>1, SMTT(30) DEF Froms, Block
  <2> QED BY <1>3, <1>4, <2>2 DEF Covers, Froms
<1>6. CASE ~ \A c \in Froms : b < c => o + n < c
  <2>1. PICK c \in Froms :
          /\ IsNext(b, c)
          /\ t = [d \in Froms \ {c} |-> IF d = b THEN Merged(b, c) ELSE blocks[d]]
    BY <1>6, Zenon DEF Extended
  <2>2. b < c /\ blocks[b].to < c
    BY <1>2, <2>1, Zenon DEF IsNext, Separated, Froms
  <2>3. Merged(b, c).to = blocks[c].to
    BY <1>4, Zenon DEF Merged, Block
  <2>4. DOMAIN t = Froms \ {c} /\ t[b].to = blocks[c].to
        /\ \A d \in Froms : d # b /\ d # c => t[d].to = blocks[d].to
    BY <1>4, <2>1, <2>2, <2>3, SMTT(30)
  <2>5. ASSUME NEW d \in Froms
        PROVE  \E e \in DOMAIN blocks' : e <= d /\ blocks[d].to <= blocks'[e].to
    <3>1. CASE d = b
      BY <1>3, <1>4, <2>2, <2>4, <3>1, SMTT(30)
    <3>2. CASE d = c
      BY <1>2, <1>3, <1>4, <2>2, <2>4, <3>2, SMTT(30)
    <3>3. CASE d # b /\ d # c
      BY <1>3, <1>4, <2>4, <3>3, SMTT(30)
    <3> QED BY <3>1, <3>2, <3>3, Zenon
  <2> QED BY <2>5, Zenon DEF Covers, Froms
<1> QED BY <1>5, <1>6, Zenon

\* Only a swap out and a crash make the tree forget data.
LEMMA StepKeeps ==
  ASSUME TreeInv, TreeInv', [Next]_vars
  PROVE  SwapOutAndIn \/ Crash \/ Recorded \subseteq Recorded'
<1>0. IsTree(blocks) /\ IsTree(blocks') /\ Separated(blocks)
  <2>1. IsTree(blocks')
    BY Zenon DEF TreeInv, ValuesOK, IsTree, Froms
  <2> QED BY <2>1, TreeOfInv, Zenon
<1>1. ASSUME blocks' = blocks PROVE Recorded \subseteq Recorded'
  BY <1>1, Zenon DEF Recorded, Froms
<1>2. ASSUME Covers(blocks', blocks) PROVE Recorded \subseteq Recorded'
  BY <1>0, <1>2, CoversRecords, Zenon
<1>3. ASSUME NEW r \in Rq, NEW o \in Offset, OpenWrite(r, o) PROVE Recorded \subseteq Recorded'
  <2>1. PICK b \in DOMAIN insert(o) : blocks' = [insert(o) EXCEPT ![b].net_fiber = r]
    BY <1>3, Zenon DEF OpenWrite
  <2> DEFINE x == [insert(o)[b] EXCEPT !.net_fiber = r]
  <2>2. x.to = insert(o)[b].to
    BY InsertKeeps DEF IsTree, Block
  <2>3. blocks' = [insert(o) EXCEPT ![b] = x]
    BY <2>1, Zenon
  <2> HIDE DEF x
  <2> QED BY <1>0, <1>2, <2>2, <2>3, InsertKeeps, CoversSameEnds, Zenon
<1>4. ASSUME NEW r \in Rq, Read(r) PROVE Recorded \subseteq Recorded'
  <2> DEFINE t == IF pc[r] = "sending" THEN insert(read_offset[r]) ELSE blocks
  <2>1. PICK b \in DOMAIN t :
          ReadData(r, t, b) \/ ReadStop(r, t, b) \/ ReadTakeOver(r, t, b) \/ ReadWait(r, t, b)
    BY <1>4, Zenon DEF Read
  <2>2. read_offset[r] \in Offset
    BY Zenon DEF TreeInv, ValuesOK
  <2>3. IsTree(t) /\ DOMAIN blocks \subseteq DOMAIN t /\ \A d \in DOMAIN blocks : t[d].to = blocks[d].to
    <3>1. CASE pc[r] = "sending"
      <4>1. t = insert(read_offset[r])
        BY <3>1, Zenon
      <4> QED BY <2>2, <4>1, InsertKeeps, Zenon
    <3>2. CASE pc[r] # "sending"
      <4>1. t = blocks
        BY <3>2, Zenon
      <4> QED BY <1>0, <4>1, Zenon
    <3> QED BY <3>1, <3>2, ZenonT(30)
  <2> HIDE DEF t
  <2>4. PICK x \in Block : x.to = t[b].to /\ blocks' = [t EXCEPT ![b] = x]
    BY <2>1, <2>2, <2>3, ReadBlock, Zenon
  <2> QED BY <1>0, <1>2, <2>3, <2>4, CoversSameEnds, ZenonT(30)
<1>5. ASSUME NEW r \in Rq, NEW n \in 1 .. MaxChunk, BoWrite(r, n) PROVE Recorded \subseteq Recorded'
  <2>1. blocks' = blocks \/ \E b \in Froms : WriteBlock(b, offset[r], n)
    BY <1>5, ZenonT(30) DEF BoWrite
  <2>2. offset[r] \in Offset /\ offset[r] + n <= fetch_end[r] /\ fetch_end[r] \in Offset
    BY <1>5, Zenon DEF BoWrite, TreeInv, ValuesOK
  <2>3. offset[r] + n \in Offset
    BY <2>2, SMTT(30)
  <2>4. ASSUME NEW b \in Froms, WriteBlock(b, offset[r], n), blocks' # blocks
        PROVE  Covers(blocks', blocks)
    <3>1. blocks[b].to \in Int
      BY <1>0, SMTT(30) DEF IsTree, Block, Froms
    <3>2. Grow(b, offset[r], n) /\ blocks[b].to < offset[r] + n
      BY <2>2, <2>4, <3>1, SMTT(30) DEF WriteBlock
    <3> QED BY <2>2, <2>3, <3>2, GrowCovers, Zenon
  <2> QED BY <1>1, <1>2, <2>1, <2>4, Zenon
<1>6. ASSUME NEW r \in Rq, CloseWrite(r) PROVE Recorded \subseteq Recorded'
  <2>1. PICK b \in Froms : \E new \in WriterRemoved(b, r) : blocks' = [blocks EXCEPT ![b] = new]
    BY <1>6, Zenon DEF CloseWrite
  <2>2. PICK new \in WriterRemoved(b, r) : blocks' = [blocks EXCEPT ![b] = new]
    BY <2>1, Zenon
  <2>3. new.to = blocks[b].to
    BY WriterRemovedBlock, Zenon
  <2>4. Covers(blocks', blocks)
    BY <1>0, <2>2, <2>3, CoversSameEnds, ZenonT(30) DEF Froms
  <2> QED BY <1>2, <2>4, Zenon
<1>7. CASE UNCHANGED vars
  BY <1>1, <1>7, Zenon DEF vars, shared
<1>8. ASSUME NEW r \in Rq, \E w \in Ranges : TurnOn(r, w) \/ OpenCache(r, w)
      PROVE  Recorded \subseteq Recorded'
  BY <1>1, <1>8, Zenon DEF TurnOn, OpenCache
<1>9. ASSUME NEW r \in Rq, MainStep(r) PROVE Recorded \subseteq Recorded'
  <2>1. read_offset[r] \in Offset /\ offset[r] \in Offset
    BY Zenon DEF TreeInv, ValuesOK
  <2>2. CASE TurnOnOpenWrite(r) \/ UpstreamHeaded(r)
    <3>1. blocks' = blocks \/ \E o \in Offset : OpenWrite(r, o)
      BY <2>1, <2>2, Zenon DEF TurnOnOpenWrite, UpstreamHeaded
    <3> QED BY <1>1, <1>3, <3>1, Zenon
  <2>3. CASE \/ CanSatisfy(r) \/ SendCached(r) \/ UpstreamFailed(r) \/ BoWriteRefused(r)
             \/ BoWritten(r) \/ BodyEnd(r) \/ Join(r) \/ Sent(r)
    <3>1. blocks' = blocks
      BY <2>3, Zenon DEF CanSatisfy, SendCached, UpstreamFailed, BoWriteRefused, BoWritten, BodyEnd,
                  Join, Sent, shared
    <3> QED BY <1>1, <3>1, Zenon
  <2> QED BY <1>5, <1>6, <1>9, <2>2, <2>3, Zenon DEF MainStep
<1>10. ASSUME NEW r \in Rq, SendStep(r) PROVE Recorded \subseteq Recorded'
  BY <1>1, <1>4, <1>10, Zenon DEF SendStep, OpenRead, ReadFailed, ReadNoBlock, CloseRead, shared
<1> QED BY <1>7, <1>8, <1>9, <1>10, Zenon DEF Next, Finished

\* Data once recorded stays recorded: no write, merge, close or read of the tree loses any of
\* it; only dropping the object from memory or a crash fall back to the progress file.
THEOREM NothingIsForgotten == Spec => NothingForgotten
<1>1. TreeInv /\ [Next]_vars => TreeInv'
  BY TreeInvStep, Zenon
<1>2. TreeInv /\ TreeInv' /\ [Next]_vars =>
        [SwapOutAndIn \/ Crash \/ Recorded \subseteq Recorded']_vars
  BY StepKeeps, Zenon
<1> QED BY <1>1, <1>2, TreeInvInit, PTL DEF Spec, NothingForgotten
=============================================================================
