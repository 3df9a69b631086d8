--------------------------- MODULE BackendProofs ----------------------------
(***************************************************************************)
(* The two ends of an answer that an external program makes.  A request    *)
(* parked in the queue of a worker process always has somebody who will    *)
(* wake it, the processes and their children are counted exactly, for any  *)
(* number of requests and process objects (VirtualProcess); and the body   *)
(* that reaches the client and the cache is what the upstream sent,        *)
(* through any number of pieces, with the fiber that sends the temporary   *)
(* file never left asleep (ResponseBody).                                  *)
(***************************************************************************)
EXTENDS VirtualProcess, ResponseBody, FiniteSetTheorems, TLAPS

-----------------------------------------------------------------------------
(* The worker processes *)

Places == Inside \cup {"start", "using", "finish", "done"}

\* The types of the variables the argument is about; a request on its way to a
\* start has a process.
StartTypes ==
  /\ pool \in VP \cup {NULL}
  /\ status \in [VP -> Statuses]
  /\ queue \in [VP -> SUBSET Rq]
  /\ pc \in [Rq -> Places]
  /\ gc \in [Rq -> VP \cup {NULL}]
  /\ \A r \in Rq : pc[r] \in Starting \cup {"get", "lock"} => gc[r] \in VP

\* Some request is starting the child of v.
HasStarter(v) == \E r \in Rq : gc[r] = v /\ pc[r] \in Starting

\* Only parked requests are in a queue, each in that of its own process.
QueuedWait == \A v \in VP : \A q \in queue[v] : pc[q] = "wait" /\ gc[q] = v

\* A process in progress has a starter: the reason why a request that finds it
\* so may park.
ProgressHasStarter == \A v \in VP : status[v] = "Inprogress" => HasStarter(v)

StartInv == StartTypes /\ QueuedWait /\ ProgressHasStarter /\ WaitersHaveStarter

-----------------------------------------------------------------------------
(* What a step must do to keep StartInv *)

\* Nobody gives up a start or leaves a queue, no queue grows and no process comes
\* to be in progress.
Calm ==
  /\ \A q \in Rq : pc[q] \in Starting => pc'[q] \in Starting /\ gc'[q] = gc[q]
  /\ \A q \in Rq : pc[q] = "wait" => pc'[q] = "wait" /\ gc'[q] = gc[q]
  /\ \A v \in VP : queue'[v] \subseteq queue[v]
  /\ \A v \in VP : status'[v] = "Inprogress" => status[v] = "Inprogress"

\* Such a step keeps the invariant.
LEMMA CalmKept ==
  ASSUME StartInv, StartTypes', Calm
  PROVE  StartInv'
<1>1. \A v \in VP : HasStarter(v) => HasStarter(v)'
  BY Zenon DEF Calm, HasStarter
<1>2. QueuedWait'
  BY Zenon DEF StartInv, QueuedWait, Calm, StartTypes
<1>3. ProgressHasStarter'
  BY <1>1, Zenon DEF StartInv, ProgressHasStarter, Calm
<1>4. WaitersHaveStarter'
  <2> SUFFICES ASSUME NEW v \in VP, queue'[v] # {} PROVE HasStarter(v)'
    BY Zenon DEF WaitersHaveStarter, HasStarter
  <2>1. queue[v] # {}
    BY Zenon DEF Calm
  <2>2. HasStarter(v)
    BY <2>1, Zenon DEF StartInv, WaitersHaveStarter, HasStarter
  <2> QED BY <1>1, <2>2, Zenon
<1> QED BY <1>2, <1>3, <1>4, Zenon DEF StartInv

\* Nothing is started at first.
LEMMA StartInvInit == Init => StartInv
<1> SUFFICES ASSUME Init PROVE StartInv
  OBVIOUS
<1>1. StartTypes
  BY Zenon DEF Init, StartTypes, Statuses, Places, Starting
<1>2. QueuedWait /\ ProgressHasStarter /\ WaitersHaveStarter
  BY Zenon DEF Init, QueuedWait, ProgressHasStarter, WaitersHaveStarter
<1> QED BY <1>1, <1>2, Zenon DEF StartInv

-----------------------------------------------------------------------------
(* One lemma per kind of step *)

\* A request takes an object from the map, or puts a new one there.
LEMMA RefsStep ==
  ASSUME StartInv, NEW r \in Rq, RefsPooled(r) \/ RefsCreate(r) \/ RefsRecreate(r)
  PROVE  StartInv'
<1>1. pc[r] = "start" /\ pc' = [pc EXCEPT ![r] = "get"]
  BY Zenon DEF RefsPooled, RefsCreate, RefsRecreate
<1>2. /\ pool' \in VP \cup {NULL}
      /\ \E v \in VP : gc' = [gc EXCEPT ![r] = v]
  BY Zenon DEF RefsPooled, RefsCreate, RefsRecreate, NewProcess, StartInv, StartTypes
<1>3. \/ UNCHANGED <<status, queue>>
      \/ \E v \in VP : /\ status' = [status EXCEPT ![v] = "Poweroff"]
                       /\ queue' = [queue EXCEPT ![v] = {}]
  BY Zenon DEF RefsPooled, RefsCreate, RefsRecreate, NewProcess
<1>4. StartTypes'
  BY <1>1, <1>2, <1>3 DEF StartInv, StartTypes, Statuses, Places, Inside, Starting
<1>5. Calm
  BY <1>1, <1>2, <1>3, Zenon DEF Calm, StartInv, StartTypes, Starting
<1> QED BY <1>4, <1>5, CalmKept, Zenon

\* The request that finds the process off starts it.
LEMMA GetStartsStep ==
  ASSUME StartInv, NEW r \in Rq, GetStarts(r)
  PROVE  StartInv'
<1>1. /\ pc[r] = "lock" /\ pc' = [pc EXCEPT ![r] = "power"]
      /\ status' = [status EXCEPT ![gc[r]] = "Inprogress"]
      /\ UNCHANGED <<pool, queue, gc>>
  BY Zenon DEF GetStarts, Goto
<1>2. StartTypes'
  BY <1>1, Zenon DEF StartInv, StartTypes, Statuses, Places, Inside, Starting
<1>3. \A v \in VP : HasStarter(v) \/ v = gc[r] => HasStarter(v)'
  BY <1>1, Zenon DEF HasStarter, StartInv, StartTypes, Starting
<1>4. QueuedWait'
  BY <1>1, Zenon DEF QueuedWait, StartInv, StartTypes
<1>5. ProgressHasStarter'
  BY <1>1, <1>3, Zenon DEF ProgressHasStarter, StartInv, StartTypes
<1>6. WaitersHaveStarter'
  BY <1>1, <1>3, Zenon DEF WaitersHaveStarter, StartInv, HasStarter
<1> QED BY <1>2, <1>4, <1>5, <1>6, Zenon DEF StartInv

\* The request that finds the process in progress parks: its starter is still there.
LEMMA GetWaitsStep ==
  ASSUME StartInv, NEW r \in Rq, GetWaits(r)
  PROVE  StartInv'
<1>1. /\ pc[r] = "lock" /\ pc' = [pc EXCEPT ![r] = "wait"]
      /\ status[gc[r]] = "Inprogress"
      /\ queue' = [queue EXCEPT ![gc[r]] = @ \cup {r}]
      /\ UNCHANGED <<pool, status, gc>>
  BY Zenon DEF GetWaits, Goto
<1>2. StartTypes'
  BY <1>1, Zenon DEF StartInv, StartTypes, Places, Inside, Starting
<1>3. \A v \in VP : HasStarter(v) => HasStarter(v)'
  BY <1>1, Zenon DEF HasStarter, StartInv, StartTypes, Starting
<1>4. QueuedWait'
  BY <1>1 DEF QueuedWait, StartInv, StartTypes
<1>5. ProgressHasStarter'
  BY <1>1, <1>3, Zenon DEF ProgressHasStarter, StartInv
<1>6. WaitersHaveStarter'
  <2> SUFFICES ASSUME NEW v \in VP, queue'[v] # {} PROVE HasStarter(v)'
    BY Zenon DEF WaitersHaveStarter, HasStarter
  <2>1. queue[v] # {} \/ status[v] = "Inprogress"
    BY <1>1, Zenon DEF StartInv, StartTypes
  <2>2. HasStarter(v)
    BY <2>1, Zenon DEF StartInv, WaitersHaveStarter, ProgressHasStarter, HasStarter
  <2> QED BY <1>3, <2>2, Zenon
<1> QED BY <1>2, <1>4, <1>5, <1>6, Zenon DEF StartInv

\* The starter leaves, but not before the queue is empty and the start is over.
LEMMA NoticeStep ==
  ASSUME StartInv, NEW r \in Rq, NoticePowerResult(r)
  PROVE  StartInv'
<1>1. PICK p \in {"connect", "release"}, s \in {"Poweron", "Poweroff"} :
        /\ pc' = [q \in Rq |-> IF q = r THEN "release"
                               ELSE IF q \in queue[gc[r]] THEN p ELSE pc[q]]
        /\ status' = [status EXCEPT ![gc[r]] = s]
  BY Zenon DEF NoticePowerResult, Woken
<1>2. /\ pc[r] = "notice"
      /\ queue' = [queue EXCEPT ![gc[r]] = {}]
      /\ UNCHANGED <<pool, gc>>
  BY Zenon DEF NoticePowerResult
<1>3. StartTypes'
  BY <1>1, <1>2, Zenon DEF StartInv, StartTypes, Statuses, Places, Inside, Starting
<1>4. ASSUME NEW v \in VP, v # gc[r], HasStarter(v) PROVE HasStarter(v)'
  <2>1. PICK q \in Rq : gc[q] = v /\ pc[q] \in Starting
    BY <1>4, Zenon DEF HasStarter
  <2>2. gc[r] \in VP
    BY <1>2, Zenon DEF StartInv, StartTypes, Starting
  <2>3. q \notin queue[gc[r]]
    BY <2>1, <2>2, Zenon DEF StartInv, QueuedWait, Starting
  <2>4. pc'[q] = pc[q]
    BY <1>1, <1>4, <2>1, <2>3, Zenon
  <2> QED BY <1>2, <2>1, <2>4, Zenon DEF HasStarter
<1>5. ASSUME NEW v \in VP, NEW q \in queue'[v] PROVE pc'[q] = "wait" /\ gc'[q] = v
  <2>1. v # gc[r] /\ q \in queue[v] /\ q \in Rq
    BY <1>2, <1>5, Zenon DEF StartInv, StartTypes
  <2>2. pc[q] = "wait" /\ gc[q] = v
    BY <2>1, Zenon DEF StartInv, QueuedWait
  <2>3. q \notin queue[gc[r]] /\ q # r
    BY <1>2, <2>1, <2>2, Zenon DEF StartInv, QueuedWait, StartTypes, Starting
  <2> QED BY <1>1, <1>2, <2>1, <2>2, <2>3, Zenon
<1>6. ASSUME NEW v \in VP, status'[v] = "Inprogress" PROVE HasStarter(v)'
  <2>1. v # gc[r] /\ status[v] = "Inprogress"
    BY <1>1, <1>6, Zenon DEF StartInv, StartTypes
  <2> QED BY <1>4, <2>1, Zenon DEF StartInv, ProgressHasStarter
<1>7. ASSUME NEW v \in VP, queue'[v] # {} PROVE HasStarter(v)'
  <2>1. v # gc[r] /\ queue[v] # {}
    BY <1>2, <1>7, Zenon DEF StartInv, StartTypes
  <2>2. HasStarter(v)
    BY <2>1, Zenon DEF StartInv, WaitersHaveStarter, HasStarter
  <2> QED BY <1>4, <2>1, <2>2, Zenon
<1>8. QueuedWait' /\ ProgressHasStarter'
  BY <1>5, <1>6, Zenon DEF QueuedWait, ProgressHasStarter
<1>9. WaitersHaveStarter'
  BY <1>7, Zenon DEF WaitersHaveStarter, HasStarter
<1> QED BY <1>3, <1>8, <1>9, Zenon DEF StartInv

\* The steps of a request that is not starting anything, or goes on with its start.
LEMMA OtherRequestStep ==
  ASSUME StartInv, NEW r \in Rq,
         \/ GetUpstream(r) \/ GetOn(r) \/ PowerFails(r) \/ PowerWorks(r) \/ PowerResult(r)
         \/ TryConnectWorks(r) \/ TryConnectFails(r) \/ ConnectWorks(r) \/ ConnectFails(r)
         \/ HealthCheck(r) \/ HealthClose(r) \/ UseFails(r) \/ Finish(r)
  PROVE  StartInv'
<1>1. /\ UNCHANGED <<pool, queue, gc>>
      /\ \/ status' = status
         \/ \E v : status' = [status EXCEPT ![v] = IF @ = "Inprogress" THEN @ ELSE "Close"]
  BY Zenon DEF GetUpstream, GetOn, PowerFails, PowerWorks, PowerResult, TryConnectWorks,
     TryConnectFails, ConnectWorks, ConnectFails, HealthCheck, HealthClose, UseFails, Finish
<1>2. PICK p : /\ pc' = [pc EXCEPT ![r] = p]
               /\ \/ pc[r] = "get" /\ p \in {"connect", "lock"}
                  \/ pc[r] \in Starting /\ p \in Starting
                  \/ /\ pc[r] \notin Starting \cup {"wait"}
                     /\ p \in {"connect", "check", "close", "release", "finish", "done"}
  BY Zenon DEF GetUpstream, GetOn, PowerFails, PowerWorks, PowerResult, TryConnectWorks,
     TryConnectFails, ConnectWorks, ConnectFails, HealthCheck, HealthClose, UseFails, Finish,
     Goto, AfterHealth, Starting
<1>3. StartTypes'
  BY <1>1, <1>2 DEF StartInv, StartTypes, Statuses, Places, Inside, Starting
<1>4. Calm
  BY <1>1, <1>2, Zenon DEF Calm, StartInv, StartTypes, Starting
<1> QED BY <1>3, <1>4, CalmKept, Zenon

\* A request lets go of its process when it no longer starts it nor waits for it.
LEMMA EndStep ==
  ASSUME StartInv, NEW r \in Rq, EndGetUpstream(r)
  PROVE  StartInv'
<1>1. /\ UNCHANGED <<pool, queue, status>>
      /\ pc[r] = "release" /\ gc' = [gc EXCEPT ![r] = NULL]
      /\ \E p \in {"done", "using"} : pc' = [pc EXCEPT ![r] = p]
  BY Zenon DEF EndGetUpstream, Goto
<1>2. StartTypes'
  BY <1>1, Zenon DEF StartInv, StartTypes, Places, Inside, Starting
<1>3. Calm
  BY <1>1, Zenon DEF Calm, StartInv, StartTypes, Starting
<1> QED BY <1>2, <1>3, CalmKept, Zenon

\* The administrator, the timer and the child touch no queue and start nothing.
LEMMA OutsideStep ==
  ASSUME StartInv, KillProcess \/ Refresh \/ \E v \in VP : ChildExit(v)
  PROVE  StartInv'
<1>1. /\ UNCHANGED <<queue, pc, gc>> /\ pool' \in {pool, NULL}
      /\ status' = status \/ status' = [status EXCEPT ![pool] = "Close"]
  BY Zenon DEF KillProcess, killProcess, Refresh, ChildExit
<1>2. StartTypes'
  BY <1>1, Zenon DEF StartInv, StartTypes, Statuses
<1>3. Calm
  BY <1>1, Zenon DEF Calm, StartInv, StartTypes
<1> QED BY <1>2, <1>3, CalmKept, Zenon

\* Every fiber parked by GetUpstream has a request that will empty its queue in
\* NoticePowerResult, whatever kills, replacements and second starts happen
\* meanwhile (KVirtualHostProcess.cpp).
THEOREM WaitersAlwaysHaveStarter == Spec => []WaitersHaveStarter
<1>1. Init => StartInv
  BY StartInvInit, Zenon
<1>2. StartInv /\ [Next]_vars => StartInv'
  <2> SUFFICES ASSUME StartInv, [Next]_vars PROVE StartInv'
    OBVIOUS
  <2>1. ASSUME NEW r \in Rq, Step(r) PROVE StartInv'
    BY <2>1, RefsStep, GetStartsStep, GetWaitsStep, NoticeStep, OtherRequestStep, EndStep,
       Zenon DEF Step
  <2>2. CASE KillProcess \/ Refresh \/ \E v \in VP : ChildExit(v)
    BY <2>2, OutsideStep, Zenon
  <2>3. CASE UNCHANGED vars
    <3>1. StartTypes' /\ Calm
      BY <2>3, Zenon DEF vars, StartInv, StartTypes, Calm
    <3> QED BY <3>1, CalmKept, Zenon
  <2> QED BY <2>1, <2>2, <2>3, Zenon DEF Next
<1>3. StartInv => WaitersHaveStarter
  BY Zenon DEF StartInv
<1> QED BY <1>1, <1>2, <1>3, PTL DEF Spec

-----------------------------------------------------------------------------
(* Counting references *)

\* How many requests a variable of theirs maps to v.
Count(f, v) == Cardinality({q \in Rq : f[q] = v})

One(w, v) == IF w = v THEN 1 ELSE 0

\* The number of requests is a natural number, positive if there is one.
LEMMA CountNat ==
  ASSUME NEW f, NEW v
  PROVE  /\ Count(f, v) \in Nat
         /\ \A q \in Rq : f[q] = v => Count(f, v) > 0
<1> DEFINE S == {q \in Rq : f[q] = v}
<1>1. IsFiniteSet(S)
  BY RequestsFinite, FS_Subset, Zenon
<1>2. Cardinality(S) \in Nat /\ (Cardinality(S) = 0 <=> S = {})
  BY <1>1, FS_CardinalityType, FS_EmptySet, Zenon
<1> QED BY <1>2 DEF Count

\* A request that changes to w moves one from its old value to w.
LEMMA CountMoves ==
  ASSUME NEW f, NEW v, NEW w, NEW T, f \in [Rq -> T], NEW r \in Rq
  PROVE  Count([f EXCEPT ![r] = w], v)
           = Count(f, v) + One(w, v) - One(f[r], v)
<1> DEFINE S == {q \in Rq : f[q] = v}
           W == {q \in Rq : [f EXCEPT ![r] = w][q] = v}
<1>1. IsFiniteSet(S) /\ IsFiniteSet(W)
  BY RequestsFinite, FS_Subset, Zenon
<1>2. CASE One(w, v) = One(f[r], v)
  <2>1. W = S
    BY <1>2 DEF One
  <2>2. Cardinality(S) \in Nat
    BY <1>1, FS_CardinalityType, Zenon
  <2> QED BY <1>2, <2>1, <2>2 DEF Count, One
<1>3. CASE w = v /\ f[r] # v
  <2>1. W = S \cup {r} /\ r \notin S
    BY <1>3, Zenon
  <2>2. Cardinality(W) = Cardinality(S) + 1 /\ Cardinality(S) \in Nat
    BY <1>1, <2>1, FS_AddElement, FS_CardinalityType, Zenon
  <2> QED BY <1>3, <2>2 DEF Count, One
<1>4. CASE w # v /\ f[r] = v
  <2>1. W = S \ {r} /\ r \in S
    BY <1>4, Zenon
  <2>2. Cardinality(W) = Cardinality(S) - 1 /\ Cardinality(S) \in Nat
    BY <1>1, <2>1, FS_RemoveElement, FS_CardinalityType, Zenon
  <2> QED BY <1>4, <2>2 DEF Count, One
<1> QED BY <1>2, <1>3, <1>4, Zenon DEF One

-----------------------------------------------------------------------------
(* The counters are exact *)

RefTypes ==
  /\ live \subseteq VP
  /\ refs \in [VP -> Int]
  /\ st \in [VP -> {NULL, "up", "down"}]
  /\ us \in [Rq -> VP \cup {NULL}]

\* What a request holds at each place.
PlaceHolds ==
  \A r \in Rq :
    /\ pc[r] = "start" => gc[r] = NULL
    /\ pc[r] \in Starting \cup {"get", "lock", "wait", "connect", "release"} => gc[r] \in VP
    /\ pc[r] \in {"start", "get", "lock", "wait", "connect", "power", "result", "connecting"}
         => us[r] = NULL
    /\ pc[r] \in {"using", "finish"} => us[r] \in VP
    /\ pc[r] \in {"check", "close"} => gc[r] \in VP \/ us[r] \in VP

Balanced == \A v \in VP : refs[v] = Count(gc, v) + Count(us, v) + One(pool, v)

\* Exactly the counted objects are alive, and a child belongs to a live object.
LiveCounted == \A v \in VP : (v \in live <=> refs[v] > 0) /\ (st[v] # NULL => refs[v] > 0)

RefsInv == StartInv /\ RefTypes /\ PlaceHolds /\ Balanced /\ LiveCounted

\* A counter is not negative, and positive for what the map or a request holds.
LEMMA HeldCounted ==
  ASSUME RefTypes, Balanced
  PROVE  \A v \in VP :
           /\ refs[v] \in Nat
           /\ pool = v => refs[v] > 0
           /\ \A q \in Rq : gc[q] = v \/ us[q] = v => refs[v] > 0
           /\ \A q \in Rq : pool = v /\ (gc[q] = v \/ us[q] = v) => refs[v] > 1
<1> SUFFICES ASSUME NEW v \in VP
             PROVE  /\ refs[v] \in Nat
                    /\ pool = v => refs[v] > 0
                    /\ \A q \in Rq : gc[q] = v \/ us[q] = v => refs[v] > 0
                    /\ \A q \in Rq : pool = v /\ (gc[q] = v \/ us[q] = v) => refs[v] > 1
  OBVIOUS
<1>1. refs[v] = Count(gc, v) + Count(us, v) + One(pool, v)
  BY Zenon DEF Balanced
<1>2. /\ Count(gc, v) \in Nat /\ \A q \in Rq : gc[q] = v => Count(gc, v) > 0
      /\ Count(us, v) \in Nat /\ \A q \in Rq : us[q] = v => Count(us, v) > 0
  BY CountNat, Zenon
<1> QED BY <1>1, <1>2 DEF One

\* What is invariant implies what the run checks: an object without references
\* has no waiter, because a waiter has a starter and the starter a reference.
LEMMA RefsInvExact == RefsInv => RefsExact
<1> SUFFICES ASSUME RefsInv, NEW v \in VP
             PROVE  /\ refs[v] = Cardinality(Holders(v)) + Cardinality(Users(v))
                                 + (IF pool = v THEN 1 ELSE 0)
                    /\ v \in live <=> refs[v] > 0
                    /\ v \notin live => queue[v] = {} /\ st[v] = NULL
  BY Zenon DEF RefsExact
<1>1. refs[v] = Cardinality(Holders(v)) + Cardinality(Users(v)) + (IF pool = v THEN 1 ELSE 0)
  BY Zenon DEF RefsInv, Balanced, Count, Holders, Users, One
<1>2. v \in live <=> refs[v] > 0
  BY Zenon DEF RefsInv, LiveCounted
<1>3. v \notin live => st[v] = NULL
  BY <1>2, Zenon DEF RefsInv, LiveCounted
<1>4. queue[v] # {} => refs[v] > 0
  BY HeldCounted, Zenon DEF RefsInv, StartInv, WaitersHaveStarter
<1> QED BY <1>1, <1>2, <1>3, <1>4, Zenon

LEMMA RefsInvInit == Init => RefsInv
<1> SUFFICES ASSUME Init PROVE RefsInv
  OBVIOUS
<1>1. RefTypes /\ PlaceHolds
  BY DEF Init, RefTypes, PlaceHolds, Starting
<1>2. ASSUME NEW v \in VP PROVE Count(gc, v) = 0 /\ Count(us, v) = 0 /\ One(pool, v) = 0
  <2>1. {q \in Rq : gc[q] = v} = {} /\ {q \in Rq : us[q] = v} = {} /\ pool # v
    BY NullIsNoProcess, Zenon DEF Init
  <2> QED BY <2>1, FS_EmptySet, Zenon DEF Count, One
<1>3. Balanced /\ LiveCounted
  BY <1>2 DEF Init, Balanced, LiveCounted
<1> QED BY <1>1, <1>3, StartInvInit, Zenon DEF RefsInv

\* A step that takes and gives back nothing, and gives no dead object a child.
LEMMA NoRefsKept ==
  ASSUME RefsInv, StartInv', RefTypes', PlaceHolds', UNCHANGED <<pool, live, refs, gc, us>>,
         \A v \in VP : st'[v] # NULL => st[v] # NULL \/ refs[v] > 0
  PROVE  RefsInv'
<1>1. Balanced'
  BY Zenon DEF RefsInv, Balanced
<1>2. LiveCounted'
  BY Zenon DEF RefsInv, LiveCounted
<1> QED BY <1>1, <1>2, Zenon DEF RefsInv

\* What the releases have in common: the count falls by one, and the object that
\* nobody holds is destroyed with its child.
LEMMA ReleaseCounted ==
  ASSUME RefsInv, NEW v \in VP, Release(v), refs[v] > 0,
         st' = [st EXCEPT ![v] = DestroyIfLast(v, @)] \/ st' = [st EXCEPT ![v] = NULL]
  PROVE  LiveCounted' /\ RefTypes!1' /\ RefTypes!2' /\ RefTypes!3'
<1>1. refs' = [refs EXCEPT ![v] = refs[v] - 1] /\ refs \in [VP -> Int]
  BY Zenon DEF Release, RefsInv, RefTypes
<1>2. live' = IF refs[v] = 1 THEN live \ {v} ELSE live
  BY Zenon DEF Release
<1>3. \A w \in VP : st'[w] # NULL => st[w] # NULL /\ ~(w = v /\ refs[v] = 1)
  BY Zenon DEF DestroyIfLast, RefsInv, RefTypes
<1>4. LiveCounted'
  BY <1>1, <1>2, <1>3 DEF LiveCounted, RefsInv, RefTypes
<1>5. RefTypes!1' /\ RefTypes!2'
  BY <1>1, <1>2 DEF RefsInv, RefTypes
<1>6. RefTypes!3'
  BY Zenon DEF RefsInv, RefTypes, DestroyIfLast
<1> QED BY <1>4, <1>5, <1>6, Zenon

\* GetUpstream ends: the request's reference is given back.
LEMMA EndCounted ==
  ASSUME RefsInv, NEW r \in Rq, EndGetUpstream(r)
  PROVE  RefsInv'
<1> DEFINE v == gc[r]
<1>1. v \in VP /\ v # NULL
  BY NullIsNoProcess, Zenon DEF EndGetUpstream, RefsInv, PlaceHolds
<1>2. refs[v] > 0
  BY <1>1, HeldCounted, Zenon DEF RefsInv
<1>3. LiveCounted' /\ RefTypes!1' /\ RefTypes!2' /\ RefTypes!3'
  BY <1>1, <1>2, ReleaseCounted, Zenon DEF EndGetUpstream
<1>4. RefTypes'
  BY <1>3, Zenon DEF RefTypes, RefsInv, EndGetUpstream
<1>5. PlaceHolds'
  BY NullIsNoProcess, ZenonT(30) DEF PlaceHolds, RefsInv, RefTypes, StartInv, StartTypes, EndGetUpstream,
     Goto, Starting
<1>6. \A w : Count(gc', w) = Count(gc, w) + One(NULL, w) - One(v, w)
  BY CountMoves, Zenon DEF EndGetUpstream, RefsInv, StartInv, StartTypes
<1>7. Balanced'
  <2> SUFFICES ASSUME NEW w \in VP
               PROVE  refs'[w] = Count(gc', w) + Count(us', w) + One(pool', w)
    BY Zenon DEF Balanced
  <2>1. refs[w] = Count(gc, w) + Count(us, w) + One(pool, w) /\ us' = us /\ pool' = pool
    BY Zenon DEF RefsInv, Balanced, EndGetUpstream
  <2>2. refs'[w] = refs[w] - One(v, w)
    BY <1>1 DEF EndGetUpstream, Release, One, RefsInv, RefTypes
  <2>3. One(NULL, w) = 0 /\ Count(gc, w) \in Nat /\ Count(us, w) \in Nat
    BY NullIsNoProcess, CountNat, Zenon DEF One
  <2> QED BY <1>6, <2>1, <2>2, <2>3 DEF One
<1> QED BY <1>3, <1>4, <1>5, <1>7, EndStep, Zenon DEF RefsInv

\* The request is over: its connection's reference is given back.
LEMMA FinishCounted ==
  ASSUME RefsInv, NEW r \in Rq, Finish(r)
  PROVE  RefsInv'
<1> DEFINE v == us[r]
<1>1. v \in VP /\ v # NULL
  BY NullIsNoProcess, Zenon DEF Finish, RefsInv, PlaceHolds
<1>2. refs[v] > 0
  BY <1>1, HeldCounted, Zenon DEF RefsInv
<1>3. LiveCounted' /\ RefTypes!1' /\ RefTypes!2' /\ RefTypes!3'
  BY <1>1, <1>2, ReleaseCounted, Zenon DEF Finish
<1>4. RefTypes'
  <2>1. us' \in [Rq -> VP \cup {NULL}]
    BY Zenon DEF Finish, RefsInv, RefTypes
  <2> QED BY <1>3, <2>1, Zenon DEF RefTypes
<1>5. PlaceHolds'
  BY NullIsNoProcess, ZenonT(30) DEF PlaceHolds, RefsInv, RefTypes, StartInv, StartTypes, Finish,
     Goto, Starting
<1>6. \A w : Count(us', w) = Count(us, w) + One(NULL, w) - One(v, w)
  BY CountMoves, Zenon DEF Finish, RefsInv, RefTypes
<1>7. Balanced'
  <2> SUFFICES ASSUME NEW w \in VP
               PROVE  refs'[w] = Count(gc', w) + Count(us', w) + One(pool', w)
    BY Zenon DEF Balanced
  <2>1. refs[w] = Count(gc, w) + Count(us, w) + One(pool, w) /\ gc' = gc /\ pool' = pool
    BY Zenon DEF RefsInv, Balanced, Finish
  <2>2. refs'[w] = refs[w] - One(v, w)
    BY <1>1 DEF Finish, Release, One, RefsInv, RefTypes
  <2>3. One(NULL, w) = 0 /\ Count(gc, w) \in Nat /\ Count(us, w) \in Nat
    BY NullIsNoProcess, CountNat, Zenon DEF One
  <2> QED BY <1>6, <2>1, <2>2, <2>3 DEF One
<1> QED BY <1>3, <1>4, <1>5, <1>7, OtherRequestStep, Zenon DEF RefsInv

\* The map lets go of the process, killed or idle.
LEMMA UnpoolCounted ==
  ASSUME RefsInv, KillProcess \/ Refresh
  PROVE  RefsInv'
<1> DEFINE v == pool
<1>1. /\ v \in VP /\ v # NULL /\ Release(v) /\ pool' = NULL /\ UNCHANGED <<pc, gc, us>>
      /\ st' = [st EXCEPT ![v] = DestroyIfLast(v, @)] \/ st' = [st EXCEPT ![v] = NULL]
  BY Zenon DEF KillProcess, Refresh, killProcess, RefsInv, StartInv, StartTypes
<1>2. refs[v] > 0
  BY <1>1, HeldCounted, Zenon DEF RefsInv
<1>3. LiveCounted' /\ RefTypes!1' /\ RefTypes!2' /\ RefTypes!3'
  BY <1>1, <1>2, ReleaseCounted, Zenon
<1>4. RefTypes' /\ PlaceHolds'
  BY <1>1, <1>3, Zenon DEF RefTypes, PlaceHolds, RefsInv
<1>5. Balanced'
  <2> SUFFICES ASSUME NEW w \in VP
               PROVE  refs'[w] = Count(gc', w) + Count(us', w) + One(pool', w)
    BY Zenon DEF Balanced
  <2>1. refs[w] = Count(gc, w) + Count(us, w) + One(pool, w)
    BY Zenon DEF RefsInv, Balanced
  <2>2. refs'[w] = refs[w] - One(v, w)
    BY <1>1 DEF Release, One, RefsInv, RefTypes
  <2>3. One(pool', w) = 0 /\ Count(gc, w) \in Nat /\ Count(us, w) \in Nat
    BY <1>1, NullIsNoProcess, CountNat, Zenon DEF One
  <2> QED BY <1>1, <2>1, <2>2, <2>3 DEF One
<1> QED BY <1>3, <1>4, <1>5, OutsideStep, Zenon DEF RefsInv

\* A request joins the process in the map.
LEMMA JoinCounted ==
  ASSUME RefsInv, NEW r \in Rq, RefsPooled(r)
  PROVE  RefsInv'
<1> DEFINE v == pool
<1>1. v \in VP /\ gc[r] = NULL /\ gc' = [gc EXCEPT ![r] = v]
  BY Zenon DEF RefsPooled, RefsInv, PlaceHolds, StartInv, StartTypes
<1>2. refs' = [refs EXCEPT ![v] = @ + 1] /\ UNCHANGED <<pool, live, st, us>>
  BY Zenon DEF RefsPooled
<1>3. refs[v] > 0
  BY <1>1, HeldCounted, Zenon DEF RefsInv
<1>4. RefTypes' /\ LiveCounted'
  BY <1>1, <1>2, <1>3, SMTT(30) DEF RefsInv, RefTypes, LiveCounted
<1>5. PlaceHolds'
  BY <1>1, <1>2, NullIsNoProcess DEF PlaceHolds, RefsInv, StartInv, StartTypes, RefsPooled, Starting
<1>6. \A w : Count(gc', w) = Count(gc, w) + One(v, w) - One(NULL, w)
  BY <1>1, CountMoves, Zenon DEF RefsInv, StartInv, StartTypes
<1>7. Balanced'
  <2> SUFFICES ASSUME NEW w \in VP
               PROVE  refs'[w] = Count(gc', w) + Count(us', w) + One(pool', w)
    BY Zenon DEF Balanced
  <2>1. refs[w] = Count(gc, w) + Count(us, w) + One(pool, w)
    BY Zenon DEF RefsInv, Balanced
  <2>2. refs'[w] = refs[w] + One(v, w)
    BY <1>1, <1>2 DEF One, RefsInv, RefTypes
  <2>3. One(NULL, w) = 0 /\ Count(gc, w) \in Nat /\ Count(us, w) \in Nat
    BY NullIsNoProcess, CountNat, Zenon DEF One
  <2> QED BY <1>2, <1>6, <2>1, <2>2, <2>3 DEF One
<1> QED BY <1>4, <1>5, <1>7, RefsStep, Zenon DEF RefsInv

\* A connection is bound to the process the request came through.
LEMMA BindCounted ==
  ASSUME RefsInv, NEW r \in Rq, TryConnectWorks(r) \/ ConnectWorks(r)
  PROVE  RefsInv'
<1> DEFINE v == gc[r]
<1>1. v \in VP /\ us[r] = NULL /\ us' = [us EXCEPT ![r] = v]
  BY Zenon DEF TryConnectWorks, ConnectWorks, RefsInv, PlaceHolds, Starting
<1>2. refs' = [refs EXCEPT ![v] = @ + 1] /\ UNCHANGED <<pool, live, st, gc>>
  BY Zenon DEF TryConnectWorks, ConnectWorks
<1>3. refs[v] > 0
  BY <1>1, HeldCounted, Zenon DEF RefsInv
<1>4. RefTypes' /\ LiveCounted'
  BY <1>1, <1>2, <1>3 DEF RefsInv, RefTypes, LiveCounted
<1>5. pc[r] \in {"connecting", "connect"} /\ \E p \in {"notice", "release"} : pc' = [pc EXCEPT ![r] = p]
  BY Zenon DEF TryConnectWorks, ConnectWorks, Goto
<1>6. PlaceHolds'
  BY <1>1, <1>2, <1>5, ZenonT(30) DEF PlaceHolds, RefsInv, RefTypes, StartInv, StartTypes, Starting
<1>7. \A w : Count(us', w) = Count(us, w) + One(v, w) - One(NULL, w)
  BY <1>1, CountMoves, Zenon DEF RefsInv, RefTypes
<1>8. Balanced'
  <2> SUFFICES ASSUME NEW w \in VP
               PROVE  refs'[w] = Count(gc', w) + Count(us', w) + One(pool', w)
    BY Zenon DEF Balanced
  <2>1. refs[w] = Count(gc, w) + Count(us, w) + One(pool, w)
    BY Zenon DEF RefsInv, Balanced
  <2>2. refs'[w] = refs[w] + One(v, w)
    BY <1>1, <1>2 DEF One, RefsInv, RefTypes
  <2>3. One(NULL, w) = 0 /\ Count(gc, w) \in Nat /\ Count(us, w) \in Nat
    BY NullIsNoProcess, CountNat, Zenon DEF One
  <2> QED BY <1>2, <1>7, <2>1, <2>2, <2>3 DEF One
<1> QED BY <1>4, <1>6, <1>8, OtherRequestStep, Zenon DEF RefsInv

\* A new object, in the map and with the request, at an address nothing points to;
\* the closed one it replaces, if any, loses the map's reference.
LEMMA CreateCounted ==
  ASSUME RefsInv, NEW r \in Rq, RefsCreate(r) \/ RefsRecreate(r)
  PROVE  RefsInv'
<1>1. PICK v \in VP :
        /\ NewProcess(r, v)
        /\ \/ /\ pool = NULL /\ refs' = [refs EXCEPT ![v] = 2]
              /\ st' = [st EXCEPT ![v] = NULL] /\ live' = live \cup {v}
           \/ /\ pool # NULL /\ refs' = [refs EXCEPT ![pool] = @ - 1, ![v] = 2]
              /\ st' = [st EXCEPT ![pool] = DestroyIfLast(pool, @), ![v] = NULL]
              /\ live' = (IF refs[pool] = 1 THEN live \ {pool} ELSE live) \cup {v}
  BY Zenon DEF RefsCreate, RefsRecreate
<1>2. pc[r] = "start" /\ pc' = [pc EXCEPT ![r] = "get"] /\ us' = us
  BY Zenon DEF RefsCreate, RefsRecreate
<1>3. v \notin live /\ pool' = v /\ gc' = [gc EXCEPT ![r] = v] /\ gc[r] = NULL
  BY <1>1, <1>2, Zenon DEF NewProcess, RefsInv, PlaceHolds
<1>4. refs[v] = 0 /\ pool # v
  BY <1>3, HeldCounted DEF RefsInv, LiveCounted
<1>5. pool # NULL => pool \in VP /\ refs[pool] > 0
  BY HeldCounted, Zenon DEF RefsInv, StartInv, StartTypes
<1>6. \A w \in VP : refs'[w] = IF w = v THEN 2 ELSE refs[w] - One(pool, w)
  BY <1>1, <1>4, <1>5, NullIsNoProcess DEF RefsInv, RefTypes, One
<1>7. RefTypes'
  <2>1. live' \subseteq VP /\ us' \in [Rq -> VP \cup {NULL}]
    BY <1>1, <1>2, Zenon DEF RefsInv, RefTypes
  <2>2. refs' \in [VP -> Int]
    BY <1>1, <1>5 DEF RefsInv, RefTypes
  <2>3. st' \in [VP -> {NULL, "up", "down"}]
    BY <1>1, <1>5, Zenon DEF RefsInv, RefTypes, DestroyIfLast
  <2> QED BY <2>1, <2>2, <2>3, Zenon DEF RefTypes
<1>8. LiveCounted'
  <2> SUFFICES ASSUME NEW w \in VP
               PROVE  (w \in live' <=> refs'[w] > 0) /\ (st'[w] # NULL => refs'[w] > 0)
    BY Zenon DEF LiveCounted
  <2>1. CASE w = v
    BY <1>1, <1>6, <2>1
  <2>2. CASE w # v /\ w = pool
    <3>1. refs[w] > 0 /\ refs'[w] = refs[w] - 1 /\ pool # NULL /\ refs[w] \in Int
      BY <1>5, <1>6, <2>2, NullIsNoProcess, Zenon DEF One, RefsInv, RefTypes
    <3>2. w \in live' <=> refs[w] # 1
      BY <1>1, <2>2, <3>1, Zenon DEF RefsInv, LiveCounted
    <3>3. st'[w] # NULL => refs[w] # 1
      BY <1>1, <2>2, <3>1, Zenon DEF RefsInv, RefTypes, DestroyIfLast
    <3> QED BY <3>1, <3>2, <3>3
  <2>3. CASE w # v /\ w # pool
    <3>1. refs'[w] = refs[w] /\ st'[w] = st[w] /\ (w \in live' <=> w \in live)
      BY <1>1, <1>6, <2>3, Zenon DEF One, RefsInv, RefTypes
    <3> QED BY <3>1, Zenon DEF RefsInv, LiveCounted
  <2> QED BY <2>1, <2>2, <2>3, Zenon
<1>9. PlaceHolds'
  BY <1>2, <1>3, NullIsNoProcess, Zenon DEF PlaceHolds, RefsInv, StartInv, StartTypes, Starting
<1>10. \A w : Count(gc', w) = Count(gc, w) + One(v, w) - One(NULL, w)
  BY <1>3, CountMoves, Zenon DEF RefsInv, StartInv, StartTypes
<1>11. Balanced'
  <2> SUFFICES ASSUME NEW w \in VP
               PROVE  refs'[w] = Count(gc', w) + Count(us', w) + One(pool', w)
    BY Zenon DEF Balanced
  <2>1. refs[w] = Count(gc, w) + Count(us, w) + One(pool, w)
    BY Zenon DEF RefsInv, Balanced
  <2>2. One(NULL, w) = 0 /\ Count(gc, w) \in Nat /\ Count(us, w) \in Nat
    BY NullIsNoProcess, CountNat, Zenon DEF One
  <2>3. Count(gc', w) = Count(gc, w) + One(v, w)
    BY <1>10, <2>2 DEF One
  <2>6. us' = us /\ pool' = v
    BY <1>2, <1>3, Zenon
  <2>4. CASE w = v
    <3>1. Count(gc, w) = 0 /\ Count(us, w) = 0 /\ refs'[w] = 2
      BY <1>4, <1>6, <2>1, <2>2, <2>4, SMTT(30) DEF One
    <3> QED BY <2>3, <2>4, <2>6, <3>1 DEF One
  <2>5. CASE w # v
    <3>1. refs'[w] = refs[w] - One(pool, w) /\ One(v, w) = 0
      BY <1>6, <2>5, Zenon DEF One
    <3>2. refs'[w] = Count(gc, w) + Count(us, w)
      BY <2>1, <2>2, <3>1 DEF One
    <3> QED BY <2>2, <2>3, <2>5, <2>6, <3>1, <3>2, SMTT(30) DEF One
  <2> QED BY <2>4, <2>5, Zenon
<1> QED BY <1>7, <1>8, <1>9, <1>11, RefsStep, Zenon DEF RefsInv

\* The steps of a request that move no reference.
LEMMA QuietCounted ==
  ASSUME RefsInv, NEW r \in Rq,
         \/ GetUpstream(r) \/ GetOn(r) \/ GetStarts(r) \/ GetWaits(r) \/ PowerFails(r)
         \/ PowerWorks(r) \/ PowerResult(r) \/ TryConnectFails(r) \/ ConnectFails(r)
         \/ HealthCheck(r) \/ HealthClose(r) \/ UseFails(r)
  PROVE  RefsInv'
<1>1. UNCHANGED <<pool, live, refs, gc, us>>
  BY Zenon DEF GetUpstream, GetOn, GetStarts, GetWaits, PowerFails, PowerWorks, PowerResult,
     TryConnectFails, ConnectFails, HealthCheck, HealthClose, UseFails
<1>2. StartInv'
  BY GetStartsStep, GetWaitsStep, OtherRequestStep, Zenon DEF RefsInv
<1>3. st' = st \/ (pc[r] = "result" /\ st' = [st EXCEPT ![gc[r]] = "up"])
  BY Zenon DEF GetUpstream, GetOn, GetStarts, GetWaits, PowerFails, PowerWorks, PowerResult,
     TryConnectFails, ConnectFails, HealthCheck, HealthClose, UseFails
<1>4. pc[r] = "result" => gc[r] \in VP /\ refs[gc[r]] > 0
  BY HeldCounted, Zenon DEF RefsInv, PlaceHolds, Starting
<1>5. RefTypes'
  BY <1>1, <1>3, <1>4, Zenon DEF RefsInv, RefTypes
<1>6. \A v \in VP : st'[v] # NULL => st[v] # NULL \/ refs[v] > 0
  BY <1>3, <1>4, Zenon DEF RefsInv, RefTypes
<1>7. PICK p : /\ pc' = [pc EXCEPT ![r] = p]
               /\ \/ pc[r] = "get" /\ p \in {"connect", "lock"}
                  \/ pc[r] = "lock" /\ p \in {"connect", "power", "wait"}
                  \/ pc[r] = "power" /\ p \in {"notice", "result"}
                  \/ pc[r] = "result" /\ p \in {"connecting", "notice"}
                  \/ pc[r] = "connecting" /\ p = "notice"
                  \/ pc[r] = "connect" /\ p \in {"check", "release"}
                  \/ pc[r] = "check" /\ p = "close"
                  \/ pc[r] \in {"check", "close"} /\ p = IF gc[r] # NULL THEN "release" ELSE "finish"
                  \/ pc[r] = "using" /\ p = "check"
  BY Zenon DEF GetUpstream, GetOn, GetStarts, GetWaits, PowerFails, PowerWorks, PowerResult,
     TryConnectFails, ConnectFails, HealthCheck, HealthClose, UseFails, Goto, AfterHealth
<1>8. PlaceHolds'
  BY <1>1, <1>7, NullIsNoProcess DEF PlaceHolds, RefsInv, RefTypes, StartInv, StartTypes, Starting
<1> QED BY <1>1, <1>2, <1>5, <1>6, <1>8, NoRefsKept, Zenon

\* The waiters that are woken hold what they held.
LEMMA NoticeCounted ==
  ASSUME RefsInv, NEW r \in Rq, NoticePowerResult(r)
  PROVE  RefsInv'
<1>1. /\ UNCHANGED <<pool, live, refs, gc, us, st>> /\ pc[r] = "notice"
      /\ \E p \in {"connect", "release"} :
           pc' = [q \in Rq |-> IF q = r THEN "release"
                               ELSE IF q \in queue[gc[r]] THEN p ELSE pc[q]]
  BY Zenon DEF NoticePowerResult, Woken
<1>2. gc[r] \in VP
  BY <1>1, Zenon DEF RefsInv, PlaceHolds, Starting
<1>3. \A q \in queue[gc[r]] : pc[q] = "wait"
  BY <1>2, Zenon DEF RefsInv, StartInv, QueuedWait
<1>4. PlaceHolds'
  BY <1>1, <1>2, <1>3 DEF PlaceHolds, RefsInv, RefTypes, StartInv, StartTypes, Starting
<1>5. RefTypes'
  BY <1>1, Zenon DEF RefsInv, RefTypes
<1> QED BY <1>1, <1>4, <1>5, NoticeStep, NoRefsKept, Zenon DEF RefsInv

\* The exit of a child, or nothing.
LEMMA ExitCounted ==
  ASSUME RefsInv, (\E v \in VP : ChildExit(v)) \/ UNCHANGED vars
  PROVE  RefsInv'
<1>1. /\ UNCHANGED <<pool, live, refs, status, queue, gc, us, pc>>
      /\ \/ st' = st
         \/ \E v \in VP : st[v] = "up" /\ st' = [st EXCEPT ![v] = "down"]
  BY Zenon DEF ChildExit, vars
<1>2. StartTypes' /\ Calm
  BY <1>1, Zenon DEF RefsInv, StartInv, StartTypes, Calm
<1>3. StartInv'
  BY <1>2, CalmKept, Zenon DEF RefsInv
<1>4. RefTypes' /\ PlaceHolds'
  BY <1>1, ZenonT(30) DEF RefsInv, RefTypes, PlaceHolds
<1>5. \A v \in VP : st'[v] # NULL => st[v] # NULL \/ refs[v] > 0
  BY <1>1, NullIsNoProcess, Zenon DEF RefsInv, RefTypes
<1> QED BY <1>1, <1>3, <1>4, <1>5, NoRefsKept, Zenon

LEMMA RefsInvNext == RefsInv /\ [Next]_vars => RefsInv'
<1> SUFFICES ASSUME RefsInv, [Next]_vars PROVE RefsInv'
  OBVIOUS
<1>1. ASSUME NEW r \in Rq, Step(r) PROVE RefsInv'
  BY <1>1, JoinCounted, CreateCounted, BindCounted, QuietCounted, NoticeCounted, EndCounted,
     FinishCounted, Zenon DEF Step
<1>2. CASE KillProcess \/ Refresh
  BY <1>2, UnpoolCounted, Zenon
<1>3. CASE (\E v \in VP : ChildExit(v)) \/ UNCHANGED vars
  BY <1>3, ExitCounted, Zenon
<1> QED BY <1>1, <1>2, <1>3, Zenon DEF Next

\* The counter of every process object is exactly the map's reference plus those of
\* the requests inside GetUpstream and of the connections in use, a released object
\* is dead, and a dead one has neither waiters nor a child, for any number of
\* requests and of objects (KProcessManage.h refsVirtualHostProcess, KProcessManage.cpp).
THEOREM CountersAlwaysExact == Spec => []RefsExact
BY RefsInvInit, RefsInvNext, RefsInvExact, PTL DEF Spec

-----------------------------------------------------------------------------
(* The process in the map that is said to run has a child *)

\* A start that will be reported as a success: its connection is being tried, or
\* has been made.
Succeeding(r) == pc[r] = "connecting" \/ (pc[r] = "notice" /\ us[r] # NULL)

ChildInv ==
  pool # NULL => /\ status[pool] = "Poweron" => st[pool] # NULL
                 /\ \A q \in Rq : gc[q] = pool /\ Succeeding(q) => st[pool] # NULL

\* A step that keeps the map, the child in it, and adds neither a running status
\* nor a succeeding start without one.
LEMMA ChildKept ==
  ASSUME ChildInv, pool' = pool,
         pool # NULL =>
           /\ st[pool] # NULL => st'[pool] # NULL
           /\ status'[pool] = "Poweron" => status[pool] = "Poweron" \/ st'[pool] # NULL
           /\ \A q \in Rq : gc'[q] = pool /\ Succeeding(q)'
                              => (gc[q] = pool /\ Succeeding(q)) \/ st'[pool] # NULL
  PROVE  ChildInv'
BY Zenon DEF ChildInv

\* A request joins the process in the map, or puts a new one there which nobody
\* else holds.
LEMMA RefsChild ==
  ASSUME RefsInv, ChildInv, NEW r \in Rq, RefsPooled(r) \/ RefsCreate(r) \/ RefsRecreate(r)
  PROVE  ChildInv'
<1>1. CASE RefsPooled(r)
  <2>1. UNCHANGED <<pool, st, status, us>> /\ pc' = [pc EXCEPT ![r] = "get"]
        /\ \E v : gc' = [gc EXCEPT ![r] = v]
    BY <1>1, Zenon DEF RefsPooled
  <2>2. \A q \in Rq : Succeeding(q)' => q # r /\ Succeeding(q) /\ gc'[q] = gc[q]
    BY <2>1, Zenon DEF Succeeding, RefsInv, StartInv, StartTypes
  <2> QED BY <2>1, <2>2, ChildKept, Zenon
<1>2. CASE RefsCreate(r) \/ RefsRecreate(r)
  <2>1. PICK v \in VP : NewProcess(r, v)
    BY <1>2, Zenon DEF RefsCreate, RefsRecreate
  <2>2. pc' = [pc EXCEPT ![r] = "get"] /\ us' = us
    BY <1>2, Zenon DEF RefsCreate, RefsRecreate
  <2>3. pool' = v /\ status'[v] = "Poweroff" /\ gc' = [gc EXCEPT ![r] = v]
    BY <2>1, Zenon DEF NewProcess, RefsInv, StartInv, StartTypes
  <2>4. \A q \in Rq : gc[q] # v
    BY <2>1, HeldCounted, Zenon DEF NewProcess, RefsInv, LiveCounted
  <2>5. \A q \in Rq : gc'[q] = v => ~Succeeding(q)'
    BY <2>2, <2>3, <2>4, Zenon DEF Succeeding, RefsInv, StartInv, StartTypes
  <2> QED BY <2>3, <2>5, Zenon DEF ChildInv
<1> QED BY <1>1, <1>2, Zenon

\* The steps inside GetUpstream and health.
LEMMA QuietChild ==
  ASSUME RefsInv, ChildInv, NEW r \in Rq,
         \/ GetUpstream(r) \/ GetOn(r) \/ GetStarts(r) \/ GetWaits(r) \/ PowerFails(r)
         \/ PowerWorks(r) \/ PowerResult(r) \/ TryConnectFails(r) \/ ConnectFails(r)
         \/ HealthCheck(r) \/ HealthClose(r) \/ UseFails(r)
  PROVE  ChildInv'
<1>1. UNCHANGED <<pool, gc, us>>
  BY Zenon DEF GetUpstream, GetOn, GetStarts, GetWaits, PowerFails, PowerWorks, PowerResult,
     TryConnectFails, ConnectFails, HealthCheck, HealthClose, UseFails
<1>2. st' = st \/ (pc[r] = "result" /\ st' = [st EXCEPT ![gc[r]] = "up"])
  BY Zenon DEF GetUpstream, GetOn, GetStarts, GetWaits, PowerFails, PowerWorks, PowerResult,
     TryConnectFails, ConnectFails, HealthCheck, HealthClose, UseFails
<1>3. \/ status' = status
      \/ \E v : status' = [status EXCEPT ![v] = "Inprogress"]
      \/ \E v : status' = [status EXCEPT ![v] = IF @ = "Inprogress" THEN @ ELSE "Close"]
  BY Zenon DEF GetUpstream, GetOn, GetStarts, GetWaits, PowerFails, PowerWorks, PowerResult,
     TryConnectFails, ConnectFails, HealthCheck, HealthClose, UseFails
<1>4. \A v \in VP : /\ st[v] # NULL => st'[v] # NULL
                    /\ status'[v] = "Poweron" => status[v] = "Poweron"
  BY <1>2, <1>3, NullIsNoProcess, ZenonT(30) DEF RefsInv, RefTypes, StartInv, StartTypes
<1>5. PICK p : /\ pc' = [pc EXCEPT ![r] = p]
               /\ p = "connecting" => pc[r] = "result" /\ st' = [st EXCEPT ![gc[r]] = "up"]
               /\ p = "notice" => pc[r] \in {"power", "result", "connecting"}
  BY ZenonT(30) DEF GetUpstream, GetOn, GetStarts, GetWaits, PowerFails, PowerWorks, PowerResult,
     TryConnectFails, ConnectFails, HealthCheck, HealthClose, UseFails, Goto, AfterHealth
<1>6. ASSUME NEW q \in Rq, gc'[q] = pool, Succeeding(q)', pool \in VP
      PROVE  (gc[q] = pool /\ Succeeding(q)) \/ st'[pool] # NULL
  <2>1. CASE q # r
    BY <1>1, <1>5, <1>6, <2>1 DEF Succeeding
  <2>2. CASE q = r /\ p = "connecting"
    <3>1. st'[pool] = "up"
      BY <1>1, <1>5, <1>6, <2>2, Zenon DEF RefsInv, RefTypes
    <3> QED BY <3>1, NullIsNoProcess, Zenon
  <2>3. CASE q = r /\ p # "connecting"
    <3>1. pc'[r] = p
      BY <1>5, Zenon DEF RefsInv, StartInv, StartTypes
    <3>2. p = "notice" /\ us[r] # NULL
      BY <1>1, <1>6, <2>3, <3>1, Zenon DEF Succeeding
    <3> QED BY <1>5, <3>2, Zenon DEF RefsInv, PlaceHolds
  <2> QED BY <2>1, <2>2, <2>3, Zenon
<1>7. pool # NULL => pool \in VP
  BY Zenon DEF RefsInv, StartInv, StartTypes
<1> QED BY <1>1, <1>4, <1>6, <1>7, ChildKept, Zenon

\* The connection of the start, of a waiter, and the report of the start.
LEMMA ConnectedChild ==
  ASSUME RefsInv, ChildInv, NEW r \in Rq,
         TryConnectWorks(r) \/ ConnectWorks(r) \/ NoticePowerResult(r)
  PROVE  ChildInv'
<1>1. UNCHANGED <<pool, gc, st>>
  BY Zenon DEF TryConnectWorks, ConnectWorks, NoticePowerResult
<1>2. pool # NULL /\ gc[r] = pool /\ Succeeding(r) => st[pool] # NULL
  BY Zenon DEF ChildInv
<1>3. \A v \in VP : status'[v] = "Poweron"
                      => status[v] = "Poweron" \/ (gc[r] = v /\ Succeeding(r))
  BY Zenon DEF TryConnectWorks, ConnectWorks, NoticePowerResult, Succeeding, RefsInv, StartInv,
     StartTypes
<1>4. \A q \in Rq : Succeeding(q)' => Succeeding(q)
  BY DEF TryConnectWorks, ConnectWorks, NoticePowerResult, Succeeding, RefsInv, RefTypes,
     StartInv, StartTypes, Goto, Woken
<1>5. pool # NULL => pool \in VP
  BY Zenon DEF RefsInv, StartInv, StartTypes
<1> QED BY <1>1, <1>2, <1>3, <1>4, <1>5, ChildKept, Zenon

\* A request that lets go of the process in the map is not the last to hold it.
LEMMA ReleaseChild ==
  ASSUME RefsInv, ChildInv, NEW r \in Rq, EndGetUpstream(r) \/ Finish(r)
  PROVE  ChildInv'
<1>1. /\ UNCHANGED <<pool, status>>
      /\ \E v : /\ gc[r] = v \/ us[r] = v
                /\ st' = [st EXCEPT ![v] = DestroyIfLast(v, @)]
      /\ \E p \in {"done", "using"} : pc' = [pc EXCEPT ![r] = p]
      /\ gc' = gc \/ gc' = [gc EXCEPT ![r] = NULL]
      /\ us' = us \/ us' = [us EXCEPT ![r] = NULL]
  BY Zenon DEF EndGetUpstream, Finish, Goto
<1>2. pool # NULL => pool \in VP
  BY Zenon DEF RefsInv, StartInv, StartTypes
<1>3. pool # NULL => st'[pool] = st[pool]
  BY <1>1, <1>2, HeldCounted DEF RefsInv, RefTypes, DestroyIfLast
<1>4. \A q \in Rq : Succeeding(q)' => Succeeding(q) /\ gc'[q] = gc[q]
  BY <1>1, ZenonT(30) DEF Succeeding, RefsInv, RefTypes, StartInv, StartTypes
<1> QED BY <1>1, <1>3, <1>4, ChildKept, Zenon

\* The administrator and the timer take the process out of the map; a child that
\* exits is still there.
LEMMA OutsideChild ==
  ASSUME RefsInv, ChildInv,
         KillProcess \/ Refresh \/ (\E v \in VP : ChildExit(v)) \/ UNCHANGED vars
  PROVE  ChildInv'
<1>1. CASE KillProcess \/ Refresh
  BY <1>1, Zenon DEF KillProcess, Refresh, ChildInv
<1>2. CASE (\E v \in VP : ChildExit(v)) \/ UNCHANGED vars
  <2>1. /\ UNCHANGED <<pool, status, gc, us, pc>>
        /\ st' = st \/ \E v \in VP : st' = [st EXCEPT ![v] = "down"]
    BY <1>2, Zenon DEF ChildExit, vars
  <2>2. \A v \in VP : st[v] # NULL => st'[v] # NULL
    BY <2>1, NullIsNoProcess, Zenon DEF RefsInv, RefTypes
  <2>3. pool # NULL => pool \in VP
    BY Zenon DEF RefsInv, StartInv, StartTypes
  <2> QED BY <2>1, <2>2, <2>3, ChildKept, Zenon DEF Succeeding
<1> QED BY <1>1, <1>2, Zenon

\* A process the map offers as running has a child: killProcess and
\* NoticePowerResult write status under different locks, and a kill that overtakes
\* a start leaves a running object without a child only outside the map
\* (KVirtualHostProcess.cpp, KProcessManage.cpp killProcess2).
THEOREM PooledOnAlwaysHasChild == Spec => []PooledOnHasChild
<1>1. Init => RefsInv /\ ChildInv
  BY RefsInvInit, Zenon DEF Init, ChildInv
<1>2. RefsInv /\ ChildInv /\ [Next]_vars => (RefsInv /\ ChildInv)'
  <2> SUFFICES ASSUME RefsInv, ChildInv, [Next]_vars PROVE ChildInv'
    BY RefsInvNext, Zenon
  <2>1. ASSUME NEW r \in Rq, Step(r) PROVE ChildInv'
    BY <2>1, RefsChild, QuietChild, ConnectedChild, ReleaseChild, Zenon DEF Step
  <2>2. CASE KillProcess \/ Refresh \/ (\E v \in VP : ChildExit(v)) \/ UNCHANGED vars
    BY <2>2, OutsideChild, Zenon
  <2> QED BY <2>1, <2>2, Zenon DEF Next
<1>3. ChildInv => PooledOnHasChild
  BY Zenon DEF ChildInv, PooledOnHasChild
<1> QED BY <1>1, <1>2, <1>3, PTL DEF Spec

USE BodyAssumption

-----------------------------------------------------------------------------
(* The relayed body *)

Sq == Seq(Nat)

\* The first n pieces of the body.
In(n) == [i \in 1..n |-> i]

BodyTypes ==
  /\ plan \in Answers
  /\ up \in [sent : 0..Pieces, ended : BOOLEAN, bye : BOOLEAN]
  /\ held \in [chunk : Sq, filter : Sq, zip : Sq, stopped : BOOLEAN]
  /\ store \in [in : {"no", "memory", "disk"}, got : Sq, ready : BOOLEAN]
  /\ tmp \in [data : Sq, read : Nat, take : Nat, end : BOOLEAN, closed : BOOLEAN]
  /\ tmp.read <= Len(tmp.data) /\ tmp.take <= tmp.read
  /\ client \in [got : Sq, over : {"no", "shut", "finished"}]
  /\ at \in {"read", "close", "finish", "join", "end", "over"}
  /\ res \in Results /\ sent \in {"ok", "failed"}
  /\ sender \in {"none", "read", "parked", "send", "done"}

\* A stage that is not there keeps nothing back, and how the loop can have ended.
Kept ==
  /\ Compressor(plan) = "no" => held.zip = <<>>
  /\ plan.filter = "none" => held.filter = <<>> /\ ~held.stopped
  /\ plan.framing # "chunked" \/ up.ended => held.chunk = <<>>
  /\ at = "read" => res = "ok" /\ ~up.ended
  /\ res = "end" => plan.framing = "chunked"

\* When the sender can sleep and when it can have ended.
Awake ==
  /\ ~plan.fcgi => sender = "none" /\ at \notin {"finish", "join"}
  /\ at \in {"end", "over"} => sender = "none"
  /\ plan.fcgi /\ at \in {"join", "end", "over"} => tmp.end
  /\ tmp.end => tmp.closed \/ at \in {"join", "end", "over"}
  /\ sender = "done" /\ sent = "ok" => tmp.end /\ ~tmp.closed /\ tmp.read = Len(tmp.data)
  /\ SenderAwake

\* What has gone through the stages, to the temporary file or the sink, and what the
\* compressor has on top of that.
Written(t, c) == IF plan.fcgi THEN t.data ELSE c.got
Out(t, c, h) == Written(t, c) \o h.zip

\* What has left the filter and what it and the chunk decoder keep is the body, or it ends
\* with the replacement.
Carried(t, c, h, n) ==
  IF h.stopped THEN EndsWith(Out(t, c, h), Replacement) /\ h.filter = <<>>
  ELSE (Out(t, c, h) \o h.filter) \o h.chunk = In(n)

Flow ==
  /\ at \in {"read", "close"} /\ res # "failed" => Carried(tmp, client, held, up.sent)
  /\ at \in {"finish", "join", "end"} /\ res # "failed" =>
       Image(Written(tmp, client)) /\ (plan.framing = "chunked" => up.ended)
  /\ at # "over" /\ res # "failed" /\ store.in # "no" => store.got = Written(tmp, client)

\* The sender has sent a beginning of the temporary file, as far as it has read.
SentPart(t, g, s, r) ==
  /\ Len(g) <= Len(t.data) /\ g = SubSeq(t.data, 1, Len(g))
  /\ s \in {"read", "parked"} \/ (s = "done" /\ r = "ok") => Len(g) = t.read
  /\ s = "send" => Len(g) = t.read - t.take

NotStarted(t) == t.data = <<>> /\ t.read = 0

Relayed ==
  plan.fcgi /\ at # "over" /\ res # "failed" =>
    /\ SentPart(tmp, client.got, sender, sent)
    /\ sender = "none" => at = "end" \/ NotStarted(tmp)
    /\ at = "end" /\ res = "ok" => client.got = tmp.data

BodyInv == BodyTypes /\ Kept /\ Awake /\ Flow /\ Relayed /\ BodyWhole

-----------------------------------------------------------------------------
(* Sequences *)

LEMMA Halves ==
  ASSUME NEW d \in Seq(Nat), NEW r \in Nat, NEW k \in Nat, k <= r, r <= Len(d)
  PROVE  SubSeq(d, 1, r - k) \o SubSeq(d, r - k + 1, r) = SubSeq(d, 1, r)
OBVIOUS

LEMMA Longer ==
  ASSUME NEW d \in Seq(Nat), NEW e \in Seq(Nat), NEW k \in Nat, k <= Len(d)
  PROVE  SubSeq(d \o e, 1, k) = SubSeq(d, 1, k) /\ Len(d \o e) = Len(d) + Len(e)
OBVIOUS

LEMMA TakeDrop ==
  ASSUME NEW s \in Sq, NEW n \in 0..Len(s)
  PROVE  /\ Take(n, s) \in Sq /\ Drop(n, s) \in Sq /\ Len(Take(n, s)) = n
         /\ Take(n, s) \o Drop(n, s) = s
<1>1. Take(n, s) \in Sq /\ Drop(n, s) \in Sq /\ Len(Take(n, s)) = n
  BY DEF Take, Drop, Sq
<1>3. Len(s) - n \in Nat /\ Len(s) - n <= Len(s) /\ Len(s) - (Len(s) - n) = n
  BY DEF Sq
<1>4. SubSeq(s, 1, n) \o SubSeq(s, n + 1, Len(s)) = SubSeq(s, 1, Len(s))
  <2>1. s \in Seq(Nat) /\ Len(s) \in Nat /\ Len(s) <= Len(s)
    BY DEF Sq
  <2>2. PICK k \in Nat : k = Len(s) - n /\ k <= Len(s) /\ Len(s) - k = n
    BY <1>3, Zenon
  <2>3. SubSeq(s, 1, Len(s) - k) \o SubSeq(s, Len(s) - k + 1, Len(s)) = SubSeq(s, 1, Len(s))
    BY <2>1, <2>2, Halves, Zenon
  <2> QED BY <2>2, <2>3, Zenon
<1>5. SubSeq(s, 1, Len(s)) = s
  BY DEF Sq
<1> QED BY <1>1, <1>4, <1>5, Zenon DEF Take, Drop

LEMMA Assoc ==
  ASSUME NEW s \in Sq, NEW t \in Sq, NEW u \in Sq
  PROVE  (s \o t) \o u = s \o (t \o u)
BY SMTT(60) DEF Sq

LEMMA Joined ==
  ASSUME NEW s \in Sq, NEW t \in Sq
  PROVE  s \o t \in Sq /\ Len(s \o t) = Len(s) + Len(t) /\ Len(s) \in Nat /\ Len(t) \in Nat
BY DEF Sq

\* Nested concatenations are regrouped under a name the provers do not open.
Cat(s, t) == s \o t

LEMMA CatAssoc ==
  ASSUME NEW s \in Sq, NEW t \in Sq, NEW u \in Sq
  PROVE  Cat(Cat(s, t), u) = Cat(s, Cat(t, u))
BY Assoc, Zenon DEF Cat

LEMMA Regroup ==
  ASSUME NEW a \in Sq, NEW b \in Sq, NEW c \in Sq, NEW d \in Sq, NEW e \in Sq,
         Cat(b, c) = Cat(d, e)
  PROVE  Cat(Cat(a, b), c) = Cat(Cat(a, d), e)
<1>1. Cat(Cat(a, b), c) = Cat(a, Cat(b, c))
  BY CatAssoc, ZenonT(30)
<1>2. Cat(Cat(a, d), e) = Cat(a, Cat(d, e))
  BY CatAssoc, ZenonT(30)
<1> QED BY <1>1, <1>2, Zenon

LEMMA Units == ASSUME NEW s \in Sq PROVE s \o <<>> = s /\ <<>> \o s = s /\ <<>> \in Sq
BY DEF Sq

LEMMA Appended ==
  ASSUME NEW s \in Sq, NEW t \in Sq, NEW e \in Nat
  PROVE  /\ s \o Append(t, e) = Append(s \o t, e) /\ Append(s, e) \in Sq
         /\ EndsWith(Append(s, e), e) /\ Take(Len(Append(s, e)) - 1, Append(s, e)) = s
         /\ Append(s, e) = s \o <<e>> /\ <<e>> \in Sq
<1>1. s \o Append(t, e) = Append(s \o t, e) /\ Append(s, e) \in Sq /\ <<e>> \in Sq
  BY SMTT(30) DEF Sq
<1>2. Append(s, e) = s \o <<e>>
  BY DEF Sq
<1>3. EndsWith(Append(s, e), e)
  <2>1. Len(s) \in Nat /\ Len(Append(s, e)) = Len(s) + 1 /\ Append(s, e)[Len(s) + 1] = e
    BY DEF Sq
  <2>2. Append(s, e) # <<>>
    BY <2>1
  <2> QED BY <2>1, <2>2, Zenon DEF EndsWith
<1>4. Take(Len(Append(s, e)) - 1, Append(s, e)) = s
  BY DEF Sq, Take
<1> QED BY <1>1, <1>2, <1>3, <1>4, Zenon

LEMMA NextIn ==
  ASSUME NEW n \in Nat
  PROVE  Append(In(n), n + 1) = In(n + 1) /\ Len(In(n)) = n /\ In(n) \in Sq
BY DEF In, Sq

LEMMA CatAppend ==
  ASSUME NEW a \in Sq, NEW c \in Sq, NEW e \in Nat
  PROVE  Cat(a, Append(c, e)) = Append(Cat(a, c), e)
BY SMTT(30) DEF Cat, Sq

LEMMA OneMore ==
  ASSUME NEW a \in Sq, NEW c \in Sq, NEW n \in Nat, Cat(a, c) = In(n)
  PROVE  Cat(a, Append(c, n + 1)) = In(n + 1)
<1>1. n + 1 \in Nat
  OBVIOUS
<1>2. Cat(a, Append(c, n + 1)) = Append(Cat(a, c), n + 1)
  BY <1>1, CatAppend, Zenon
<1>3. Append(In(n), n + 1) = In(n + 1)
  BY NextIn, Zenon
<1> QED BY <1>2, <1>3, Zenon

-----------------------------------------------------------------------------
(* The stages *)

\* What a filter passes on and keeps is what it was given, or the replacement ends it.
LEMMA FilterStage ==
  ASSUME BodyTypes, Kept, NEW s \in Sq, NEW fin \in BOOLEAN, NEW f \in Filtered(s, fin)
  PROVE  /\ f.out \in Sq /\ f.kept \in Sq /\ f.stopped \in BOOLEAN /\ f.ok \in BOOLEAN
         /\ plan.filter = "none" => f.kept = <<>> /\ ~f.stopped
         /\ fin => f.kept = <<>>
         /\ f.ok /\ ~f.stopped => ~held.stopped /\ f.out \o f.kept = held.filter \o s
         /\ f.ok /\ f.stopped => /\ f.kept = <<>>
                                 /\ \/ held.stopped /\ f.out = <<>>
                                    \/ ~held.stopped /\ f.out = <<Replacement>>
<1> DEFINE all == held.filter \o s
<1>0. /\ held.filter \in Sq /\ held.stopped \in BOOLEAN /\ all \in Sq /\ <<>> \in Sq
      /\ s \o <<>> = s /\ <<>> \o s = s /\ all \o <<>> = all /\ <<>> \o <<>> = <<>>
      /\ <<Replacement>> \in Sq
  BY DEF BodyTypes, Sq, Replacement
<1>1. CASE plan.filter = "none"
  <2>1. f = [Nothing EXCEPT !.out = s]
    BY <1>1, Zenon DEF Filtered
  <2>2. f.out = s /\ f.kept = <<>> /\ f.stopped = held.stopped /\ f.ok = TRUE
    BY <2>1, Zenon DEF Nothing
  <2>3. held.filter = <<>> /\ ~held.stopped
    BY <1>1, Zenon DEF Kept
  <2> QED BY <1>0, <2>2, <2>3, Zenon
<1>2. CASE plan.filter # "none" /\ (held.stopped \/ all = <<>>)
  <2>1. f = Nothing
    BY <1>2, Zenon DEF Filtered
  <2>2. f.out = <<>> /\ f.kept = <<>> /\ f.stopped = held.stopped /\ f.ok = TRUE
    BY <2>1, Zenon DEF Nothing
  <2> QED BY <1>0, <1>2, <2>2, Zenon
<1>3. CASE plan.filter # "none" /\ ~(held.stopped \/ all = <<>>)
  <2>1. f \in Passing(all, fin) \/ f = Dropped \/ f = Stopping
    BY <1>3, Zenon DEF Filtered
  <2>2. CASE f = Dropped
    BY <1>0, <1>3, <2>2, Zenon DEF Dropped, Nothing
  <2>3. CASE f = Stopping
    BY <1>0, <1>3, <2>3, Zenon DEF Stopping, Nothing
  <2>4. CASE f \in Passing(all, fin)
    <3>1. PICK n \in 0..Len(all) :
            /\ f = [out |-> Take(n, all), kept |-> Drop(n, all), stopped |-> FALSE, ok |-> TRUE]
            /\ fin => n = Len(all)
      BY <1>0, <2>4, SMTT(30) DEF Passing, Sq
    <3>2. /\ f.out = Take(n, all) /\ f.kept = Drop(n, all) /\ f.stopped = FALSE /\ f.ok = TRUE
      BY <3>1, Zenon
    <3>3. f.out \in Sq /\ f.kept \in Sq /\ f.out \o f.kept = all
      BY <1>0, <3>2, TakeDrop, Zenon
    <3>4. fin => f.kept = <<>>
      BY <1>0, <3>1, <3>2, SMTT(30) DEF Drop, Sq
    <3> QED BY <1>3, <3>2, <3>3, <3>4, Zenon
  <2> QED BY <2>1, <2>2, <2>3, <2>4, Zenon
<1> QED BY <1>1, <1>2, <1>3, Zenon

\* The same of the compressor.
LEMMA ZipStage ==
  ASSUME BodyTypes, Kept, NEW s \in Sq, NEW how \in {"write", "flush", "finish"}, NEW z \in Compressed(s, how)
  PROVE  /\ z.out \in Sq /\ z.kept \in Sq
         /\ Compressor(plan) = "no" => z.kept = <<>> /\ z.out = s
         /\ how \in {"finish", "flush"} => z.kept = <<>>
         /\ how # "finish" \/ Compressor(plan) = "no" => z.out \o z.kept = held.zip \o s
         /\ how = "finish" /\ Compressor(plan) # "no" => z.out = Append(held.zip \o s, Trailer)
<1> DEFINE all == held.zip \o s
<1>0. /\ held.zip \in Sq /\ all \in Sq /\ <<>> \in Sq /\ s \o <<>> = s /\ <<>> \o s = s
      /\ all \o <<>> = all /\ Append(all, Trailer) \in Sq
  BY DEF BodyTypes, Sq, Trailer
<1>1. CASE Compressor(plan) = "no"
  <2>1. z = [out |-> s, kept |-> <<>>]
    BY <1>1, Zenon DEF Compressed
  <2>2. held.zip = <<>>
    BY <1>1, Zenon DEF Kept
  <2> QED BY <1>0, <1>1, <2>1, <2>2, Zenon
<1>2. CASE Compressor(plan) # "no" /\ how = "finish"
  <2>1. z = [out |-> Append(all, Trailer), kept |-> <<>>]
    BY <1>2, Zenon DEF Compressed
  <2> QED BY <1>0, <1>2, <2>1, Zenon
<1>3. CASE Compressor(plan) # "no" /\ how = "flush"
  <2>1. z = [out |-> all, kept |-> <<>>]
    BY <1>3, Zenon DEF Compressed
  <2> QED BY <1>0, <1>3, <2>1, Zenon
<1>4. CASE Compressor(plan) # "no" /\ how # "finish" /\ how # "flush"
  <2>1. PICK n \in 0..Len(all) : z = [out |-> Take(n, all), kept |-> Drop(n, all)]
    BY <1>4, Zenon DEF Compressed
  <2>2. z.out \in Sq /\ z.kept \in Sq /\ z.out \o z.kept = all
    BY <1>0, <2>1, TakeDrop, Zenon
  <2> QED BY <1>4, <2>2, Zenon
<1> QED BY <1>1, <1>2, <1>3, <1>4, Zenon

\* The cache stream takes everything or is given up.
LEMMA StoreStage ==
  ASSUME BodyTypes, NEW s \in Sq, NEW kept \in Collected(s)
  PROVE  /\ kept \in [in : {"no", "memory", "disk"}, got : Sq, ready : BOOLEAN]
         /\ kept.in # "no" => store.in # "no" /\ kept.got = store.got \o s
         /\ kept.ready = store.ready
<1>0. store.got \o s \in Sq /\ store.got \o <<>> = store.got /\ <<>> \in Sq
      /\ store \in [in : {"no", "memory", "disk"}, got : Sq, ready : BOOLEAN]
  BY DEF BodyTypes, Sq
<1>1. CASE store.in = "no" \/ s = <<>>
  <2>1. kept = store
    BY <1>1, Zenon DEF Collected
  <2> QED BY <1>0, <1>1, <2>1, Zenon
<1>2. CASE ~(store.in = "no" \/ s = <<>>)
  <2> DEFINE more == [store EXCEPT !.got = @ \o s]
             gone == [store EXCEPT !.in = "no", !.got = <<>>]
  <2>1. kept \in {more, gone, [more EXCEPT !.in = "disk"]}
    BY <1>2, Zenon DEF Collected
  <2>2. CASE kept = more
    BY <1>0, <1>2, <2>2, Zenon
  <2>3. CASE kept = gone
    BY <1>0, <1>2, <2>3, Zenon
  <2>4. CASE kept = [more EXCEPT !.in = "disk"]
    BY <1>0, <1>2, <2>4, Zenon
  <2> QED BY <2>1, <2>2, <2>3, <2>4, Zenon
<1> QED BY <1>1, <1>2, Zenon

-----------------------------------------------------------------------------
(* The stage below the cache *)

TmpType == [data : Sq, read : Nat, take : Nat, end : BOOLEAN, closed : BOOLEAN]
ClientType == [got : Sq, over : {"no", "shut", "finished"}]

\* What a write leaves alone: it neither ends the temporary file nor puts the sender to
\* sleep, and the sender only ends by itself.
Frame ==
  /\ tmp' \in TmpType /\ client' \in ClientType
  /\ tmp'.read <= Len(tmp'.data) /\ tmp'.take <= tmp'.read
  /\ sender' \in {"none", "read", "parked", "send", "done"} /\ sent' \in {"ok", "failed"}
  /\ ~plan.fcgi => sender' = "none"
  /\ tmp'.end = tmp.end /\ tmp'.closed = tmp.closed /\ tmp'.read = tmp.read
  /\ sender' = "done" => sender = "done" /\ sent' = sent
  /\ sender' = "parked" => sender = "parked" /\ tmp'.data = tmp.data

LEMMA StoredPart ==
  ASSUME BodyTypes, NEW s \in Sq, NEW n \in 0..Len(s)
  PROVE  /\ Stored(n, s) \in TmpType /\ Stored(n, s).data = tmp.data \o Take(n, s)
         /\ Stored(n, s).read = tmp.read /\ Stored(n, s).take = tmp.take
         /\ Stored(n, s).end = tmp.end /\ Stored(n, s).closed = tmp.closed
         /\ Len(Stored(n, s).data) = Len(tmp.data) + n
         /\ n = 0 => Stored(n, s).data = tmp.data
         /\ n = Len(s) => Stored(n, s).data = tmp.data \o s
<1>1. Take(n, s) \in Sq /\ Len(Take(n, s)) = n
  BY TakeDrop, Zenon
<1>0. tmp.data \in Sq
  BY Zenon DEF BodyTypes
<1>2. tmp.data \in Sq /\ tmp.data \o Take(n, s) \in Sq /\ Len(tmp.data \o Take(n, s)) = Len(tmp.data) + n
  BY <1>0, <1>1, Joined, ZenonT(30)
<1>3. n = 0 => tmp.data \o Take(n, s) = tmp.data
  BY <1>2 DEF Take, Sq
<1>4. n = Len(s) => Take(n, s) = s
  BY DEF Take, Sq
<1> QED BY <1>2, <1>3, <1>4, Zenon DEF Stored, BodyTypes, TmpType

LEMMA BelowFrame ==
  ASSUME BodyTypes, Awake, NEW s \in Sq, NEW ok \in BOOLEAN, Below(s, ok)
  PROVE  Frame
<1>0. /\ tmp \in TmpType /\ client \in ClientType /\ Len(tmp.data) \in Nat /\ Len(s) \in Nat
      /\ ~plan.fcgi => sender = "none"
  BY SMTT(30) DEF BodyTypes, TmpType, ClientType, Sq, Awake
<1>1. CASE s = <<>>
  <2>1. UNCHANGED <<tmp, client, sender, sent>>
    BY <1>1, Zenon DEF Below
  <2> QED BY <1>0, <2>1, Zenon DEF Frame, BodyTypes
<1>2. CASE s # <<>> /\ ~plan.fcgi
  <2>1. UNCHANGED <<tmp, sender, sent>>
    BY <1>2, Zenon DEF Below, SinkWrite
  <2>2. client' = client \/ client' = [client EXCEPT !.got = @ \o s]
    BY <1>2, Zenon DEF Below, SinkWrite
  <2>3. client' \in ClientType
    <3>1. client.got \in Sq /\ client.got \o s \in Sq
      BY <1>0, Joined, Zenon DEF ClientType
    <3> QED BY <1>0, <2>2, <3>1, Zenon DEF ClientType
  <2> QED BY <1>0, <2>1, <2>3, Zenon DEF Frame, BodyTypes
<1>3. CASE s # <<>> /\ plan.fcgi
  <2>1. PICK n \in 0..Len(s) :
          LET wake == IF n > 0 /\ sender = "parked" THEN "read" ELSE sender
          IN  /\ tmp' = Stored(n, s)
              /\ \/ sender' = wake /\ UNCHANGED sent
                 \/ n = Len(s) /\ sender = "none" /\ UNCHANGED sent /\ sender' \in {"none", "read"}
                 \/ sender' = "none" /\ sent' = "ok"
              /\ UNCHANGED client
    <3>1. TempWrite(s, ok)
      BY <1>3, Zenon DEF Below
    <3> QED BY <3>1, Zenon DEF TempWrite
  <2>2. /\ tmp' \in TmpType /\ tmp'.read = tmp.read /\ tmp'.take = tmp.take
        /\ tmp'.end = tmp.end /\ tmp'.closed = tmp.closed
        /\ Len(tmp'.data) = Len(tmp.data) + n /\ (n = 0 => tmp'.data = tmp.data)
    BY <2>1, StoredPart, Zenon
  <2>3. tmp'.read <= Len(tmp'.data) /\ tmp'.take <= tmp'.read
    BY <1>0, <2>2, SMTT(30) DEF BodyTypes, TmpType
  <2>4. /\ sender' \in {"none", "read", "parked", "send", "done"} /\ sent' \in {"ok", "failed"}
        /\ sender' = "done" => sender = "done" /\ sent' = sent
        /\ sender' = "parked" => sender = "parked" /\ n = 0
    BY <2>1 DEF BodyTypes
  <2> QED BY <1>0, <1>3, <2>1, <2>2, <2>3, <2>4, Zenon DEF Frame
<1> QED BY <1>1, <1>2, <1>3, Zenon

\* A write that succeeds adds what it was given to the file or the sink, and the sender
\* stays where it was in it.
LEMMA BelowFlow ==
  ASSUME BodyTypes, Awake, Relayed, at \in {"read", "close"}, res # "failed",
         NEW s \in Sq, Below(s, TRUE)
  PROVE  /\ Written(tmp', client') = Written(tmp, client) \o s
         /\ plan.fcgi => /\ SentPart(tmp', client'.got, sender', sent')
                         /\ sender' = "none" => NotStarted(tmp')
<1>0. /\ tmp \in TmpType /\ client \in ClientType /\ Len(tmp.data) \in Nat /\ Len(s) \in Nat
      /\ tmp.data \in Sq /\ client.got \in Sq /\ tmp.data \o <<>> = tmp.data
      /\ client.got \o <<>> = client.got
  BY SMTT(30) DEF BodyTypes, TmpType, ClientType, Sq
<1>r. plan.fcgi => /\ SentPart(tmp, client.got, sender, sent)
                   /\ sender = "none" => NotStarted(tmp)
  BY Zenon DEF Relayed
<1>1. CASE s = <<>>
  <2>1. UNCHANGED <<tmp, client, sender, sent>>
    BY <1>1, Zenon DEF Below
  <2> QED BY <1>0, <1>1, <1>r, <2>1, Zenon DEF Written
<1>2. CASE s # <<>> /\ ~plan.fcgi
  <2>1. client' = [client EXCEPT !.got = @ \o s]
    BY <1>2, Zenon DEF Below, SinkWrite
  <2> QED BY <1>0, <1>2, <2>1, Zenon DEF Written, ClientType
<1>3. CASE s # <<>> /\ plan.fcgi
  <2>0. TempWrite(s, TRUE)
    BY <1>3, Zenon DEF Below
  <2>1. ~(sender = "done" /\ sent = "ok")
    BY Zenon DEF Awake
  <2>2. /\ tmp' = Stored(Len(s), s) /\ UNCHANGED client
        /\ \/ sender = "none" /\ sender' = "read" /\ UNCHANGED sent
           \/ /\ sender \notin {"none", "done"} /\ UNCHANGED sent
              /\ sender' = (IF Len(s) > 0 /\ sender = "parked" THEN "read" ELSE sender)
    BY <2>0, <2>1, Zenon DEF TempWrite
  <2>3. /\ tmp'.data = tmp.data \o s /\ tmp'.read = tmp.read /\ tmp'.take = tmp.take
        /\ Len(tmp'.data) = Len(tmp.data) + Len(s)
    <3>1. Len(s) \in 0..Len(s)
      BY <1>0
    <3> QED BY <2>2, <3>1, StoredPart, Zenon
  <2>4. /\ Len(client.got) <= Len(tmp.data) /\ client.got = SubSeq(tmp.data, 1, Len(client.got))
        /\ Len(client.got) \in Nat
    BY <1>0, <1>3, <1>r, SMTT(30) DEF SentPart, Sq
  <2>5. client.got = SubSeq(tmp'.data, 1, Len(client.got)) /\ Len(client.got) <= Len(tmp'.data)
    <3>1. SubSeq(tmp.data \o s, 1, Len(client.got)) = SubSeq(tmp.data, 1, Len(client.got))
      BY <1>0, <2>4, Longer, SMTT(30) DEF Sq
    <3> QED BY <1>0, <2>3, <2>4, <3>1, SMTT(30)
  <2>6. sender = "none" => Len(client.got) = tmp.read
    <3>1. ASSUME sender = "none" PROVE Len(tmp.data) = 0 /\ tmp.read = 0
      BY <1>3, <1>r, <3>1, Zenon DEF NotStarted
    <3> QED BY <2>4, <3>1, SMTT(30)
  <2>7. SentPart(tmp', client'.got, sender', sent')
    BY <1>3, <1>r, <2>2, <2>3, <2>5, <2>6, Zenon DEF SentPart
  <2>8. sender' # "none"
    BY <2>2, Zenon
  <2> QED BY <1>3, <2>3, <2>7, <2>8, Zenon DEF Written
<1> QED BY <1>1, <1>2, <1>3, Zenon

-----------------------------------------------------------------------------
(* A write through all stages *)

HeldType == [chunk : Sq, filter : Sq, zip : Sq, stopped : BOOLEAN]
StoreType == [in : {"no", "memory", "disk"}, got : Sq, ready : BOOLEAN]

\* What is kept after a write.
KeptFrame ==
  /\ held' \in HeldType /\ store' \in StoreType /\ held'.chunk = <<>>
  /\ Compressor(plan) = "no" => held'.zip = <<>>
  /\ plan.filter = "none" => held'.filter = <<>> /\ ~held'.stopped

\* o has left the filter and i comes to it: together with what the filter keeps they are
\* the first m pieces, unless the replacement was sent.
Fed(o, stopped, kept, i, m) ==
  IF stopped THEN EndsWith(o, Replacement) /\ kept = <<>>
  ELSE (o \o kept) \o i = In(m)

LEMMA FilterFeeds ==
  ASSUME BodyTypes, Kept, NEW o \in Sq, NEW s \in Sq, NEW m \in Nat, NEW fin \in BOOLEAN,
         NEW f \in Filtered(s, fin), f.ok, Fed(o, held.stopped, held.filter, s, m)
  PROVE  Fed(o \o f.out, f.stopped, f.kept, <<>>, m)
<1>0. /\ held.filter \in Sq /\ held.stopped \in BOOLEAN
  BY Zenon DEF BodyTypes
<1>f. /\ f.out \in Sq /\ f.kept \in Sq
      /\ ~f.stopped => ~held.stopped /\ f.out \o f.kept = held.filter \o s
      /\ f.stopped => /\ f.kept = <<>>
                      /\ \/ held.stopped /\ f.out = <<>>
                         \/ ~held.stopped /\ f.out = <<Replacement>>
  BY FilterStage, Zenon
<1>1. CASE ~f.stopped
  <2>1. (o \o f.out) \o f.kept = o \o (f.out \o f.kept)
    BY <1>f, Assoc, ZenonT(30)
  <2>2. (o \o held.filter) \o s = o \o (held.filter \o s)
    BY <1>0, Assoc, Zenon
  <2>3. (o \o f.out) \o f.kept \in Sq
    BY <1>f, Joined, Zenon
  <2>4. ((o \o f.out) \o f.kept) \o <<>> = (o \o f.out) \o f.kept
    BY <2>3, Units, Zenon
  <2>5. (o \o held.filter) \o s = In(m)
    BY <1>1, <1>f, Zenon DEF Fed
  <2> QED BY <1>1, <1>f, <2>1, <2>2, <2>4, <2>5, Zenon DEF Fed
<1>2. CASE f.stopped /\ held.stopped /\ f.out = <<>>
  <2>1. o \o f.out = o
    BY <1>2, Units, Zenon
  <2> QED BY <1>2, <1>f, <2>1, Zenon DEF Fed
<1>3. CASE f.stopped /\ ~held.stopped /\ f.out = <<Replacement>>
  <2>1. Replacement \in Nat
    BY DEF Replacement
  <2>2. o \o f.out = Append(o, Replacement)
    BY <1>3, <2>1, Appended, SMTT(30)
  <2>3. EndsWith(Append(o, Replacement), Replacement)
    BY <2>1, Appended, Zenon
  <2> QED BY <1>3, <1>f, <2>2, <2>3, Zenon DEF Fed
<1> QED BY <1>1, <1>2, <1>3, <1>f, Zenon

LEMMA PassedHeld ==
  ASSUME BodyTypes, NEW f, NEW z, Passed(f, z), f.kept \in Sq, f.stopped \in BOOLEAN, z.kept \in Sq
  PROVE  /\ held' \in HeldType /\ held'.chunk = <<>> /\ held'.filter = f.kept
         /\ held'.zip = z.kept /\ held'.stopped = f.stopped
<1>1. held \in HeldType /\ <<>> \in Sq
  BY Units, Zenon DEF BodyTypes, HeldType, Sq
<1> QED BY <1>1, Zenon DEF Passed, HeldType

LEMMA ThroughFrame ==
  ASSUME BodyTypes, Kept, Awake, NEW s \in Sq, NEW how \in {"write", "flush"}, NEW ok \in BOOLEAN,
         Through(s, how, ok)
  PROVE  Frame /\ KeptFrame
<1>1. PICK f \in Filtered(s, how = "flush") :
        IF f.ok THEN \E z \in Compressed(f.out, how) :
                       Passed(f, z) /\ store' \in Collected(z.out) /\ Below(z.out, ok)
        ELSE Passed(f, [kept |-> held.zip]) /\ UNCHANGED <<store, tmp, client, sender, sent>>
  BY Zenon DEF Through
<1>f. /\ f.out \in Sq /\ f.kept \in Sq /\ f.stopped \in BOOLEAN /\ f.ok \in BOOLEAN
      /\ plan.filter = "none" => f.kept = <<>> /\ ~f.stopped
  BY FilterStage, Zenon
<1>2. CASE f.ok
  <2>1. PICK z \in Compressed(f.out, how) :
          Passed(f, z) /\ store' \in Collected(z.out) /\ Below(z.out, ok)
    BY <1>1, <1>2, Zenon
  <2>2. z.out \in Sq /\ z.kept \in Sq /\ (Compressor(plan) = "no" => z.kept = <<>>)
    BY <1>f, <2>1, ZipStage, ZenonT(30)
  <2>3. Frame
    BY <2>1, <2>2, BelowFrame, Zenon
  <2>4. store' \in StoreType
    BY <2>1, <2>2, StoreStage, Zenon DEF StoreType
  <2>5. /\ held' \in HeldType /\ held'.chunk = <<>> /\ held'.filter = f.kept
        /\ held'.zip = z.kept /\ held'.stopped = f.stopped
    BY <1>f, <2>1, <2>2, PassedHeld, Zenon
  <2> QED BY <1>f, <2>2, <2>3, <2>4, <2>5, Zenon DEF KeptFrame
<1>3. CASE ~f.ok
  <2>1. Passed(f, [kept |-> held.zip]) /\ UNCHANGED <<store, tmp, client, sender, sent>>
    BY <1>1, <1>3, Zenon
  <2>2. held.zip \in Sq /\ [kept |-> held.zip].kept = held.zip
    BY Zenon DEF BodyTypes
  <2>3. /\ held' \in HeldType /\ held'.chunk = <<>> /\ held'.filter = f.kept
        /\ held'.zip = held.zip /\ held'.stopped = f.stopped
    BY <1>f, <2>1, <2>2, PassedHeld, Zenon
  <2>4. KeptFrame
    BY <1>f, <2>1, <2>3, Zenon DEF KeptFrame, Kept, BodyTypes, StoreType
  <2>5. Frame
    BY <2>1, Zenon DEF Frame, BodyTypes, TmpType, ClientType, Awake
  <2> QED BY <2>4, <2>5, Zenon
<1> QED BY <1>2, <1>3, <1>f, Zenon

\* What is stored is what is written below, and the sender follows it.
Follows ==
  /\ store'.in # "no" => store'.got = Written(tmp', client')
  /\ plan.fcgi => /\ SentPart(tmp', client'.got, sender', sent')
                  /\ sender' = "none" => NotStarted(tmp')

LEMMA BelowFollows ==
  ASSUME BodyTypes, Awake, Flow, Relayed, at \in {"read", "close"}, res # "failed",
         NEW s \in Sq, store' \in Collected(s), Below(s, TRUE)
  PROVE  Written(tmp', client') = Written(tmp, client) \o s /\ Follows
<1>1. /\ Written(tmp', client') = Written(tmp, client) \o s
      /\ plan.fcgi => /\ SentPart(tmp', client'.got, sender', sent')
                      /\ sender' = "none" => NotStarted(tmp')
  BY BelowFlow, Zenon
<1>2. store'.in # "no" => store.in # "no" /\ store'.got = store.got \o s
  BY StoreStage, Zenon
<1>3. store.in # "no" => store.got = Written(tmp, client)
  BY Zenon DEF Flow
<1> QED BY <1>1, <1>2, <1>3, Zenon DEF Follows

LEMMA ThroughFlow ==
  ASSUME BodyTypes, Kept, Awake, Flow, Relayed, at \in {"read", "close"}, res # "failed",
         NEW s \in Sq, NEW how \in {"write", "flush"}, NEW ok \in BOOLEAN, ok,
         Through(s, how, ok), NEW m \in Nat,
         Fed(Out(tmp, client, held), held.stopped, held.filter, s, m)
  PROVE  Carried(tmp', client', held', m) /\ Follows
<1>0. PICK w : w = Written(tmp, client) /\ w \in Sq /\ held.zip \in Sq /\ w \o held.zip \in Sq
  BY Joined, Zenon DEF BodyTypes, Written
<1>9. PICK fin \in BOOLEAN : fin = (how = "flush")
  BY Zenon
<1>1. PICK f \in Filtered(s, fin) :
        f.ok /\ \E z \in Compressed(f.out, how) :
                  Passed(f, z) /\ store' \in Collected(z.out) /\ Below(z.out, ok)
  BY <1>9, Zenon DEF Through
<1>2. PICK z \in Compressed(f.out, how) :
        Passed(f, z) /\ store' \in Collected(z.out) /\ Below(z.out, ok)
  BY <1>1, Zenon
<1>12. f.out \in Sq /\ f.kept \in Sq /\ f.stopped \in BOOLEAN /\ f.ok \in BOOLEAN
  BY FilterStage, Zenon
<1>11. z.out \in Sq /\ z.kept \in Sq /\ z.out \o z.kept = held.zip \o f.out
  BY <1>12, ZipStage, ZenonT(30)
<1>3. Written(tmp', client') = w \o z.out /\ Follows
  BY <1>0, <1>2, <1>11, BelowFollows, Zenon
<1>4. /\ held'.chunk = <<>> /\ held'.filter = f.kept
      /\ held'.zip = z.kept /\ held'.stopped = f.stopped
  BY <1>12, <1>2, <1>11, PassedHeld, Zenon
<1>5. (w \o z.out) \o z.kept = (w \o held.zip) \o f.out
  <2>1. Cat(z.out, z.kept) = Cat(held.zip, f.out)
    BY <1>11, Zenon DEF Cat
  <2>2. w \in Sq /\ z.out \in Sq /\ z.kept \in Sq /\ held.zip \in Sq /\ f.out \in Sq
    BY <1>0, <1>11, <1>12, Zenon
  <2>3. Cat(Cat(w, z.out), z.kept) = Cat(Cat(w, held.zip), f.out)
    BY <2>1, <2>2, Regroup, SMTT(30)
  <2> QED BY <2>3, Zenon DEF Cat
<1>6. Out(tmp', client', held') = Out(tmp, client, held) \o f.out
  BY <1>0, <1>3, <1>4, <1>5, Zenon DEF Out
<1>7. Fed(Out(tmp, client, held) \o f.out, f.stopped, f.kept, <<>>, m)
  <2>1. Out(tmp, client, held) \in Sq
    BY <1>0, Zenon DEF Out
  <2> QED BY <2>1, <1>1, FilterFeeds, Zenon
<1>8. Carried(tmp', client', held', m)
  BY <1>4, <1>6, <1>7, Zenon DEF Carried, Fed
<1> QED BY <1>3, <1>8, Zenon

-----------------------------------------------------------------------------
(* The steps of the request's fiber *)

\* A write leaves the sender awake.
LEMMA FrameAwake ==
  ASSUME BodyTypes, Awake, at \in {"read", "close"}, Frame, plan' = plan,
         at' \in {"read", "close", "finish", "end"},
         at' = "finish" => plan.fcgi, at' = "end" => ~plan.fcgi
  PROVE  Awake'
<1>1. tmp.end => tmp.closed
  BY Zenon DEF Awake
<1>2. ~(sender' = "done" /\ sent' = "ok")
  BY <1>1, Zenon DEF Awake, Frame
<1>3. SenderAwake'
  <2>1. SUFFICES ASSUME sender' = "parked"
                 PROVE  /\ tmp'.read = Len(tmp'.data) /\ ~tmp'.end /\ ~tmp'.closed
                        /\ at' \notin {"join", "end", "over"}
    BY Zenon DEF SenderAwake
  <2>2. sender = "parked" /\ tmp'.data = tmp.data /\ tmp'.read = tmp.read
        /\ tmp'.end = tmp.end /\ tmp'.closed = tmp.closed /\ plan.fcgi
    BY <2>1, Zenon DEF Frame
  <2>3. tmp.read = Len(tmp.data) /\ ~tmp.end /\ ~tmp.closed
    BY <2>2, Zenon DEF Awake, SenderAwake
  <2> QED BY <2>2, <2>3, Zenon
<1>4. tmp'.end => tmp'.closed
  BY <1>1, Zenon DEF Frame
<1>5. ~plan.fcgi => sender' = "none"
  BY Zenon DEF Frame
<1>6. at' \in {"end", "over"} => ~plan.fcgi
  OBVIOUS
<1>7. (plan.fcgi /\ at' \in {"join", "end", "over"} => tmp'.end)
  OBVIOUS
<1> QED BY <1>2, <1>3, <1>4, <1>5, <1>6, <1>7, Zenon DEF Awake

\* A call that hands s on to the stages.
LEMMA ThroughStep ==
  ASSUME BodyInv, at = "read", plan' = plan,
         NEW s \in Sq, NEW how \in {"write", "flush"}, NEW ok \in BOOLEAN, Through(s, how, ok),
         NEW good \in {"ok", "end"}, Goes(IF ok THEN good ELSE "failed"),
         up' \in [sent : 0..Pieces, ended : BOOLEAN, bye : BOOLEAN],
         good = "end" => plan.framing = "chunked", good = "ok" => ~up'.ended,
         Fed(Out(tmp, client, held), held.stopped, held.filter, s, up'.sent)
  PROVE  BodyInv'
<1>0. BodyTypes /\ Kept /\ Awake /\ Flow /\ Relayed /\ res # "failed"
  BY Zenon DEF BodyInv, Kept
<1>1. Frame /\ KeptFrame
  BY <1>0, ThroughFrame, Zenon
<1>2. /\ at' \in {"read", "close"} /\ res' \in Results /\ (res' = "end" => plan.framing = "chunked")
      /\ at' = "read" => res' = "ok" /\ ~up'.ended
      /\ res' # "failed" => ok
  BY Zenon DEF Goes, Results, Errors
<1>3. BodyTypes'
  BY <1>0, <1>1, <1>2, Zenon DEF BodyTypes, Frame, KeptFrame, TmpType, ClientType, HeldType, StoreType
<1>4. Kept'
  BY <1>1, <1>2, Zenon DEF Kept, KeptFrame
<1>5. Awake'
  BY <1>0, <1>1, <1>2, FrameAwake, Zenon
<1>6. ASSUME res' # "failed"
      PROVE  Carried(tmp', client', held', up'.sent) /\ Follows
  <2>1. up'.sent \in Nat /\ ok
    BY <1>2, <1>6
  <2>2. at \in {"read", "close"}
    BY Zenon
  <2> QED BY <1>0, <2>1, <2>2, ThroughFlow, ZenonT(30)
<1>7. Flow'
  BY <1>2, <1>6, Zenon DEF Flow, Follows, Carried, Out, Written
<1>8. Relayed'
  BY <1>2, <1>6, ZenonT(30) DEF Relayed, Follows
<1>9. BodyWhole'
  BY <1>2, Zenon DEF BodyWhole
<1> QED BY <1>3, <1>4, <1>5, <1>7, <1>8, <1>9, Zenon DEF BodyInv

\* A step that does not reach the stages.
LEMMA HoldStep ==
  ASSUME BodyInv, at = "read", UNCHANGED <<plan, store, tmp, client, sender, sent>>,
         at' \in {"read", "close"}, res' \in Results, at' = "read" => res' = "ok" /\ ~up'.ended,
         res' = "end" => plan.framing = "chunked",
         up' \in [sent : 0..Pieces, ended : BOOLEAN, bye : BOOLEAN],
         held' \in HeldType, held'.filter = held.filter, held'.zip = held.zip,
         held'.stopped = held.stopped,
         plan.framing # "chunked" \/ up'.ended => held'.chunk = <<>>,
         res' # "failed" => Carried(tmp, client, held', up'.sent)
  PROVE  BodyInv'
<1>0. BodyTypes /\ Kept /\ Awake /\ Flow /\ Relayed /\ res = "ok"
  BY Zenon DEF BodyInv, Kept
<1>1. BodyTypes'
  BY <1>0 DEF BodyTypes, HeldType
<1>2. Kept'
  BY <1>0, Zenon DEF Kept
<1>3. Awake'
  BY <1>0, Zenon DEF Awake, SenderAwake
<1>4. Flow'
  BY <1>0, Zenon DEF Flow, Carried, Out, Written
<1>5. Relayed'
  BY <1>0, Zenon DEF Relayed, SentPart, NotStarted
<1>6. BodyWhole'
  BY Zenon DEF BodyWhole
<1> QED BY <1>1, <1>2, <1>3, <1>4, <1>5, <1>6, Zenon DEF BodyInv


\* The next piece, behind what the chunk decoder keeps.
LEMMA NextPiece ==
  ASSUME BodyTypes, Flow, at = "read", res = "ok"
  PROVE  Fed(Out(tmp, client, held), held.stopped, held.filter, Append(held.chunk, up.sent + 1), up.sent + 1)
<1>1. Carried(tmp, client, held, up.sent)
  BY Zenon DEF Flow
<1>2. CASE held.stopped
  BY <1>1, <1>2, Zenon DEF Carried, Fed
<1>3. CASE ~held.stopped
  <2>1. PICK a : a = Out(tmp, client, held) \o held.filter /\ a \in Sq
    <3>1. Out(tmp, client, held) \in Sq /\ held.filter \in Sq
      <4>1. Written(tmp, client) \in Sq /\ held.zip \in Sq
        BY Zenon DEF BodyTypes, Written
      <4> QED BY <4>1, Joined, Zenon DEF Out, BodyTypes
    <3> QED BY <3>1, Joined, Zenon
  <2>2. a \o held.chunk = In(up.sent)
    BY <1>1, <1>3, <2>1, Zenon DEF Carried
  <2>3. up.sent \in Nat /\ held.chunk \in Sq
    BY DEF BodyTypes
  <2>4. a \o Append(held.chunk, up.sent + 1) = In(up.sent + 1)
    <3>1. Cat(a, held.chunk) = In(up.sent)
      BY <2>2, Zenon DEF Cat
    <3>2. Cat(a, Append(held.chunk, up.sent + 1)) = In(up.sent + 1)
      BY <2>1, <2>3, <3>1, OneMore, Zenon
    <3> QED BY <3>2, Zenon DEF Cat
  <2> QED BY <1>3, <2>1, <2>4, Zenon DEF Fed
<1> QED BY <1>2, <1>3, Zenon

LEMMA FlushStep == ASSUME BodyInv, Flush PROVE BodyInv'
<1>0. BodyTypes /\ Kept /\ Flow /\ res = "ok" /\ at = "read" /\ plan' = plan /\ up' = up
  BY Zenon DEF BodyInv, Kept, Flush
<1>1. PICK ok \in BOOLEAN : Through(<<>>, "flush", ok) /\ Goes(IF ok THEN "ok" ELSE "failed")
  BY Zenon DEF Flush
<1>2. Carried(tmp, client, held, up.sent)
  BY <1>0, Zenon DEF Flow
<1>3. held.chunk = <<>> /\ ~up.ended
  BY <1>0, Zenon DEF Flush, Flushed, Kept
<1>4. Fed(Out(tmp, client, held), held.stopped, held.filter, <<>>, up'.sent)
  BY <1>0, <1>2, <1>3, Zenon DEF Carried, Fed
<1>5. up' \in [sent : 0..Pieces, ended : BOOLEAN, bye : BOOLEAN] /\ <<>> \in Sq
  BY <1>0 DEF BodyTypes, Sq
<1>6. ~up'.ended
  BY <1>0, <1>3, Zenon
<1> QED BY <1>0, <1>1, <1>4, <1>5, <1>6, ThroughStep, Zenon

LEMMA ReceiveStep == ASSUME BodyInv, Receive PROVE BodyInv'
<1>0. BodyTypes /\ Kept /\ Flow /\ res = "ok" /\ at = "read" /\ plan' = plan /\ up.sent < Pieces
  BY Zenon DEF BodyInv, Kept, Receive, Reading
<1>1. /\ up' \in [sent : 0..Pieces, ended : BOOLEAN, bye : BOOLEAN]
      /\ up'.sent = up.sent + 1 /\ ~up'.ended
  BY <1>0, SMTT(30) DEF BodyTypes, Receive, Kept
<1> DEFINE s == Append(held.chunk, up'.sent)
<1>2. s \in Sq /\ <<>> \in Sq
  <2>1. held.chunk \in Sq /\ up'.sent \in Nat
    BY <1>0, <1>1, SMTT(30) DEF BodyTypes
  <2> QED BY <2>1, Appended, Units, Zenon
<1>3. Fed(Out(tmp, client, held), held.stopped, held.filter, s, up'.sent)
  BY <1>0, <1>1, NextPiece, Zenon
<1>4. \/ \E ok \in BOOLEAN : Through(s, "write", ok) /\ Goes(IF ok THEN "ok" ELSE "failed")
      \/ /\ plan.framing = "chunked"
         /\ held' = [held EXCEPT !.chunk = s] /\ Goes("ok")
         /\ UNCHANGED <<store, tmp, client, sender, sent>>
      \/ /\ plan.framing = "chunked"
         /\ held' = [held EXCEPT !.chunk = <<>>] /\ Goes("failed")
         /\ UNCHANGED <<store, tmp, client, sender, sent>>
  BY Zenon DEF Receive
<1> HIDE DEF s
<1>5. CASE \E ok \in BOOLEAN : Through(s, "write", ok) /\ Goes(IF ok THEN "ok" ELSE "failed")
  <2>1. PICK ok \in BOOLEAN : Through(s, "write", ok) /\ Goes(IF ok THEN "ok" ELSE "failed")
    BY <1>5, Zenon
  <2> QED BY <1>0, <1>1, <1>2, <1>3, <2>1, ThroughStep, Zenon
<1>6. CASE /\ plan.framing = "chunked"
           /\ held' = [held EXCEPT !.chunk = s] /\ Goes("ok")
           /\ UNCHANGED <<store, tmp, client, sender, sent>>
  <2>1. /\ held' \in HeldType /\ held'.filter = held.filter /\ held'.zip = held.zip
        /\ held'.stopped = held.stopped /\ held'.chunk = s
    BY <1>0, <1>2, <1>6, Zenon DEF BodyTypes, HeldType
  <2>2. at' = "read" /\ res' = "ok" /\ res' \in Results
    BY <1>6, Zenon DEF Goes, Results
  <2>3. Carried(tmp, client, held', up'.sent)
    <3>1. Out(tmp, client, held') = Out(tmp, client, held)
      BY <2>1, Zenon DEF Out
    <3> QED BY <1>3, <2>1, <3>1, Zenon DEF Fed, Carried
  <2> QED BY <1>0, <1>1, <1>6, <2>1, <2>2, <2>3, HoldStep, Zenon
<1>7. CASE /\ plan.framing = "chunked"
           /\ held' = [held EXCEPT !.chunk = <<>>] /\ Goes("failed")
           /\ UNCHANGED <<store, tmp, client, sender, sent>>
  <2>1. /\ held' \in HeldType /\ held'.filter = held.filter /\ held'.zip = held.zip
        /\ held'.stopped = held.stopped /\ held'.chunk = <<>>
    BY <1>0, <1>2, <1>7, Zenon DEF BodyTypes, HeldType
  <2>2. at' = "close" /\ res' = "failed" /\ res' \in Results
    BY <1>7, Zenon DEF Goes, Results, Errors
  <2> QED BY <1>0, <1>1, <1>7, <2>1, <2>2, HoldStep, Zenon
<1> QED BY <1>4, <1>5, <1>6, <1>7, Zenon

LEMMA LastChunkStep == ASSUME BodyInv, LastChunk PROVE BodyInv'
<1>0. /\ BodyTypes /\ Kept /\ Flow /\ res = "ok" /\ at = "read" /\ plan' = plan
      /\ plan.framing = "chunked"
  BY Zenon DEF BodyInv, Kept, LastChunk, Reading
<1>1. /\ up' \in [sent : 0..Pieces, ended : BOOLEAN, bye : BOOLEAN] /\ up'.sent = up.sent
      /\ held.chunk \in Sq
  BY <1>0, Zenon DEF BodyTypes, LastChunk
<1>2. PICK ok \in BOOLEAN : Through(held.chunk, "write", ok) /\ Goes(IF ok THEN "end" ELSE "failed")
  BY Zenon DEF LastChunk
<1>3. Fed(Out(tmp, client, held), held.stopped, held.filter, held.chunk, up'.sent)
  BY <1>0, <1>1, Zenon DEF Flow, Carried, Fed
<1> QED BY <1>0, <1>1, <1>2, <1>3, ThroughStep, Zenon

\* The four ends of the loop.
LEMMA EndsStep == ASSUME BodyInv, Eof \/ Break \/ EndRequest \/ LengthReached PROVE BodyInv'
<1>0. BodyTypes /\ Kept /\ Flow /\ res = "ok" /\ at = "read"
  BY Zenon DEF BodyInv, Kept, Eof, Break, EndRequest, LengthReached, Reading
<1>1. /\ UNCHANGED <<plan, held, store, tmp, client, sender, sent>>
      /\ at' = "close" /\ res' \in {"ok", "failed"}
  BY Zenon DEF Eof, Break, EndRequest, LengthReached, Ends
<1>2. /\ up' \in [sent : 0..Pieces, ended : BOOLEAN, bye : BOOLEAN] /\ up'.sent = up.sent
      /\ up'.ended = up.ended
  BY <1>0, ZenonT(30) DEF BodyTypes, Eof, Break, EndRequest, LengthReached
<1>3. Carried(tmp, client, held', up'.sent)
  BY <1>0, <1>1, <1>2, Zenon DEF Flow
<1>4. held' \in HeldType /\ res' \in Results /\ res' # "end"
  BY <1>0, <1>1, Zenon DEF BodyTypes, HeldType, Results, Errors
<1>5. plan.framing # "chunked" \/ up'.ended => held'.chunk = <<>>
  BY <1>0, <1>1, <1>2, Zenon DEF Kept
<1> QED BY <1>0, <1>1, <1>2, <1>3, <1>4, <1>5, HoldStep, Zenon

-----------------------------------------------------------------------------
(* Closing *)

\* Image, with what it looks at as parameters.
ImageAt(s, zip, stopped, n) ==
  LET Whole(body) == IF stopped THEN EndsWith(body, Replacement) ELSE body = In(n)
  IN  IF zip = "no" THEN Whole(s) ELSE EndsWith(s, Trailer) /\ Whole(Take(Len(s) - 1, s))

LEMMA EndImage ==
  ASSUME NEW b \in Sq, NEW stopped \in BOOLEAN, NEW n \in Nat, NEW zip, NEW s,
         Fed(b, stopped, <<>>, <<>>, n), s = (IF zip = "no" THEN b ELSE Append(b, Trailer))
  PROVE  ImageAt(s, zip, stopped, n)
<1>1. Trailer \in Nat /\ b \o <<>> = b
  BY Units, Zenon DEF Trailer
<1>2. /\ EndsWith(Append(b, Trailer), Trailer)
      /\ Take(Len(Append(b, Trailer)) - 1, Append(b, Trailer)) = b
  BY <1>1, Appended, Zenon
<1>3. IF stopped THEN EndsWith(b, Replacement) ELSE b = In(n)
  BY <1>1, Zenon DEF Fed
<1> QED BY <1>2, <1>3, Zenon DEF ImageAt

\* Where the compressor ends its stream behind what it has kept, or there is none.
LEMMA EndOfStream ==
  ASSUME NEW w \in Sq, NEW k \in Sq, NEW o \in Sq
  PROVE  /\ Cat(w, <<>>) = w
         /\ Cat(w, Append(Cat(k, o), Trailer)) = Append(Cat(Cat(w, k), o), Trailer)
<1>1. Cat(w, <<>>) = w
  BY Units, Zenon DEF Cat
<1>2. Cat(k, o) \in Sq /\ Trailer \in Nat
  BY Joined, Zenon DEF Cat, Trailer
<1>3. Cat(w, Append(Cat(k, o), Trailer)) = Append(Cat(w, Cat(k, o)), Trailer)
  BY <1>2, CatAppend, ZenonT(30)
<1>4. Cat(Cat(w, k), o) = Cat(w, Cat(k, o))
  BY CatAssoc, Zenon
<1> QED BY <1>1, <1>3, <1>4, Zenon

\* The call of the close functions: what the stages give up, and what comes of it.
CloseWith(r, f, z, ok) ==
  /\ r \in Errors => f = Dropped
  /\ r \notin Errors => f \in Filtered(<<>>, TRUE)
  /\ z \in Compressed(f.out, "finish") /\ Passed(f, z)
  /\ store' \in Collected(z.out) /\ Below(z.out, ok)
  /\ res' = IF f.ok /\ ok THEN r ELSE "failed"

LEMMA CloseTypes ==
  ASSUME BodyTypes, Kept, Awake, at = "close", NEW r, NEW f, NEW z, NEW ok \in BOOLEAN,
         CloseWith(r, f, z, ok)
  PROVE  /\ Frame /\ KeptFrame
         /\ f.out \in Sq /\ f.kept = <<>> /\ f.stopped \in BOOLEAN /\ f.ok \in BOOLEAN
         /\ z.out \in Sq
         /\ held'.stopped = f.stopped /\ held'.filter = <<>>
<1>0. <<>> \in Sq
  BY Units DEF Sq
<1>1. /\ f.out \in Sq /\ f.kept = <<>> /\ f.stopped \in BOOLEAN /\ f.ok \in BOOLEAN
      /\ plan.filter = "none" => ~f.stopped
  <2>1. CASE f = Dropped
    BY <1>0, <2>1, Zenon DEF Dropped, Nothing, Kept, BodyTypes
  <2>2. CASE f \in Filtered(<<>>, TRUE)
    BY <1>0, <2>2, FilterStage, Zenon
  <2> QED BY <2>1, <2>2, Zenon DEF CloseWith
<1>2. z.out \in Sq /\ z.kept = <<>>
  <2>1. z \in Compressed(f.out, "finish")
    BY Zenon DEF CloseWith
  <2> QED BY <1>1, <2>1, ZipStage, Zenon
<1>3. Frame
  BY <1>2, BelowFrame, Zenon DEF CloseWith
<1>4. store' \in StoreType
  <2>1. store' \in Collected(z.out)
    BY Zenon DEF CloseWith
  <2> QED BY <1>2, <2>1, StoreStage, Zenon DEF StoreType
<1>5. /\ held' \in HeldType /\ held'.chunk = <<>> /\ held'.filter = f.kept
      /\ held'.zip = z.kept /\ held'.stopped = f.stopped
  BY <1>0, <1>1, <1>2, PassedHeld, Zenon DEF CloseWith
<1>6. KeptFrame
  BY <1>1, <1>2, <1>4, <1>5, Zenon DEF KeptFrame
<1> QED BY <1>1, <1>2, <1>3, <1>5, <1>6, Zenon

LEMMA CloseFlow ==
  ASSUME BodyTypes, Kept, Awake, Flow, Relayed, at = "close", NEW f, NEW z, NEW ok \in BOOLEAN,
         CloseWith(DechunkClose(res), f, z, ok), res' # "failed"
  PROVE  /\ res # "failed" /\ res' = res /\ (plan.framing = "chunked" => up.ended) /\ Follows
         /\ ImageAt(Written(tmp', client'), Compressor(plan), held'.stopped, up.sent)
<1>1. /\ res # "failed" /\ res' = res /\ (plan.framing = "chunked" => up.ended) /\ f.ok /\ ok
      /\ DechunkClose(res) \notin Errors
  BY Zenon DEF CloseWith, DechunkClose, Errors, BodyTypes, Results
<1>2. /\ f.out \in Sq /\ f.kept = <<>> /\ f.stopped \in BOOLEAN /\ z.out \in Sq
      /\ held'.stopped = f.stopped
  BY CloseTypes, Zenon
<1>3. f \in Filtered(<<>>, TRUE) /\ z \in Compressed(f.out, "finish") /\ Below(z.out, ok)
      /\ store' \in Collected(z.out)
  BY <1>1, Zenon DEF CloseWith
<1>4. PICK w : w = Written(tmp, client) /\ w \in Sq /\ held.zip \in Sq
  BY Zenon DEF BodyTypes, Written
<1>5. Written(tmp', client') = w \o z.out /\ Follows
  <2>1. Below(z.out, TRUE)
    BY <1>1, <1>3, Zenon
  <2> QED BY <1>1, <1>2, <1>3, <1>4, <2>1, BelowFollows, Zenon
<1>6. /\ Compressor(plan) = "no" => held.zip = <<>> /\ z.out = f.out
      /\ Compressor(plan) # "no" => z.out = Append(Cat(held.zip, f.out), Trailer)
  <2>1. /\ Compressor(plan) = "no" => z.out = f.out
        /\ Compressor(plan) # "no" => z.out = Append(held.zip \o f.out, Trailer)
    BY <1>2, <1>3, ZipStage, Zenon
  <2> QED BY <2>1, Zenon DEF Kept, Cat
<1>7. PICK b : b = Cat(Cat(w, held.zip), f.out) /\ b \in Sq
               /\ Fed(b, f.stopped, <<>>, <<>>, up.sent)
  <2>1. held.chunk = <<>> /\ up.sent \in Nat /\ <<>> \in Sq
    BY <1>1, Units, SMTT(30) DEF Kept, BodyTypes, Sq
  <2>2. Fed(Out(tmp, client, held), held.stopped, held.filter, <<>>, up.sent)
    BY <1>1, <2>1, Zenon DEF Flow, Carried, Fed
  <2>3. Out(tmp, client, held) = Cat(w, held.zip) /\ Out(tmp, client, held) \in Sq
    BY <1>4, Joined, Zenon DEF Out, Cat
  <2>4. Fed(Out(tmp, client, held) \o f.out, f.stopped, f.kept, <<>>, up.sent)
    BY <1>1, <1>3, <2>1, <2>2, <2>3, FilterFeeds, Zenon
  <2>5. Cat(Cat(w, held.zip), f.out) = Out(tmp, client, held) \o f.out
    BY <2>3, Zenon DEF Cat
  <2>6. Out(tmp, client, held) \o f.out \in Sq
    BY <1>2, <2>3, Joined, Zenon
  <2> QED BY <1>2, <2>4, <2>5, <2>6, Zenon
<1>8. Cat(w, z.out) = IF Compressor(plan) = "no" THEN b ELSE Append(b, Trailer)
  <2>1. PICK k, o, y, zip : /\ k \in Sq /\ o \in Sq
                            /\ k = held.zip /\ o = f.out /\ y = z.out /\ zip = Compressor(plan)
    BY <1>2, <1>4, Zenon
  <2>2. /\ zip = "no" => k = <<>> /\ y = o
        /\ zip # "no" => y = Append(Cat(k, o), Trailer)
    BY <1>6, <2>1, Zenon
  <2>3. Cat(w, y) = IF zip = "no" THEN Cat(Cat(w, k), o) ELSE Append(Cat(Cat(w, k), o), Trailer)
    <3>1. k \in Sq /\ o \in Sq /\ w \in Sq
      BY <1>4, <2>1, Zenon
    <3>2. CASE zip = "no"
      <4>1. k = <<>> /\ y = o BY <2>2, <3>2, Zenon
      <4>2. Cat(w, k) = w BY <3>1, <4>1, EndOfStream, Zenon
      <4> QED BY <3>2, <4>1, <4>2, Zenon
    <3>3. CASE zip # "no"
      <4>1. y = Append(Cat(k, o), Trailer) BY <2>2, <3>3, Zenon
      <4>2. Cat(w, Append(Cat(k, o), Trailer)) = Append(Cat(Cat(w, k), o), Trailer)
        BY <3>1, EndOfStream, ZenonT(30)
      <4> QED BY <3>3, <4>1, <4>2, Zenon
    <3> QED BY <3>2, <3>3, Zenon
  <2> QED BY <1>7, <2>1, <2>3, Zenon
<1>9. Written(tmp', client') = IF Compressor(plan) = "no" THEN b ELSE Append(b, Trailer)
  BY <1>5, <1>8, Zenon DEF Cat
<1>10. up.sent \in Nat
  BY DEF BodyTypes
<1>11. ImageAt(Written(tmp', client'), Compressor(plan), held'.stopped, up.sent)
  BY <1>2, <1>7, <1>9, <1>10, EndImage, Zenon
<1> QED BY <1>1, <1>5, <1>11, Zenon

LEMMA CloseStep == ASSUME BodyInv, Close PROVE BodyInv'
<1>0. /\ BodyTypes /\ Kept /\ Awake /\ Flow /\ Relayed /\ at = "close"
      /\ plan' = plan /\ up' = up /\ at' = IF plan.fcgi THEN "finish" ELSE "end"
  BY Zenon DEF BodyInv, Close
<1>1. PICK f, z : \E ok \in BOOLEAN : CloseWith(DechunkClose(res), f, z, ok)
  BY Zenon DEF Close, CloseWith
<1>2. PICK ok \in BOOLEAN : CloseWith(DechunkClose(res), f, z, ok)
  BY <1>1, Zenon
<1>3. Frame /\ KeptFrame
  BY <1>0, <1>2, CloseTypes, Zenon
<1>4. res' \in Results /\ (res' = "end" => plan.framing = "chunked")
  BY <1>0, <1>2, Zenon DEF CloseWith, DechunkClose, Results, Errors, Kept, BodyTypes
<1>5. BodyTypes'
  BY <1>0, <1>3, <1>4, Zenon DEF BodyTypes, Frame, KeptFrame, TmpType, ClientType, HeldType, StoreType
<1>6. Kept'
  BY <1>0, <1>3, <1>4, Zenon DEF Kept, KeptFrame
<1>7. Awake'
  BY <1>0, <1>3, FrameAwake, Zenon
<1>8. ASSUME res' # "failed"
      PROVE  /\ (plan.framing = "chunked" => up.ended) /\ Follows
             /\ ImageAt(Written(tmp', client'), Compressor(plan), held'.stopped, up.sent)
  BY <1>0, <1>2, <1>8, CloseFlow, Zenon
<1>9. Flow'
  BY <1>0, <1>8, ZenonT(30) DEF Flow, Follows, Image, ImageAt, Written, In
<1>10. Relayed'
  BY <1>0, <1>8, Zenon DEF Relayed, Follows
<1>11. BodyWhole'
  BY <1>0, Zenon DEF BodyWhole
<1> QED BY <1>5, <1>6, <1>7, <1>9, <1>10, <1>11, Zenon DEF BodyInv

LEMMA WriteEndStep == ASSUME BodyInv, WriteEnd PROVE BodyInv'
<1>0. /\ BodyTypes /\ Kept /\ Awake /\ Flow /\ Relayed /\ at = "finish" /\ at' = "join"
      /\ tmp' = [tmp EXCEPT !.end = TRUE]
      /\ sender' = IF sender = "parked" THEN "read" ELSE sender
      /\ UNCHANGED <<plan, up, held, store, client, res, sent>>
  BY Zenon DEF BodyInv, WriteEnd
<1>1. /\ tmp' \in TmpType /\ tmp'.data = tmp.data /\ tmp'.read = tmp.read /\ tmp'.take = tmp.take
      /\ tmp'.closed = tmp.closed /\ tmp'.end
  BY <1>0, Zenon DEF BodyTypes, TmpType
<1>2. BodyTypes'
  BY <1>0, <1>1, ZenonT(30) DEF BodyTypes, TmpType
<1>3. Kept'
  BY <1>0, Zenon DEF Kept
<1>4. Awake'
  BY <1>0, <1>1, Zenon DEF Awake, SenderAwake
<1>5. Flow'
  BY <1>0, <1>1, Zenon DEF Flow, Image, Written
<1>6. Relayed'
  BY <1>0, <1>1, Zenon DEF Relayed, SentPart, NotStarted
<1>7. BodyWhole'
  BY <1>0, Zenon DEF BodyWhole
<1> QED BY <1>2, <1>3, <1>4, <1>5, <1>6, <1>7, Zenon DEF BodyInv

\* After the join a success of the fetch is a success of the sender.
LEMMA JoinStep == ASSUME BodyInv, Join PROVE BodyInv'
<1>0. /\ BodyTypes /\ Kept /\ Awake /\ Flow /\ Relayed /\ at = "join" /\ at' = "end"
      /\ sender' = "none" /\ sender \in {"none", "done"}
      /\ res' = IF res = "ok" /\ sender = "done" THEN sent ELSE res
      /\ UNCHANGED <<plan, up, held, store, tmp, client, sent>>
  BY Zenon DEF BodyInv, Join
<1>1. BodyTypes'
  BY <1>0 DEF BodyTypes, Results, Errors
<1>2. Kept'
  BY <1>0, Zenon DEF Kept, BodyTypes
<1>3. Awake'
  BY <1>0, Zenon DEF Awake, SenderAwake
<1>4. Flow'
  BY <1>0, Zenon DEF Flow, Image, Written
<1>5. Relayed'
  <2>1. SUFFICES ASSUME plan.fcgi, res' # "failed"
                 PROVE  /\ SentPart(tmp, client.got, "none", sent)
                        /\ res' = "ok" => client.got = tmp.data
    BY <1>0, Zenon DEF Relayed
  <2>2. SentPart(tmp, client.got, sender, sent) /\ (sender = "none" => NotStarted(tmp))
    BY <1>0, <2>1, Zenon DEF Relayed
  <2>3. SentPart(tmp, client.got, "none", sent)
    BY <2>2, Zenon DEF SentPart
  <2>4. ASSUME res' = "ok" PROVE Len(client.got) = Len(tmp.data)
    <3>1. CASE sender = "none"
      <4>1. tmp.data = <<>> /\ Len(client.got) <= Len(tmp.data) /\ client.got \in Sq
        BY <2>2, <3>1, Zenon DEF SentPart, NotStarted, BodyTypes, BodyInv
      <4> QED BY <4>1 DEF Sq
    <3>2. CASE sender = "done"
      <4>1. sent = "ok"
        BY <1>0, <2>4, <3>2, Zenon DEF BodyTypes, Results, Errors
      <4>2. Len(client.got) = tmp.read /\ tmp.read = Len(tmp.data)
        BY <1>0, <2>2, <3>2, <4>1, Zenon DEF SentPart, Awake
      <4> QED BY <4>2, Zenon
    <3> QED BY <1>0, <3>1, <3>2, Zenon
  <2>5. SubSeq(tmp.data, 1, Len(tmp.data)) = tmp.data
    <3>1. tmp.data \in Sq
      BY <1>0, Zenon DEF BodyTypes
    <3> QED BY <3>1 DEF Sq
  <2> QED BY <2>2, <2>3, <2>4, <2>5, Zenon DEF SentPart
<1>6. BodyWhole'
  BY <1>0, Zenon DEF BodyWhole
<1> QED BY <1>1, <1>2, <1>3, <1>4, <1>5, <1>6, Zenon DEF BodyInv

\* The end of the response: what the client and the cache have is the whole body.
LEMMA CompleteWhole ==
  ASSUME BodyTypes, Kept, Flow, Relayed, Complete
  PROVE  BodyWhole'
<1>0. /\ at = "end" /\ at' = "over" /\ res' = WriteEndResult
      /\ client' = [client EXCEPT !.over = IF res' \in Errors THEN "shut" ELSE "finished"]
      /\ UNCHANGED <<plan, up, held, tmp>>
  BY Zenon DEF Complete
<1>1. /\ client'.got = client.got
      /\ client'.over = "finished" => res' # "failed"
  BY <1>0, Zenon DEF BodyTypes, Errors
<1>2. /\ store'.got = store.got
      /\ store'.ready => res' # "failed" /\ store.in # "no"
  <2>0. PICK ready \in BOOLEAN :
          /\ ready = (res' \notin Errors /\ store.in # "no" /\ plan.partial # "some")
          /\ \E r \in DiskClosed(ready) : store' = [store EXCEPT !.ready = r]
    BY Zenon DEF Complete
  <2>1. PICK r \in DiskClosed(ready) : store' = [store EXCEPT !.ready = r]
    BY <2>0, Zenon
  <2>2. r => ready
    BY <2>1, Zenon DEF DiskClosed
  <2>3. store'.got = store.got /\ store'.ready = r
    BY <2>1, Zenon DEF BodyTypes
  <2> QED BY <2>0, <2>2, <2>3, Zenon DEF Errors
<1>3. SUFFICES ASSUME res' # "failed"
               PROVE  /\ Image(client.got) \/ (SenderFailed)'
                      /\ store.in # "no" => Image(store.got)
                      /\ UpstreamComplete \/ Unnoticed
  <2>1. (Image(client.got))' = Image(client.got) /\ (Image(store.got))' = Image(store.got)
    BY <1>0, <1>1, <1>2, SMTT(30) DEF Image
  <2>2. UpstreamComplete' = UpstreamComplete /\ Unnoticed' = Unnoticed
    BY <1>0, Zenon DEF UpstreamComplete, Unnoticed, Announced, Compressor
  <2> QED BY <1>0, <1>1, <1>2, <2>1, <2>2, Zenon DEF BodyWhole
<1>4. /\ res # "failed" /\ res' = res
      /\ res = "ok" /\ Announced(plan) => ~(Len(client.got) < Pieces)
  BY <1>0, <1>3, Zenon DEF WriteEndResult, BodyTypes, Results, Errors
<1>5. /\ Image(Written(tmp, client)) /\ (plan.framing = "chunked" => up.ended)
      /\ store.in # "no" => store.got = Written(tmp, client)
  BY <1>0, <1>4, Zenon DEF Flow
<1>6. Image(client.got) \/ SenderFailed'
  <2>1. CASE ~plan.fcgi
    BY <1>5, <2>1, Zenon DEF Written
  <2>2. CASE plan.fcgi /\ client.got = tmp.data
    BY <1>5, <2>2, Zenon DEF Written
  <2>3. CASE plan.fcgi /\ client.got # tmp.data
    <3>1. res = "end" /\ SentPart(tmp, client.got, sender, sent)
      BY <1>0, <1>4, <2>3, Zenon DEF Relayed, BodyTypes, Results, Errors
    <3>2. SubSeq(tmp.data, 1, Len(tmp.data)) = tmp.data /\ Len(tmp.data) \in Nat
          /\ Len(client.got) \in Nat
      <4>1. tmp.data \in Sq /\ client.got \in Sq
        BY Zenon DEF BodyTypes
      <4> QED BY <4>1 DEF Sq
    <3>3. Len(client.got) # Len(tmp.data) /\ Len(client.got) <= Len(tmp.data)
      BY <2>3, <3>1, <3>2, Zenon DEF SentPart
    <3> QED BY <1>0, <1>1, <1>4, <2>3, <3>1, <3>2, <3>3, SMTT(30) DEF SenderFailed
  <2> QED BY <2>1, <2>2, <2>3, Zenon
<1>7. UpstreamComplete \/ Unnoticed
  <2>1. CASE plan.framing = "chunked"
    BY <1>5, <2>1, Zenon DEF UpstreamComplete
  <2>2. CASE plan.framing # "chunked" /\ ~Announced(plan)
    BY <2>2, Zenon DEF Unnoticed
  <2>3. CASE Announced(plan)
    <3>1. /\ plan.framing = "length" /\ Compressor(plan) = "no" /\ ~held.stopped /\ res = "ok"
      BY <1>4, <2>3, Zenon DEF Announced, Kept, BodyTypes, Results, Errors
    <3>2. Written(tmp, client) = In(up.sent)
      BY <1>5, <3>1, Zenon DEF Image, In
    <3>3. client.got = Written(tmp, client)
      BY <1>0, <1>4, <3>1, Zenon DEF Written, Relayed
    <3>4. up.sent \in 0..Pieces /\ Len(client.got) = up.sent
      <4>1. up.sent \in 0..Pieces
        BY Zenon DEF BodyTypes
      <4>2. up.sent \in Nat
        BY <4>1, SMTT(30)
      <4>3. Len(In(up.sent)) = up.sent
        BY <4>2, NextIn, Zenon
      <4> QED BY <3>2, <3>3, <4>1, <4>3, Zenon
    <3>5. up.sent = Pieces
      BY <1>4, <2>3, <3>1, <3>4, SMTT(30)
    <3> QED BY <3>1, <3>5, Zenon DEF UpstreamComplete
  <2> QED BY <2>1, <2>2, <2>3, Zenon
<1> QED BY <1>5, <1>6, <1>7, Zenon

LEMMA CompleteStep == ASSUME BodyInv, Complete PROVE BodyInv'
<1>0. /\ BodyTypes /\ Kept /\ Awake /\ Flow /\ Relayed /\ at = "end" /\ at' = "over"
      /\ res' = WriteEndResult
      /\ client' = [client EXCEPT !.over = IF res' \in Errors THEN "shut" ELSE "finished"]
      /\ UNCHANGED <<plan, up, held, tmp, sender, sent>>
  BY Zenon DEF BodyInv, Complete
<1>1. store' \in StoreType
  <2>0. PICK ready \in BOOLEAN : \E r \in DiskClosed(ready) : store' = [store EXCEPT !.ready = r]
    BY <1>0, Zenon DEF Complete
  <2>1. PICK r \in DiskClosed(ready) : store' = [store EXCEPT !.ready = r]
    BY <2>0, Zenon
  <2>2. r \in BOOLEAN
    BY <2>1, Zenon DEF DiskClosed
  <2> QED BY <1>0, <2>1, <2>2, Zenon DEF BodyTypes, StoreType
<1>2. client' \in ClientType
  BY <1>0, Zenon DEF BodyTypes, ClientType
<1>3. res' \in Results /\ (res' = "end" => plan.framing = "chunked")
  BY <1>0, Zenon DEF WriteEndResult, BodyTypes, Kept, Results, Errors
<1>4. BodyTypes'
  BY <1>0, <1>1, <1>2, <1>3, ZenonT(30) DEF BodyTypes, StoreType, ClientType
<1>5. Kept'
  BY <1>0, <1>3, Zenon DEF Kept
<1>6. Awake'
  BY <1>0, Zenon DEF Awake, SenderAwake
<1>7. Flow' /\ Relayed'
  BY <1>0, Zenon DEF Flow, Relayed
<1>8. BodyWhole'
  BY <1>0, CompleteWhole, Zenon DEF BodyInv
<1> QED BY <1>4, <1>5, <1>6, <1>7, <1>8, Zenon DEF BodyInv

-----------------------------------------------------------------------------
(* The steps of the sender *)

\* A step of the sender: it is awake, so the response is not over and goes through the
\* temporary file; nothing but the sender, the client and where it reads changes.
LEMMA SenderStep ==
  ASSUME BodyInv, sender \in {"read", "send"}, UNCHANGED <<plan, up, held, store, at, res>>,
         tmp' \in TmpType, tmp'.data = tmp.data, tmp'.read <= Len(tmp.data),
         tmp'.take <= tmp'.read, client' \in ClientType,
         sender' \in {"read", "parked", "send", "done"}, sent' \in {"ok", "failed"},
         tmp'.end = tmp.end \/ (tmp'.end /\ tmp'.closed),
         tmp.closed => tmp'.closed, tmp'.closed => tmp.closed \/ tmp'.end,
         tmp'.closed # tmp.closed => sent' = "failed",
         sender' = "done" /\ sent' = "ok" => tmp'.end /\ ~tmp'.closed /\ tmp'.read = Len(tmp.data),
         sender' = "parked" => tmp'.read = Len(tmp.data) /\ ~tmp'.end /\ ~tmp'.closed,
         res # "failed" /\ SentPart(tmp, client.got, sender, sent) =>
           SentPart(tmp', client'.got, sender', sent')
  PROVE  BodyInv'
<1>0. BodyTypes /\ Kept /\ Awake /\ Flow /\ Relayed
  BY Zenon DEF BodyInv
<1>1. plan.fcgi /\ at \notin {"end", "over"}
  BY <1>0, Zenon DEF Awake
<1>2. BodyTypes'
  BY <1>0 DEF BodyTypes, TmpType, ClientType
<1>3. Kept'
  BY <1>0, Zenon DEF Kept
<1>4. Awake'
  <2>1. SenderAwake'
    BY <1>0, <1>1, Zenon DEF Awake, SenderAwake
  <2>2. plan.fcgi /\ at \in {"join", "end", "over"} => tmp'.end
    BY <1>0, Zenon DEF Awake
  <2>3. tmp'.end => tmp'.closed \/ at \in {"join", "end", "over"}
    BY <1>0, Zenon DEF Awake
  <2> QED BY <1>0, <1>1, <2>1, <2>2, <2>3, Zenon DEF Awake
<1>5. Flow'
  BY <1>0, <1>1, Zenon DEF Flow, Carried, Out, Written, Image
<1>6. Relayed'
  BY <1>0, <1>1, Zenon DEF Relayed
<1>7. BodyWhole'
  BY <1>1, Zenon DEF BodyWhole
<1> QED BY <1>2, <1>3, <1>4, <1>5, <1>6, <1>7, Zenon DEF BodyInv

LEMMA SenderRests == ASSUME BodyInv, ReadFails \/ ReadEnds \/ Park PROVE BodyInv'
<1>0. /\ BodyTypes /\ sender = "read" /\ UNCHANGED <<plan, up, held, store, tmp, client, at, res>>
      /\ \/ sender' = "done" /\ sent' = "failed"
         \/ sender' = "done" /\ sent' = "ok" /\ tmp.end /\ ~tmp.closed /\ tmp.read = Len(tmp.data)
         \/ sender' = "parked" /\ sent' = sent /\ ~tmp.closed /\ ~tmp.end /\ tmp.read = Len(tmp.data)
  BY Zenon DEF BodyInv, ReadFails, ReadEnds, Park, SenderEnds
<1>1. tmp' \in TmpType /\ client' \in ClientType /\ tmp'.read <= Len(tmp.data)
      /\ tmp'.take <= tmp'.read /\ sent' \in {"ok", "failed"}
      /\ sender' \in {"read", "parked", "send", "done"}
  BY <1>0, Zenon DEF BodyTypes, TmpType, ClientType
<1>2. SentPart(tmp, client.got, sender, sent) => SentPart(tmp', client'.got, sender', sent')
  BY <1>0, Zenon DEF SentPart
<1> QED BY <1>0, <1>1, <1>2, SenderStep, Zenon

LEMMA ReadSomeStep == ASSUME BodyInv, ReadSome PROVE BodyInv'
<1>0. /\ BodyTypes /\ sender = "read" /\ UNCHANGED <<plan, up, held, store, client, at, res, sent>>
      /\ sender' = "send" /\ ~tmp.closed
  BY Zenon DEF BodyInv, ReadSome
<1>1. PICK n \in 1..(Len(tmp.data) - tmp.read) : tmp' = [tmp EXCEPT !.read = @ + n, !.take = n]
  BY Zenon DEF ReadSome
<1>2. Len(tmp.data) \in Nat /\ tmp.read \in Nat /\ tmp \in TmpType
  BY <1>0 DEF BodyTypes, Sq, TmpType
<1>3. /\ tmp' \in TmpType /\ tmp'.data = tmp.data /\ tmp'.read = tmp.read + n /\ tmp'.take = n
      /\ tmp'.end = tmp.end /\ tmp'.closed = tmp.closed
  <2>1. n \in Nat /\ tmp.read + n \in Nat
    BY <1>2, SMTT(30)
  <2> QED BY <1>1, <1>2, <2>1, Zenon DEF TmpType
<1>4. tmp'.read <= Len(tmp.data) /\ tmp'.take <= tmp'.read /\ tmp'.read - tmp'.take = tmp.read
  BY <1>2, <1>3, SMTT(30)
<1>5. SentPart(tmp, client.got, sender, sent) => SentPart(tmp', client'.got, sender', sent')
  BY <1>0, <1>3, <1>4, Zenon DEF SentPart
<1>6. client' \in ClientType /\ sent' \in {"ok", "failed"}
  BY <1>0, Zenon DEF BodyTypes, ClientType
<1> QED BY <1>0, <1>3, <1>4, <1>5, <1>6, SenderStep, Zenon

LEMMA SendSomeStep == ASSUME BodyInv, SendSome PROVE BodyInv'
<1>0. /\ BodyTypes /\ sender = "send" /\ UNCHANGED <<plan, up, held, store, at, res>>
  BY Zenon DEF BodyInv, SendSome
<1>1. /\ Len(tmp.data) \in Nat /\ tmp.read \in Nat /\ tmp.take \in Nat /\ tmp \in TmpType
      /\ client \in ClientType /\ tmp.read <= Len(tmp.data) /\ tmp.take <= tmp.read
      /\ tmp.data \in Seq(Nat) /\ client.got \in Sq
  BY <1>0 DEF BodyTypes, Sq, TmpType, ClientType
<1>2. CASE /\ client' = [client EXCEPT !.got = @ \o SubSeq(tmp.data, tmp.read - tmp.take + 1, tmp.read)]
           /\ sender' = "read" /\ UNCHANGED <<sent, tmp>>
  <2> DEFINE part == SubSeq(tmp.data, tmp.read - tmp.take + 1, tmp.read)
  <2>1. part \in Sq
    BY <1>1, SMTT(30) DEF Sq
  <2>2. client.got \o part \in Sq
    BY <1>1, <2>1, Joined, Zenon
  <2> HIDE DEF part
  <2>3. client' \in ClientType /\ client'.got = client.got \o part
    BY <1>1, <1>2, <2>2, Zenon DEF ClientType, part
  <2>4. ASSUME SentPart(tmp, client.got, sender, sent)
        PROVE  SentPart(tmp', client'.got, sender', sent')
    <3>1. client.got = SubSeq(tmp.data, 1, tmp.read - tmp.take)
      BY <1>0, <2>4, Zenon DEF SentPart
    <3>2. client.got \o part = SubSeq(tmp.data, 1, tmp.read)
      BY <1>1, <3>1, Halves, ZenonT(30) DEF part
    <3>3. Len(SubSeq(tmp.data, 1, tmp.read)) = tmp.read
      BY <1>1
    <3> QED BY <1>1, <1>2, <2>3, <3>2, <3>3, Zenon DEF SentPart
  <2>5. sent' \in {"ok", "failed"}
    BY <1>0, <1>2, Zenon DEF BodyTypes
  <2> QED BY <1>0, <1>1, <1>2, <2>3, <2>4, <2>5, SenderStep, Zenon
<1>3. CASE /\ sender' = "done" /\ sent' = "failed" /\ UNCHANGED client
           /\ tmp' = [tmp EXCEPT !.closed = TRUE, !.end = TRUE]
  <2>1. /\ tmp' \in TmpType /\ tmp'.data = tmp.data /\ tmp'.read = tmp.read /\ tmp'.take = tmp.take
        /\ tmp'.closed /\ tmp'.end
    BY <1>1, <1>3, Zenon DEF TmpType
  <2>2. SentPart(tmp, client.got, sender, sent) => SentPart(tmp', client'.got, sender', sent')
    BY <1>3, <2>1, Zenon DEF SentPart
  <2> QED BY <1>0, <1>1, <1>3, <2>1, <2>2, SenderStep, Zenon
<1> QED BY <1>2, <1>3, Zenon DEF SendSome, SenderEnds

-----------------------------------------------------------------------------
(* The theorems *)

LEMMA BodyInvInit == BodyInit => BodyInv
<1> SUFFICES ASSUME BodyInit PROVE BodyInv
  OBVIOUS
<1>0. /\ up = [sent |-> 0, ended |-> FALSE, bye |-> FALSE]
      /\ held = [chunk |-> <<>>, filter |-> <<>>, zip |-> <<>>, stopped |-> FALSE]
      /\ tmp = [data |-> <<>>, read |-> 0, take |-> 0, end |-> FALSE, closed |-> FALSE]
      /\ client = [got |-> <<>>, over |-> "no"] /\ plan \in Answers
      /\ at = "read" /\ res = "ok" /\ sender = "none" /\ sent = "ok"
  BY Zenon DEF BodyInit
<1>1. plan.cache \in {"no", "memory", "disk"}
  BY <1>0, AnswersAssumption, Zenon DEF Answer
<1>2. store \in [in : {"no", "memory", "disk"}, got : {<<>>}, ready : {FALSE}]
  BY <1>1, Zenon DEF BodyInit, Opened, CacheLayer
<1>3. <<>> \in Sq /\ Len(<<>>) = 0 /\ <<>> \o <<>> = <<>> /\ In(0) = <<>>
  BY DEF Sq, In
<1>4. BodyTypes
  <2>1. /\ up \in [sent : 0..Pieces, ended : BOOLEAN, bye : BOOLEAN]
        /\ held \in [chunk : Sq, filter : Sq, zip : Sq, stopped : BOOLEAN]
    BY <1>0, <1>3, SMTT(30)
  <2>3. store \in [in : {"no", "memory", "disk"}, got : Sq, ready : BOOLEAN]
    BY <1>2, <1>3, Zenon
  <2>2. /\ tmp \in [data : Sq, read : Nat, take : Nat, end : BOOLEAN, closed : BOOLEAN]
        /\ tmp.read <= Len(tmp.data) /\ tmp.take <= tmp.read
        /\ client \in [got : Sq, over : {"no", "shut", "finished"}]
    BY <1>0, <1>3, SMTT(30)
  <2> QED BY <1>0, <2>1, <2>2, <2>3, Zenon DEF BodyTypes, Results
<1>5. Kept /\ Awake
  BY <1>0, <1>3, Zenon DEF Kept, Awake, SenderAwake
<1>6. Flow
  <2>1. Written(tmp, client) = <<>>
    BY <1>0, Zenon DEF Written
  <2> QED BY <1>0, <1>2, <1>3, <2>1, Zenon DEF Flow, Carried, Out
<1>7. Relayed
  <2>1. SubSeq(<<>>, 1, 0) = <<>>
    OBVIOUS
  <2> QED BY <1>0, <1>3, <2>1, SMTT(30) DEF Relayed, SentPart, NotStarted
<1>8. BodyWhole
  BY <1>0, Zenon DEF BodyWhole
<1> QED BY <1>4, <1>5, <1>6, <1>7, <1>8, Zenon DEF BodyInv

LEMMA BodyInvStep == BodyInv /\ [BodyNext]_bodyVars => BodyInv'
<1> SUFFICES ASSUME BodyInv, [BodyNext]_bodyVars PROVE BodyInv'
  BY Zenon
<1>1. CASE Flush \/ Receive \/ LastChunk
  BY <1>1, FlushStep, ReceiveStep, LastChunkStep, Zenon
<1>2. CASE Eof \/ Break \/ EndRequest \/ LengthReached
  BY <1>2, EndsStep, Zenon
<1>3. CASE Close \/ WriteEnd \/ Join \/ Complete
  BY <1>3, CloseStep, WriteEndStep, JoinStep, CompleteStep, Zenon
<1>4. CASE ReadFails \/ ReadEnds \/ Park
  BY <1>4, SenderRests, Zenon
<1>5. CASE ReadSome \/ SendSome
  BY <1>5, ReadSomeStep, SendSomeStep, Zenon
<1>6. CASE UNCHANGED bodyVars
  <2>1. UNCHANGED <<plan, up, held, store, tmp, client, at, res, sender, sent>>
    BY <1>6, ZenonT(30) DEF bodyVars
  <2>2. BodyTypes' /\ Kept' /\ Awake' /\ Relayed'
    BY <2>1 DEF BodyInv, BodyTypes, Kept, Awake, SenderAwake, Relayed, SentPart, NotStarted
  <2>3. Flow'
    BY <2>1, Zenon DEF BodyInv, Flow, Carried, Out, Written, Image
  <2>4. BodyWhole'
    BY <2>1, Zenon DEF BodyInv, BodyWhole, Image, SenderFailed, UpstreamComplete, Unnoticed
  <2> QED BY <2>2, <2>3, <2>4, Zenon DEF BodyInv
<1> QED BY <1>1, <1>2, <1>3, <1>4, <1>5, <1>6, Zenon DEF BodyNext, Fetching, Closing, Sending

\* The sender of a temporary file (KTempFile::Read) is never asleep when there is something
\* to read, or when the file has ended or was closed: whatever the upstream sends and
\* whichever call fails.
THEOREM SenderAlwaysAwake == BodySpec => []SenderAwake
<1>1. BodyInv => SenderAwake
  BY Zenon DEF BodyInv, Awake
<1> QED BY <1>1, BodyInvInit, BodyInvStep, PTL DEF BodySpec

\* A response ends as a complete one, for the client (write_end) or the cache (cache_close),
\* only with every piece the upstream sent, once and in order, through every combination of
\* stages; and only when the upstream had sent all of it or the code has no means to know.
THEOREM BodyAlwaysWhole == BodySpec => []BodyWhole
<1>1. BodyInv => BodyWhole
  BY Zenon DEF BodyInv
<1> QED BY <1>1, BodyInvInit, BodyInvStep, PTL DEF BodySpec
=============================================================================
