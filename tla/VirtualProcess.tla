--------------------------- MODULE VirtualProcess ---------------------------
(***************************************************************************)
(* The worker processes of one application, as KProcessManage keeps them   *)
(* in single-process mode (KSPCmdProcess and KApiProcess, which share the  *)
(* protocol of KVirtualHostProcess).  pools maps the application to one    *)
(* KVirtualHostProcess, an object that starts one child on demand, hands   *)
(* out connections to it and is replaced when it is closed.                *)
(*                                                                         *)
(* Three locks are involved, and no step holds two of them except a kill:  *)
(* KProcessManage::lock (the map and the reference it owns),               *)
(* KVirtualHostProcess::lock (status and the queue of waiters) and stLock  *)
(* (the child).  A step below is one critical section or one unlocked      *)
(* access.  Requests run on fibers of several selector threads, and Power  *)
(* suspends the fiber while a pool thread creates the child.               *)
(*                                                                         *)
(* Time and counts (idleTime, lastCheckTime, error_count) only decide      *)
(* whether a step may happen, so they are left to choice.                  *)
(***************************************************************************)
EXTENDS FiniteSets, Integers

CONSTANTS VP,     \* addresses of KVirtualHostProcess objects
          Rq,     \* requests, each wants one connection
          NULL

ASSUME NullIsNoProcess == NULL \notin VP \cup {"up", "down"}
ASSUME RequestsFinite == IsFiniteSet(Rq)

VARIABLES
    pool,     \* pools[app], or NULL
    live,     \* objects constructed and not yet destroyed
    refs,     \* KCountable's counter of each object
    status,   \* VProcess_Status
    st,       \* the child: NULL, or running ("up"), or exited ("down")
    queue,    \* fibers parked by GetUpstream until the start is over
    pc,       \* where each request is
    gc,       \* the object a request took from the pool (GetUpstream's gc)
    us        \* the object whose connection a request holds, or NULL

vars == <<pool, live, refs, status, st, queue, pc, gc, us>>

Statuses == {"Poweroff", "Inprogress", "Poweron", "Close"}

\* PCs at which the request is the one that starts the child of gc[r]
Starting == {"power", "result", "connecting", "notice"}

\* PCs between refsVirtualHostProcess and the release at its end
Inside == Starting \cup {"get", "lock", "wait", "connect", "check", "close", "release"}

\* The type invariant: every variable holds what its declaration says.
TypeOK ==
    /\ pool \in VP \cup {NULL}
    /\ live \subseteq VP
    /\ refs \in [VP -> Nat]
    /\ status \in [VP -> Statuses]
    /\ st \in [VP -> {NULL, "up", "down"}]
    /\ queue \in [VP -> SUBSET Rq]
    /\ pc \in [Rq -> Inside \cup {"start", "using", "finish", "done"}]
    /\ gc \in [Rq -> VP \cup {NULL}]
    /\ us \in [Rq -> VP \cup {NULL}]

Init ==
    /\ pool = NULL
    /\ live = {}
    /\ refs = [v \in VP |-> 0]
    /\ status = [v \in VP |-> "Poweroff"]
    /\ st = [v \in VP |-> NULL]
    /\ queue = [v \in VP |-> {}]
    /\ pc = [r \in Rq |-> "start"]
    /\ gc = [r \in Rq |-> NULL]
    /\ us = [r \in Rq |-> NULL]

-----------------------------------------------------------------------------
(* References.  The last release destroys the object, and its destructor   *)
(* deletes the child.                                                      *)

Release(v) ==
    /\ refs' = [refs EXCEPT ![v] = @ - 1]
    /\ live' = IF refs[v] = 1 THEN live \ {v} ELSE live

DestroyIfLast(v, child) == IF refs[v] = 1 THEN NULL ELSE child

-----------------------------------------------------------------------------
(* KProcessManage::refsVirtualHostProcess *)

NewProcess(r, v) ==
    /\ v \notin live
    /\ pool' = v
    /\ status' = [status EXCEPT ![v] = "Poweroff"]
    /\ queue' = [queue EXCEPT ![v] = {}]
    /\ gc' = [gc EXCEPT ![r] = v]

RefsPooled(r) ==
    /\ pc[r] = "start"
    /\ pool # NULL
    /\ status[pool] # "Close"
    /\ refs' = [refs EXCEPT ![pool] = @ + 1]
    /\ gc' = [gc EXCEPT ![r] = pool]
    /\ pc' = [pc EXCEPT ![r] = "get"]
    /\ UNCHANGED <<pool, live, status, st, queue, us>>

RefsCreate(r) ==
    /\ pc[r] = "start"
    /\ pool = NULL
    /\ \E v \in VP :
        /\ NewProcess(r, v)
        /\ refs' = [refs EXCEPT ![v] = 2]
        /\ st' = [st EXCEPT ![v] = NULL]
        /\ live' = live \cup {v}
    /\ pc' = [pc EXCEPT ![r] = "get"]
    /\ UNCHANGED us

\* A closed process is dropped from the map and replaced in the same section.
RefsRecreate(r) ==
    /\ pc[r] = "start"
    /\ pool # NULL
    /\ status[pool] = "Close"
    /\ \E v \in VP :
        /\ NewProcess(r, v)
        /\ refs' = [refs EXCEPT ![pool] = @ - 1, ![v] = 2]
        /\ st' = [st EXCEPT ![pool] = DestroyIfLast(pool, @), ![v] = NULL]
        /\ live' = (IF refs[pool] = 1 THEN live \ {pool} ELSE live) \cup {v}
    /\ pc' = [pc EXCEPT ![r] = "get"]
    /\ UNCHANGED us

-----------------------------------------------------------------------------
(* KVirtualHostProcess::GetUpstream *)

Goto(r, place) == pc' = [pc EXCEPT ![r] = place]

\* The first look at status takes no lock.
GetUpstream(r) ==
    /\ pc[r] = "get"
    /\ Goto(r, IF status[gc[r]] = "Poweron" THEN "connect" ELSE "lock")
    /\ UNCHANGED <<pool, live, refs, status, st, queue, gc, us>>

GetOn(r) ==
    /\ pc[r] = "lock"
    /\ status[gc[r]] = "Poweron"
    /\ Goto(r, "connect")
    /\ UNCHANGED <<pool, live, refs, status, st, queue, gc, us>>

GetStarts(r) ==
    /\ pc[r] = "lock"
    /\ status[gc[r]] \in {"Poweroff", "Close"}
    /\ status' = [status EXCEPT ![gc[r]] = "Inprogress"]
    /\ Goto(r, "power")
    /\ UNCHANGED <<pool, live, refs, st, queue, gc, us>>

GetWaits(r) ==
    /\ pc[r] = "lock"
    /\ status[gc[r]] = "Inprogress"
    /\ queue' = [queue EXCEPT ![gc[r]] = @ \cup {r}]
    /\ Goto(r, "wait")
    /\ UNCHANGED <<pool, live, refs, status, st, gc, us>>

\* Power: the pool thread could not be started, or PowerThread failed.
PowerFails(r) ==
    /\ pc[r] = "power"
    /\ Goto(r, "notice")
    /\ UNCHANGED <<pool, live, refs, status, st, queue, gc, us>>

\* Power: the child runs, but the object does not know it yet.
PowerWorks(r) ==
    /\ pc[r] = "power"
    /\ Goto(r, "result")
    /\ UNCHANGED <<pool, live, refs, status, st, queue, gc, us>>

\* PowerResult under stLock: the previous child, if any, is deleted; the
\* conversion of the address can fail, which skips the connection attempts.
PowerResult(r) ==
    /\ pc[r] = "result"
    /\ st' = [st EXCEPT ![gc[r]] = "up"]
    /\ \E place \in {"connecting", "notice"} : Goto(r, place)
    /\ UNCHANGED <<pool, live, refs, status, queue, gc, us>>

\* try_connect succeeds within its ten attempts; bind adds a reference.
TryConnectWorks(r) ==
    /\ pc[r] = "connecting"
    /\ us' = [us EXCEPT ![r] = gc[r]]
    /\ refs' = [refs EXCEPT ![gc[r]] = @ + 1]
    /\ Goto(r, "notice")
    /\ UNCHANGED <<pool, live, status, st, queue, gc>>

TryConnectFails(r) ==
    /\ pc[r] = "connecting"
    /\ Goto(r, "notice")
    /\ UNCHANGED <<pool, live, refs, status, st, queue, gc, us>>

Woken(r, result) ==
    [q \in Rq |->
        IF q = r THEN "release"
        ELSE IF q \in queue[gc[r]] THEN (IF result THEN "connect" ELSE "release")
        ELSE pc[q]]

\* Mutant: the waiters stay in the queue when the start has failed.
NoticeWakesOnSuccess(r) ==
    /\ pc[r] = "notice"
    /\ LET result == us[r] # NULL IN
        /\ status' = [status EXCEPT ![gc[r]] = IF result THEN "Poweron" ELSE "Poweroff"]
        /\ IF result
           THEN /\ pc' = Woken(r, TRUE)
                /\ queue' = [queue EXCEPT ![gc[r]] = {}]
           ELSE Goto(r, "release") /\ UNCHANGED queue
    /\ UNCHANGED <<pool, live, refs, st, gc, us>>

NoticePowerResult(r) ==
    /\ pc[r] = "notice"
    /\ LET result == us[r] # NULL IN
        /\ status' = [status EXCEPT ![gc[r]] = IF result THEN "Poweron" ELSE "Poweroff"]
        /\ pc' = Woken(r, result)
    /\ queue' = [queue EXCEPT ![gc[r]] = {}]
    /\ UNCHANGED <<pool, live, refs, st, gc, us>>

-----------------------------------------------------------------------------
(* KVirtualHostProcess::Connect *)

\* A pooled idle connection or a new one.  An idle connection may be handed
\* out although its child has gone.
ConnectWorks(r) ==
    /\ pc[r] = "connect"
    /\ us' = [us EXCEPT ![r] = gc[r]]
    /\ refs' = [refs EXCEPT ![gc[r]] = @ + 1]
    /\ Goto(r, "release")
    /\ UNCHANGED <<pool, live, status, st, queue, gc>>

\* No socket could be opened, or the connection was refused, which is
\* reported to health.
ConnectFails(r) ==
    /\ pc[r] = "connect"
    /\ \E place \in {"check", "release"} : Goto(r, place)
    /\ UNCHANGED <<pool, live, refs, status, st, queue, gc, us>>

\* The object an error is reported to, and where the request goes after that.
Container(r) == IF gc[r] # NULL THEN gc[r] ELSE us[r]

AfterHealth(r) == Goto(r, IF gc[r] # NULL THEN "release" ELSE "finish")

\* health(Err), first half.  Within five seconds of the last check, or while
\* the child is active and errors are below the limit, nothing is done; the
\* limit makes a close possible whatever the child does.
HealthCheck(r) ==
    /\ pc[r] = "check"
    /\ Goto(r, "close") \/ AfterHealth(r)
    /\ UNCHANGED <<pool, live, refs, status, st, queue, gc, us>>

\* health(Err), second half, under lock.  The decision may be old by now.
HealthClose(r) ==
    /\ pc[r] = "close"
    /\ status' = [status EXCEPT ![Container(r)] = IF @ = "Inprogress" THEN @ ELSE "Close"]
    /\ AfterHealth(r)
    /\ UNCHANGED <<pool, live, refs, st, queue, gc, us>>

\* gc->release() at the end of KProcessManage::GetUpstream.
EndGetUpstream(r) ==
    /\ pc[r] = "release"
    /\ Release(gc[r])
    /\ st' = [st EXCEPT ![gc[r]] = DestroyIfLast(gc[r], @)]
    /\ gc' = [gc EXCEPT ![r] = NULL]
    /\ Goto(r, IF us[r] = NULL THEN "done" ELSE "using")
    /\ UNCHANGED <<pool, status, queue, us>>

\* A new connection broke before it answered: the request reports it.
UseFails(r) ==
    /\ pc[r] = "using"
    /\ Goto(r, "check")
    /\ UNCHANGED <<pool, live, refs, status, st, queue, gc, us>>

\* The request is over: its connection is pooled or closed, and the
\* reference it held on its container goes with it.
Finish(r) ==
    /\ pc[r] \in {"using", "finish"}
    /\ Release(us[r])
    /\ st' = [st EXCEPT ![us[r]] = DestroyIfLast(us[r], @)]
    /\ us' = [us EXCEPT ![r] = NULL]
    /\ Goto(r, "done")
    /\ UNCHANGED <<pool, status, queue, gc>>

-----------------------------------------------------------------------------
(* The administrator, the timer and the child *)

\* KSPCmdProcess::killProcess under stLock: the child is deleted and the object
\* is closed, whatever its status.
killProcess(v) ==
    /\ st' = [st EXCEPT ![v] = NULL]
    /\ status' = [status EXCEPT ![v] = "Close"]

\* Mutant: the killed process stays in the map.
KillKeepsPooled ==
    /\ pool # NULL
    /\ killProcess(pool)
    /\ UNCHANGED <<pool, refs, live, queue, pc, gc, us>>

\* killProcess2 and killAllProcess: the map lets go of the killed process.
KillProcess ==
    /\ pool # NULL
    /\ killProcess(pool)
    /\ Release(pool)
    /\ pool' = NULL
    /\ UNCHANGED <<queue, pc, gc, us>>

\* Mutant: the idle process is taken out of the map but its reference stays.
RefreshForgets ==
    /\ pool # NULL
    /\ pool' = NULL
    /\ UNCHANGED <<refs, live, st, status, queue, pc, gc, us>>

\* refresh when canDestroy says the process has been idle, and clean.
Refresh ==
    /\ pool # NULL
    /\ Release(pool)
    /\ st' = [st EXCEPT ![pool] = DestroyIfLast(pool, @)]
    /\ pool' = NULL
    /\ UNCHANGED <<status, queue, pc, gc, us>>

ChildExit(v) ==
    /\ st[v] = "up"
    /\ st' = [st EXCEPT ![v] = "down"]
    /\ UNCHANGED <<pool, live, refs, status, queue, pc, gc, us>>

-----------------------------------------------------------------------------
Step(r) ==
    \/ RefsPooled(r) \/ RefsCreate(r) \/ RefsRecreate(r)
    \/ GetUpstream(r) \/ GetOn(r) \/ GetStarts(r) \/ GetWaits(r)
    \/ PowerFails(r) \/ PowerWorks(r) \/ PowerResult(r)
    \/ TryConnectWorks(r) \/ TryConnectFails(r) \/ NoticePowerResult(r)
    \/ ConnectWorks(r) \/ ConnectFails(r) \/ HealthCheck(r) \/ HealthClose(r)
    \/ EndGetUpstream(r) \/ UseFails(r) \/ Finish(r)

Next ==
    \/ \E r \in Rq : Step(r)
    \/ KillProcess
    \/ Refresh
    \/ \E v \in VP : ChildExit(v)

Spec == Init /\ [][Next]_vars

-----------------------------------------------------------------------------
(* Properties *)

Holders(v) == {r \in Rq : gc[r] = v}
Users(v) == {r \in Rq : us[r] = v}

\* The counter of every live object is the map's reference, plus one for each
\* request inside GetUpstream, plus one for each connection in use; an object
\* without references is destroyed, nothing points to a destroyed one, and as
\* ~KVirtualHostProcess asserts ("assert(queue == NULL)") and its subclasses do,
\* it has no waiter and leaves no child behind.
\* (KProcessManage.h refsVirtualHostProcess, KProcessManage.cpp GetUpstream,
\* refresh, killProcess2.)
RefsExact ==
    \A v \in VP :
        /\ refs[v] = Cardinality(Holders(v)) + Cardinality(Users(v))
                     + (IF pool = v THEN 1 ELSE 0)
        /\ v \in live <=> refs[v] > 0
        /\ v \notin live => queue[v] = {} /\ st[v] = NULL

\* A fiber parked in the queue has somebody who will wake it: as long as the
\* queue is not empty some request is between GetStarts and the end of
\* NoticePowerResult on that object, also when the object was killed, replaced
\* or started a second time meanwhile.
WaitersHaveStarter ==
    \A v \in VP : queue[v] # {} =>
        \E r \in Rq : gc[r] = v /\ pc[r] \in Starting

\* A process the map offers as running has a child (perhaps one that has
\* exited, which health notices).  killProcess and NoticePowerResult write
\* status under different locks, so this rests on a kill taking the object
\* out of the map before anything else can look it up.
PooledOnHasChild ==
    pool # NULL /\ status[pool] = "Poweron" => st[pool] # NULL

\* "正在启动中的进程不能改状态，否则会被重复启动" (KVirtualHostProcess.h:65): the status
\* of a process that is being started does not change, so that it is not
\* started twice.
StartedOnce ==
    \A v \in VP : Cardinality({r \in Holders(v) : pc[r] \in Starting}) <= 1
=============================================================================
