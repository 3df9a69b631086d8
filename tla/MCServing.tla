----------------------------- MODULE MCServing -----------------------------
(***************************************************************************)
(* The parts that serve requests, for TLC: the object cache, the worker     *)
(* processes in single- and multi-process mode, the way of a request        *)
(* through the server and its exchange with an upstream node.  They share   *)
(* no variable, so one instance checks them all: the initial state chooses  *)
(* the part that runs, and the others stay as they are.                     *)
(***************************************************************************)
EXTENDS RequestPath, UpstreamFetch

CONSTANTS Obj, Collectors, Killers, VP, NULL, r1, r2

VARIABLES part,
          life, flags, dirty, data, orefs, file, lost, hash,     \* ObjectCache
          objList, dropDead, mem_count, disk_count,
          clean_blocked, pc, obj, old_obj, swapped, waiter,
          window, gc, killer,
          pool, live, vrefs, status, st, queue, vpc, vgc, us,    \* VirtualProcess
          group, grefs, free, busy, kid, boss, call              \* MultiProcess

cacheVars == <<life, flags, dirty, data, orefs, file, lost, hash, objList, dropDead,
               mem_count, disk_count, clean_blocked, pc, obj, old_obj, swapped, waiter,
               window, gc, killer>>
processVars == <<pool, live, vrefs, status, st, queue, vpc, vgc, us>>
workersVars == <<group, grefs, free, busy, kid, boss, call>>
allVars == <<part, cacheVars, processVars, workersVars, pathVars, fetchVars>>

O == INSTANCE ObjectCache WITH Rq <- Req, refs <- orefs
V == INSTANCE VirtualProcess WITH Rq <- Req, refs <- vrefs, pc <- vpc, gc <- vgc
M == INSTANCE MultiProcess WITH
       Callers <- {1, 2}, Turns <- <<2, 1>>, Groups <- 1..2, Kids <- 1..3

\* The constants of RequestPath and UpstreamFetch.
PathSources == [r \in Req |-> IF r = r2 THEN {<<"queued">>}
                               ELSE {<<"local">>, <<"extension", "queued">>}]
NodeLists == {[v |-> <<"a", "b">>, b |-> <<>>], [v |-> <<"a">>, b |-> <<"b">>]}

ServingInit ==
  /\ part \in {"cache", "process", "workers", "path", "fetch"}
  /\ O!Init /\ V!Init /\ M!ProcInit /\ PathInit /\ FetchInit
  /\ part = "path" \/ line.room = 0
  /\ part = "fetch" \/ nodes.b = <<>>

ServingNext ==
  \/ part = "cache" /\ O!Next /\ UNCHANGED <<part, processVars, workersVars, pathVars, fetchVars>>
  \/ part = "process" /\ V!Next /\ UNCHANGED <<part, cacheVars, workersVars, pathVars, fetchVars>>
  \/ part = "workers" /\ M!ProcNext /\ UNCHANGED <<part, cacheVars, processVars, pathVars, fetchVars>>
  \/ part = "path" /\ PathNext /\ UNCHANGED <<part, cacheVars, processVars, workersVars, fetchVars>>
  \/ part = "fetch" /\ FetchNext /\ UNCHANGED <<part, cacheVars, processVars, workersVars, pathVars>>

\* The fairness of each part.  Request fibers, a collection and a purge under
\* way are running code.  rand() in getNodeIndex gives each index again and
\* again, and the timer of a disabled node runs out.
Fair ==
  /\ \A r \in Req : /\ WF_cacheVars(part = "cache" /\ O!RequestStep(r))
                    /\ WF_processVars(part = "process" /\ V!Step(r))
                    /\ WF_pathVars(part = "path" /\ Advance(r))
  /\ \A c \in Collectors : WF_cacheVars(part = "cache" /\ O!CollectorStep(c))
  /\ \A k \in Killers : WF_cacheVars(part = "cache" /\ O!KillerStep(k))
  /\ \A i \in 1..2 : /\ WF_workersVars(part = "workers" /\ M!Serve(i))
                     /\ SF_fetchVars(part = "fetch" /\ GetUpstream(r1, i))
  /\ WF_fetchVars(part = "fetch" /\ Step(r1))
  /\ \A o \in {"a", "b"} : WF_fetchVars(part = "fetch" /\ Due(<<nodes.gen, o>>))

ServingSpec == ServingInit /\ [][ServingNext]_allVars /\ Fair

-----------------------------------------------------------------------------
(* Properties; the others are those of RequestPath and UpstreamFetch *)

Requests == <<r1, r2>>
Origins == <<"a", "b">>
Waiting(i) ==
  CASE part = "cache" -> pc[Requests[i]] = "start"
    [] part = "process" -> vpc[Requests[i]] = "start"
    [] part = "workers" -> call[i].at = "start"
    [] part = "path" -> way[Requests[i]].at = "access"
    [] part = "fetch" -> SetAside(Origins[i])
Over(i) ==
  CASE part = "cache" -> pc[Requests[i]] = "done"
    [] part = "process" -> vpc[Requests[i]] = "done"
    [] part = "workers" -> call[i].at = "done"
    [] part = "path" -> way[Requests[i]].at = "done"
    [] part = "fetch" -> TriedAgain(Origins[i])

\* Every wait ends.  A request of the cache that waits for another's swap-in of a
\* body is woken, and nobody keeps a lock; who asks for a worker process or a
\* child gets a connection or a failure, is not sent from one dead child to the
\* next for ever, and gives it back; no error page leads to another for ever, and
\* who is in the queue of a source gets its turn; a primary node that failures
\* have disabled is tried again, enabled again or no longer listed.
EveryWaitEnds == \A i \in 1..2 : Waiting(i) ~> Over(i)

\* Each child of the multi-process mode has one owner (MultiProcess).
KidsOwned == M!KidsOwned
=============================================================================
