---------------------------- MODULE UpstreamFetch ----------------------------
(***************************************************************************)
(* Requests sent to the nodes of a KMultiAcserver (KMultiAcserver.cpp) by a *)
(* KAsyncFetchObject (KAsyncFetchObject.cpp): a node is chosen under the    *)
(* lock of the list, a connection comes from the node's pool or is opened,  *)
(* the request and its body are written, the answer is read, and the        *)
(* connection is pooled or closed.  A pooled connection that broke is       *)
(* replaced once by a new one.  Meanwhile a reload replaces the list.       *)
(*                                                                         *)
(* KSockPoolHelper (a node's error count, its timed probe and its pool) is  *)
(* external.  Every failing call of the outside world costs one of          *)
(* MaxFaults, so the faults of a behaviour end.                             *)
(***************************************************************************)
EXTENDS Naturals, Sequences, Functions, FiniteSetsExt

CONSTANTS Rq,         \* requests in flight
          Configs,    \* what a configuration may list: [v, b : Seq(Origin)],
                      \* v with each primary repeated by its weight
          MaxErrors,  \* max_error_count
          MaxReloads, \* reloads of the list
          MaxFaults   \* failing calls of origins and clients

\* What the constants are: lists of origins, finitely many requests.
FetchConstants ==
  /\ \A c \in Configs : c.v \in Seq(Range(c.v)) /\ c.b \in Seq(Range(c.b))
  /\ MaxReloads \in Nat /\ MaxErrors \in Nat \ {0}
  /\ IsFiniteSet(Rq)

ASSUME FetchAssumption == FetchConstants

VARIABLES
  nodes,   \* the list: its generation and the origins of vnodes and bnodes
  health,  \* [Node -> errors counted, and whether the node is on, off or due]
  refs,    \* [Node -> references]; the connections in a pool hold none
  idle,    \* [Node -> number of pooled connections in each condition]
  job,     \* the fetch of each request
  faults

fetchVars == <<nodes, health, refs, idle, job, faults>>

Origin == UNION {Range(c.v) \cup Range(c.b) : c \in Configs}
Node   == (0 .. MaxReloads) \X Origin
Listed == {<<nodes.gen, o>> : o \in Range(nodes.v) \cup Range(nodes.b)}

\* The requests the code tells apart: by a safe method, with a body that was
\* kept (request_body_replayable) or not, with Expect: 100-continue, with a
\* post fiber from the start (grpc) or after the header (an upgrade).
Kind(safe, body, replay, mode) ==
  [safe |-> safe, body |-> body, replay |-> replay, mode |-> mode]
Kinds == { Kind(TRUE, FALSE, FALSE, "plain"),  Kind(FALSE, TRUE, FALSE, "plain"),
           Kind(FALSE, TRUE, TRUE, "plain"),   Kind(FALSE, TRUE, FALSE, "expect"),
           Kind(FALSE, TRUE, FALSE, "grpc"),   Kind(TRUE, FALSE, FALSE, "upgrade") }

Conditions == {"clean", "unsent", "unread"}
Places == {"idle", "pick", "connect", "send", "post", "head", "continue", "body",
           "settle", "join"}

NoJob == [at |-> "idle", kind |-> CHOOSE k \in Kinds : k.safe, node |-> <<>>,
          conn |-> "none", retried |-> FALSE, hup |-> FALSE, took |-> FALSE,
          given |-> 0, done |-> FALSE, post |-> "none", res |-> "none"]

Set(r, j) == job' = [job EXCEPT ![r] = j]
Fault   == faults < MaxFaults /\ faults' = faults + 1
NoFault == UNCHANGED faults

-----------------------------------------------------------------------------
(* KSockPoolHelper *)

Fresh        == [errs |-> 0, mark |-> "on"]
Available(n) == health[n].mark \in {"on", "due"}
Failed(h) == LET e == Min({h.errs + 1, MaxErrors}) IN
             [errs |-> e, mark |-> IF e = MaxErrors THEN "off" ELSE h.mark]

\* The time until the next probe of a disabled node is over.
Due(n) ==
  /\ health[n].mark = "off" /\ n \in Listed
  /\ health' = [health EXCEPT ![n].mark = "due"]
  /\ UNCHANGED <<nodes, refs, idle, job, faults>>

\* The last reference destroys the node and its pool.
NoConns == [c \in Conditions |-> 0]
Drop(ns) ==
  /\ refs' = [n \in Node |-> IF n \in ns THEN refs[n] - 1 ELSE refs[n]]
  /\ idle' = [n \in Node |-> IF n \in ns /\ refs[n] = 1 THEN NoConns ELSE idle[n]]

-----------------------------------------------------------------------------
(* KMultiAcserver *)

Primary(i) == <<nodes.gen, nodes.v[i]>>
Backup(i)  == <<nodes.gen, nodes.b[i]>>

\* Where nextActiveNode looks: an odd index walks up, an even one down.
Walk(i) == LET n == Len(nodes.v) IN
  [k \in 1 .. n |-> Primary(IF i % 2 = 0 THEN ((i + k - 2) % n) + 1
                                         ELSE ((i + n - k) % n) + 1)]

\* Mutant: a disabled primary gets no probe.
EnabledOnly(walk) == {n \in Range(walk) : health[n].mark = "on"}

Usable(walk) == {n \in Range(walk) : Available(n)}
Enabled(backups) == {n \in Range(backups) : health[n].mark = "on"}

\* Mutant: the node is not referenced before the list is unlocked.
TakeUnheld(r, n) ==
  /\ health' = [health EXCEPT ![n].mark = IF @ = "due" THEN "off" ELSE @]
  /\ Set(r, [job[r] EXCEPT !.at = "connect", !.node = n])
  /\ UNCHANGED refs

\* The chosen node is referenced; one that is due has its probe with this.
Take(r, n) ==
  /\ health' = [health EXCEPT ![n].mark = IF @ = "due" THEN "off" ELSE @]
  /\ refs' = [refs EXCEPT ![n] = @ + 1]
  /\ Set(r, [job[r] EXCEPT !.at = "connect", !.node = n])

\* The first node of a sequence that belongs to S.
TakeFirst(r, seq, S) ==
  \E k \in DOMAIN seq : /\ seq[k] \in S /\ \A i \in 1 .. k - 1 : seq[i] \notin S
                        /\ Take(r, seq[k])

\* GetUpstream up to the unlock: the node of the chosen index, the next one
\* that is available, the fastest enabled backup, a backup that may be probed,
\* or, after enabling all nodes again, the first choice whatever its state.
Choose(r, walk) ==
  LET backups == [i \in DOMAIN nodes.b |-> Backup(i)] IN
  \/ TakeFirst(r, walk, Usable(walk))
  \/ /\ Usable(walk) = {}
     /\ \E n \in Enabled(backups) : Take(r, n)
  \/ /\ Usable(walk) = {} /\ Enabled(backups) = {}
     /\ TakeFirst(r, backups, Usable(backups))
  \/ /\ Usable(walk) = {} /\ Usable(backups) = {}
     /\ health' = [n \in Node |-> IF n \in Listed THEN Fresh ELSE health[n]]
     /\ IF walk # <<>>
        THEN /\ refs' = [refs EXCEPT ![walk[1]] = @ + 1]
             /\ Set(r, [job[r] EXCEPT !.at = "connect", !.node = walk[1]])
        ELSE /\ Set(r, [job[r] EXCEPT !.at = "settle", !.res = "error"])
             /\ UNCHANGED refs

GetUpstream(r, i) ==
  /\ job[r].at = "pick"
  /\ IF nodes.v = <<>> THEN Choose(r, <<>>)
     ELSE i \in DOMAIN nodes.v /\ Choose(r, Walk(i))
  /\ NoFault /\ UNCHANGED <<nodes, idle>>

\* on_config_event: all nodes are replaced, under the lock.
Reload(c) ==
  /\ nodes.gen < MaxReloads
  /\ nodes' = [gen |-> nodes.gen + 1, v |-> c.v, b |-> c.b]
  /\ LET new == {<<nodes.gen + 1, o>> : o \in Range(c.v) \cup Range(c.b)} IN
       /\ refs' = [n \in Node |-> IF n \in new THEN 1
                                  ELSE IF n \in Listed THEN refs[n] - 1 ELSE refs[n]]
       /\ idle' = [n \in Node |-> IF n \in Listed /\ refs[n] = 1 THEN NoConns
                                  ELSE idle[n]]
  /\ UNCHANGED <<health, job, faults>>

-----------------------------------------------------------------------------
(* KAsyncFetchObject *)

Begin(r, k) ==
  /\ job[r].at = "idle"
  /\ Set(r, [NoJob EXCEPT !.at = "pick", !.kind = k])
  /\ UNCHANGED <<nodes, health, refs, idle, faults>>

\* InternalProcess when the administrator has disabled the extension.
ExtendDisabled(r) ==
  /\ job[r].at = "pick" /\ Fault
  /\ Set(r, [job[r] EXCEPT !.at = "settle", !.res = "error"])
  /\ UNCHANGED <<nodes, health, refs, idle>>

\* connect_result: an idle connection unless the last one was in error
\* (get_upstream_flags), or a new one.  The reference taken by GetUpstream goes
\* over to the connection.
ConnectPooled(r, c) ==
  /\ job[r].at = "connect" /\ ~job[r].retried
  /\ idle[job[r].node][c] > 0
  /\ idle' = [idle EXCEPT ![job[r].node][c] = @ - 1]
  /\ Set(r, [job[r] EXCEPT !.at = "send", !.conn = "pool"])
  /\ UNCHANGED <<nodes, health, refs, faults>>

ConnectNew(r) ==
  /\ job[r].at = "connect"
  /\ \A c \in Conditions : job[r].retried \/ idle[job[r].node][c] = 0
  /\ Set(r, [job[r] EXCEPT !.at = "send", !.conn = "new"])
  /\ UNCHANGED <<nodes, health, refs, idle, faults>>

ConnectFails(r) ==
  /\ job[r].at = "connect" /\ Fault
  /\ health' = [health EXCEPT ![job[r].node] = Failed(@)]
  /\ Drop({job[r].node})
  /\ Set(r, [job[r] EXCEPT !.at = "settle", !.node = <<>>, !.res = "error"])
  /\ UNCHANGED nodes

JobOnly == UNCHANGED <<nodes, health, refs, idle>>

\* SendHeader, and what InternalProcess does next.
SendHeader(r) ==
  /\ job[r].at = "send" /\ NoFault /\ JobOnly
  /\ LET j == job[r] IN
     Set(r, CASE j.kind.mode = "grpc" -> [j EXCEPT !.at = "head", !.post = "run"]
              [] j.kind.mode = "plain" /\ j.kind.body -> [j EXCEPT !.at = "post"]
              [] j.kind.mode = "expect" -> [j EXCEPT !.at = "head"]
              [] OTHER -> [j EXCEPT !.at = "head", !.given = @ + 1])

SendHeaderFails(r) ==
  /\ job[r].at = "send" /\ Fault /\ JobOnly
  /\ Set(r, [job[r] EXCEPT !.at = "settle", !.res = "retry"])

\* ProcessPost, in InternalProcess or after 100 Continue, where a failure is
\* one of reading the header.  Reading from the client comes first.
ProcessPost(r) ==
  /\ job[r].at \in {"post", "continue"} /\ NoFault /\ JobOnly
  /\ Set(r, [job[r] EXCEPT !.at = "head", !.took = TRUE, !.given = @ + 1])

ProcessPostFails(r) ==
  /\ job[r].at \in {"post", "continue"} /\ Fault /\ JobOnly
  /\ \E res \in IF job[r].at = "post" THEN {"retry", "broken"} ELSE {"response"} :
       Set(r, [job[r] EXCEPT !.at = "settle", !.took = TRUE, !.res = res])

\* An interim answer: 100 lets the waiting body go, the others are skipped.
ReadInterim(r) ==
  /\ job[r].at = "head" /\ job[r].kind.mode = "expect" /\ ~job[r].took
  /\ NoFault /\ JobOnly
  /\ Set(r, [job[r] EXCEPT !.at = "continue"])

\* The final header.  An answer without a body is complete with it.
ReadHeader(r, nobody) ==
  /\ job[r].at = "head" /\ NoFault /\ JobOnly
  /\ LET j == [job[r] EXCEPT !.post = IF job[r].kind.mode = "upgrade" THEN "run" ELSE @]
     IN  Set(r, IF nobody THEN [j EXCEPT !.at = "settle", !.done = TRUE, !.res = "end"]
                          ELSE [j EXCEPT !.at = "body"])

\* Mutant: a broken connection is retried whatever the method.
RetryOnPool(j) == j.conn = "pool"

CanReplay(j) == j.conn = "pool" /\ j.kind.safe

\* The connection ends before a header (broken), or what came is none.
ReadHeaderFails(r, broken) ==
  /\ job[r].at = "head" /\ Fault /\ JobOnly
  /\ Set(r, [job[r] EXCEPT !.at = "settle",
               !.res = IF broken /\ CanReplay(job[r]) THEN "retry" ELSE "response"])

\* ReadBody: the end of a body is KGL_END when it is chunked, else KGL_OK.
ReadBody(r, res) ==
  /\ job[r].at = "body" /\ NoFault /\ JobOnly
  /\ Set(r, [job[r] EXCEPT !.at = "settle", !.done = TRUE, !.res = res])

\* The origin breaks off, or the client cannot be written to.
ReadBodyFails(r) ==
  /\ job[r].at = "body" /\ Fault /\ JobOnly
  /\ Set(r, [job[r] EXCEPT !.at = "settle", !.res = "broken"])

\* readhup: the client has gone, which ends the connection at its next use.
ReadHup(r) ==
  /\ job[r].at \in {"send", "post", "head", "body"} /\ ~job[r].hup
  /\ Fault /\ JobOnly
  /\ Set(r, [job[r] EXCEPT !.hup = TRUE])

-----------------------------------------------------------------------------
(* The end of Open *)

\* Mutant: a connection is kept however the exchange ended.
KeptAlways(j) == TRUE

Kept(j) == j.done

Condition(j) == IF j.kind.body /\ j.given = 0 THEN "unsent"
                ELSE IF j.done THEN "clean" ELSE "unread"

\* Close: the connection is pooled if the answer was read to its end and the
\* origin keeps it alive; a tunnel or a stream of its own is not pooled.  It
\* gives up its node in either case.
Close(r, next) ==
  LET j == job[r] IN
  /\ Set(r, next)
  /\ IF j.conn = "none" THEN UNCHANGED <<refs, idle>>
     ELSE \/ Drop({j.node})
          \/ /\ Kept(j) /\ j.kind.mode \in {"plain", "expect"} /\ refs[j.node] > 1
             /\ refs' = [refs EXCEPT ![j.node] = @ - 1]
             /\ idle' = [idle EXCEPT ![j.node][Condition(j)] = @ + 1]

MayRetry(j) ==
  /\ j.res = "retry" /\ j.post = "none" /\ j.conn = "pool" /\ ~j.hup
  /\ ~j.took \/ j.kind.replay

Retry(r) ==
  /\ job[r].at = "settle" /\ MayRetry(job[r])
  /\ Close(r, [job[r] EXCEPT !.at = "pick", !.retried = TRUE, !.took = FALSE,
                             !.conn = "none", !.node = <<>>, !.res = "none"])
  /\ UNCHANGED <<nodes, health, faults>>

\* What the node learns: an error if a new connection could not be written to
\* and the client is there, success if the result is positive.
Learned(j, h) ==
  IF j.res = "retry" /\ j.conn = "new" /\ ~j.hup THEN Failed(h)
  ELSE IF j.res = "end" THEN Fresh ELSE h

Settle(r) ==
  /\ job[r].at = "settle" /\ ~MayRetry(job[r])
  /\ health' = IF job[r].conn = "none" THEN health
               ELSE [health EXCEPT ![job[r].node] = Learned(job[r], @)]
  /\ IF job[r].post = "none" THEN Close(r, NoJob)
     ELSE Set(r, [job[r] EXCEPT !.at = "join"]) /\ UNCHANGED <<refs, idle>>
  /\ UNCHANGED <<nodes, faults>>

\* process_post_fiber ends by itself, or after WaitPostFiber has cancelled it.
PostFiber(r) ==
  /\ job[r].post = "run" /\ NoFault /\ JobOnly
  /\ Set(r, [job[r] EXCEPT !.post = "done", !.took = TRUE,
               !.given = IF job[r].at = "join" THEN @ ELSE 1])

Join(r) ==
  /\ job[r].at = "join" /\ job[r].post = "done"
  /\ Close(r, NoJob)
  /\ UNCHANGED <<nodes, health, faults>>

-----------------------------------------------------------------------------
Indexes == 1 .. Max({Len(c.v) : c \in Configs} \cup {1})

Step(r) ==
  \/ \E k \in Kinds : Begin(r, k)
  \/ \E i \in Indexes : GetUpstream(r, i)
  \/ \E c \in Conditions : ConnectPooled(r, c)
  \/ ConnectNew(r) \/ SendHeader(r) \/ ProcessPost(r) \/ ReadInterim(r)
  \/ \E b \in BOOLEAN : ReadHeader(r, b)
  \/ \E res \in {"end", "ok"} : ReadBody(r, res)
  \/ Retry(r) \/ Settle(r) \/ PostFiber(r) \/ Join(r)

Fails(r) == \/ ExtendDisabled(r) \/ ConnectFails(r) \/ SendHeaderFails(r) \/ ProcessPostFails(r)
            \/ ReadBodyFails(r) \/ ReadHup(r)
            \/ \E b \in BOOLEAN : ReadHeaderFails(r, b)

FetchNext == \/ \E r \in Rq : Step(r) \/ Fails(r)
             \/ \E n \in Node : Due(n)
             \/ \E c \in Configs : Reload(c)

FetchInit ==
  \E c \in Configs :
    /\ nodes = [gen |-> 0, v |-> c.v, b |-> c.b]
    /\ health = [n \in Node |-> Fresh]
    /\ refs = [n \in Node |-> IF n \in {<<0, o>> : o \in Range(c.v) \cup Range(c.b)}
                              THEN 1 ELSE 0]
    /\ idle = [n \in Node |-> NoConns]
    /\ job = [r \in Rq |-> NoJob]
    /\ faults = 0

FetchSpec == FetchInit /\ [][FetchNext]_fetchVars

-----------------------------------------------------------------------------
(* Properties *)

\* A request that may change something at the origin is handed over completely
\* at most once, whatever breaks and is retried (the test of
\* kgl_is_safe_method and the conditions of Open's retry).
NoUnsafeReplay == \A r \in Rq : ~job[r].kind.safe => job[r].given <= 1

\* A node is alive exactly as long as it is listed or a request is connecting
\* or connected to it, also when a reload has replaced it (addRef before the
\* unlock in GetUpstream, release in connect_result, gc of the connection).
NodesHeldWhileUsed ==
  \A n \in Node :
    refs[n] = (IF n \in Listed THEN 1 ELSE 0)
              + Cardinality({r \in Rq : job[r].node = n})

\* No request is written to a connection on which an earlier answer was not
\* read to its end ("长连接中用于标识此连接还可用", upstream_expected_done).
PooledIsRead == \A n \in Node : idle[n]["unread"] = 0

\* A primary that failures have disabled, and what must come of it: it is tried
\* again, enabled again or no longer listed (the timed probe of is_available in
\* nextActiveNode).
Current(o) == <<nodes.gen, o>>
SetAside(o) ==
  Current(o) \in {Primary(i) : i \in DOMAIN nodes.v} /\ health[Current(o)].mark # "on"
TriedAgain(o) ==
  \/ health[Current(o)].mark = "on" \/ Current(o) \notin Listed
  \/ \E r \in Rq : job[r].at = "connect" /\ job[r].node = Current(o)
=============================================================================
