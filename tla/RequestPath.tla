----------------------------- MODULE RequestPath -----------------------------
(***************************************************************************)
(* The way of a request through the server, from start_request_fiber to     *)
(* EndRequest (HttpFiber.cpp, HttpCore.cpp): access control, virtual host,  *)
(* cache, choice of the source, the queue of the source, its answer, error  *)
(* pages and internal redirects.                                            *)
(*                                                                         *)
(* What access rules, lookups, sources and clients decide is a choice here; *)
(* AccessChains, VirtualHosts, ObjectCache and UpstreamFetch model how they *)
(* decide.  The queue wraps a fiber mutex, which is external.               *)
(***************************************************************************)
EXTENDS Naturals, FiniteSets, Sequences, Functions

CONSTANTS Req,         \* requests in flight
          Sources,     \* the lists of sources a request may be given
          MaxWorker,   \* max_worker of the queue
          Rooms        \* the values of its max_queue

\* What the constants are.
PathConstants ==
  /\ \A r \in Req : \A s \in Sources[r] :
       s # <<>> /\ s \in Seq({"local", "queued", "extension"})
  /\ MaxWorker \in Nat \ {0} /\ Rooms \subseteq Nat

ASSUME PathAssumption == PathConstants

VARIABLES way,     \* where each request is, with the flags of its sink
          line     \* the queue: who runs in it, who waits, how many may

pathVars == <<way, line>>

\* Sources as far as the path tells them apart: a "local" one answers or fails,
\* a "queued" one sets KGL_UPSTREAM_NEED_QUEUE, an "extension" may decline with
\* KGL_NEXT.
Single(r) == {s \in Sources[r] : Len(s) = 1}

Begun == [at |-> "access", sent |-> 0, page |-> FALSE, hup |-> FALSE, shut |-> FALSE,
          svh |-> FALSE, old |-> FALSE, checked |-> FALSE, took |-> FALSE,
          srcs |-> <<>>, res |-> "none"]

\* What is left for EndRequest.
Finish(w) == [Begun EXCEPT !.at = "end", !.sent = w.sent,
                           !.res = IF w.hup \/ w.shut THEN "closed" ELSE w.res]

At(r, p) == way[r].at = p
Put(r, w) == way' = [way EXCEPT ![r] = w]
Alone == UNCHANGED line

-----------------------------------------------------------------------------
(* Answers *)

\* start_response_body sends the header.
Header(w)  == [w EXCEPT !.sent = @ + 1]
Respond(w) == Finish(Header(w))

\* send_http2 and send_error2 answer unless a header is out already, and
\* send_error2 not to a client that has gone.
SendHttp(w)  == IF w.sent > 0 THEN Finish(w) ELSE Respond(w)
SendError(w) == IF w.hup THEN Finish(w) ELSE SendHttp(w)

\* handle_error: what may follow.  Codes 403 to 499 of a virtual host may have
\* a page: a redirect to it, or a file that is opened as one more source.  The
\* page of an error is not itself given a page.
HandleError(w, code) ==
  IF ~w.svh \/ code = "other" \/ w.page THEN {SendError(w)}
  ELSE LET p == [w EXCEPT !.page = TRUE] IN
       {SendError(p), Respond(p), [p EXCEPT !.at = "page"]}

\* on_upstream_finished_header, when the answer has a body: the response rules
\* are asked once.
FinishHeader(w) ==
  LET c == [w EXCEPT !.checked = TRUE] IN
  {[Header(c) EXCEPT !.at = "body"]} \cup (IF w.checked THEN {} ELSE {SendError(c)})

-----------------------------------------------------------------------------
(* start_request_fiber *)

\* CONNECT, a bad URL, the console and the status page are answered at once;
\* a bad URL closes the connection.
AnswerEarly(r) ==
  /\ At(r, "access") /\ Alone
  /\ \E w \in {SendError(way[r]), SendError([way[r] EXCEPT !.shut = TRUE]), SendHttp(way[r])} :
       Put(r, w)

\* handle_denied_request: a source that the rules gave (authentication, a
\* prepared answer, a failure to load either), the status a rule has set, a
\* request for authentication or 403.
Denied(w) == {SendHttp(w), SendError(w)} \cup HandleError(w, "other")

\* The verdict of the global rules, then of the host's.  A source is kept for
\* later; only one that must come before the cache makes the verdict "deny".  A
\* default action that is no verdict (a table, a return) passes the switch with
\* neither a host nor a source.
GlobalAccess(r) ==
  /\ At(r, "access") /\ Alone
  /\ \E w \in {Finish([way[r] EXCEPT !.shut = TRUE]), [way[r] EXCEPT !.at = "host"],
               [way[r] EXCEPT !.at = "start"]}
              \cup Denied(way[r])
              \cup {[way[r] EXCEPT !.srcs = s, !.at = "start"] : s \in Single(r)} :
       Put(r, w)

\* query_virtual fails: too many connections, or no such host.
HostFails(r) ==
  /\ At(r, "host") /\ Alone
  /\ Put(r, SendError(way[r]))

\* check_virtual_host_access_request.
HostAccess(r) ==
  /\ At(r, "host") /\ Alone
  /\ LET b == [way[r] EXCEPT !.svh = TRUE] IN
     \E w \in {Finish([b EXCEPT !.shut = TRUE]), [b EXCEPT !.at = "start"]}
              \cup HandleError(b, "other") \cup Denied(b)
              \cup {[b EXCEPT !.srcs = s, !.at = "start"] : s \in Single(r)} :
       Put(r, w)

-----------------------------------------------------------------------------
(* fiber_http_start *)

\* Not in the cache although only the cache was asked for.
OnlyIfCached(r) ==
  /\ At(r, "start") /\ Alone
  /\ Put(r, SendError(way[r]))

\* A new object.
Miss(r) ==
  /\ At(r, "start") /\ Alone
  /\ Put(r, [way[r] EXCEPT !.at = "load"])

\* process_cache_request: a method that a cached object does not allow, a body
\* that cannot be swapped in now, a fresh object, a stale one.  An object that
\* cannot be swapped in is given up for a new one.
Hit(r) ==
  /\ At(r, "start") /\ Alone
  /\ \E w \in {SendHttp(way[r]), SendError(way[r]), [Header(way[r]) EXCEPT !.at = "body"],
               [way[r] EXCEPT !.at = "load", !.old = TRUE], [way[r] EXCEPT !.at = "load"]} :
       Put(r, w)

\* check_request_final_source: without a source the host is asked for one,
\* and without a host there is none.
\* The rules after mapping may deny, or put a source in front.
FinalSource(r) ==
  /\ At(r, "load") /\ Alone
  /\ \/ way[r].srcs = <<>> /\ ~way[r].svh /\ Put(r, SendError(way[r]))
     \/ /\ way[r].srcs = <<>> /\ way[r].svh
        /\ \E code \in {"page", "other"} : \E w \in HandleError(way[r], code) : Put(r, w)
     \/ \E s \in Sources[r] :
          /\ IF way[r].srcs = <<>> THEN way[r].svh ELSE \E i \in 1..Len(s) : SubSeq(s, i, Len(s)) = way[r].srcs
          /\ Put(r, [way[r] EXCEPT !.srcs = s, !.at = "stream"])
     \/ /\ way[r].srcs # <<>> \/ way[r].svh
        /\ \E w \in {SendHttp(way[r])} \cup HandleError(way[r], "page") : Put(r, w)

-----------------------------------------------------------------------------
(* process_request_stream and the queue *)

NeedQueue(w) == \E i \in DOMAIN w.srcs : w.srcs[i] = "queued"

\* kfiber_mutex_try_lock: a worker's place is free, or one may wait for it.
Busy(l) == Cardinality(l.run) >= MaxWorker
Full(l) == Len(l.wait) >= l.room

\* The end of open_queued_fetchobj gives the place in the queue to the first
\* that waits.
Leave(r, l) ==
  IF r \notin l.run THEN l
  ELSE IF l.wait = <<>> THEN [l EXCEPT !.run = @ \ {r}]
  ELSE [l EXCEPT !.run = (@ \ {r}) \cup {Head(l.wait)}, !.wait = Tail(@)]

\* The first source is opened in the queue if any source needs one.
Enqueue(r) ==
  /\ At(r, "stream")
  /\ \/ /\ ~NeedQueue(way[r]) /\ UNCHANGED line
        /\ Put(r, [way[r] EXCEPT !.at = "open"])
     \/ /\ NeedQueue(way[r]) /\ ~Busy(line)
        /\ line' = [line EXCEPT !.run = @ \cup {r}]
        /\ Put(r, [way[r] EXCEPT !.at = "open"])
     \/ /\ NeedQueue(way[r]) /\ Busy(line) /\ ~Full(line)
        /\ line' = [line EXCEPT !.wait = Append(@, r)]
        /\ Put(r, [way[r] EXCEPT !.at = "wait"])
     \/ /\ NeedQueue(way[r]) /\ Busy(line) /\ Full(line) /\ UNCHANGED line
        /\ \E w \in HandleError(way[r], "other") : Put(r, w)

\* Mutant: a request refused for having waited too long keeps its place.
GrantedKeeps(r) ==
  /\ At(r, "wait") /\ r \in line.run /\ Alone
  /\ \E w \in HandleError(way[r], "other") \cup {[way[r] EXCEPT !.at = "open"]} : Put(r, w)

\* Its turn has come; it is refused if it came too late.
Granted(r) ==
  /\ At(r, "wait") /\ r \in line.run
  /\ \/ Put(r, [way[r] EXCEPT !.at = "open"]) /\ UNCHANGED line
     \/ \E w \in HandleError(way[r], "other") : Put(r, w) /\ line' = Leave(r, line)

\* A step of the open source: it stays in the queue while an answer or an error
\* page is being produced.
Stay(r, w) == /\ Put(r, w)
              /\ line' = IF w.at \in {"end", "bodiless"} THEN Leave(r, line) ELSE line

\* The source has not produced a header: it reports an error.
OpenFails(r) ==
  /\ At(r, "open")
  /\ \E code \in {"page", "other"} : \E w \in HandleError(way[r], code) : Stay(r, w)

\* It produces one, with a body or without.
OpenAnswers(r) ==
  /\ At(r, "open")
  /\ \E w \in FinishHeader(way[r])
              \cup {[way[r] EXCEPT !.at = "bodiless", !.checked = TRUE]} : Stay(r, w)

\* It reads the request body, which need not be possible again.
OpenReads(r) ==
  /\ At(r, "open") /\ Head(way[r].srcs) = "extension" /\ ~way[r].took
  /\ Put(r, [way[r] EXCEPT !.took = TRUE]) /\ Alone

\* Nothing has been sent, and the request body can be read (again).
ContinueNextSource(w) == w.sent = 0 /\ ~w.took

\* It declines.  Only the first source is opened in the queue.
OpenDeclines(r) ==
  /\ At(r, "open") /\ Head(way[r].srcs) = "extension"
  /\ LET w == [way[r] EXCEPT !.srcs = Tail(@)] IN
     /\ Put(r, IF w.srcs # <<>> /\ ContinueNextSource(w) THEN w
               ELSE Finish([w EXCEPT !.res = "declined"]))
     /\ line' = Leave(r, line)

\* Mutant: an upstream that breaks off after its header is reported as an error.
BodyReports(w) == {Finish(w)} \cup HandleError(w, "page")

\* The body is written, or breaks off; upstream_is_error reports nothing once
\* the header is out.
BodyEnds(w) == {Finish(w)}

Body(r) ==
  /\ At(r, "body")
  /\ \E w \in BodyEnds(way[r]) : Stay(r, w)

-----------------------------------------------------------------------------
(* Error pages, internal redirects, answers without a body *)

\* The page of an error is a source of its own, opened within the failed one.
\* Its answer without a body is sent by handle_error.
Page(r) ==
  /\ At(r, "page")
  /\ \E w \in FinishHeader(way[r]) \cup HandleError(way[r], "page")
              \cup {Respond(way[r]), [way[r] EXCEPT !.at = "redirect"]} : Stay(r, w)

\* KGL_NO_BODY in load_object_from_source: an old object that is confirmed is
\* sent, X-Accel-Redirect names another source, else the header is sent.
NoBody(r) ==
  /\ At(r, "bodiless") /\ Alone
  /\ \/ /\ way[r].old
        /\ \E w \in {SendHttp(way[r]), [Header(way[r]) EXCEPT !.at = "body"]} : Put(r, w)
     \/ Put(r, [way[r] EXCEPT !.at = "redirect"])
     \/ Put(r, Respond(way[r]))

\* handle_x_send_file: the file is opened as a source.  Its own answer without a
\* body goes back to the caller, which sends nothing.
SendFile(r) ==
  /\ At(r, "redirect")
  /\ \E w \in {SendError(way[r])} \cup FinishHeader(way[r]) \cup HandleError(way[r], "page")
              \cup {Finish([way[r] EXCEPT !.res = "bodiless"])} :
       Stay(r, w)

\* on_sink_readhup; upstream sources and extensions register it.
SinkReadHup(r) ==
  /\ way[r].at \in {"open", "body", "page", "redirect"} /\ ~way[r].hup
  /\ way[r].srcs # <<>> /\ Head(way[r].srcs) \in {"queued", "extension"}
  /\ Put(r, [way[r] EXCEPT !.hup = TRUE]) /\ Alone

\* EndRequest.
EndRequest(r) ==
  /\ At(r, "end") /\ Alone
  /\ Put(r, [way[r] EXCEPT !.at = "done"])

-----------------------------------------------------------------------------
Advance(r) ==
  \/ AnswerEarly(r) \/ GlobalAccess(r) \/ HostFails(r) \/ HostAccess(r)
  \/ OnlyIfCached(r) \/ Miss(r) \/ Hit(r) \/ FinalSource(r)
  \/ Enqueue(r) \/ Granted(r) \/ OpenFails(r) \/ OpenAnswers(r) \/ OpenReads(r)
  \/ OpenDeclines(r) \/ Body(r) \/ Page(r) \/ NoBody(r) \/ SendFile(r)
  \/ EndRequest(r)

PathNext == \E r \in Req : Advance(r) \/ SinkReadHup(r)

PathInit == /\ way = [r \in Req |-> Begun]
            /\ line \in {[run |-> {}, wait |-> <<>>, room |-> n] : n \in Rooms}

PathSpec == PathInit /\ [][PathNext]_pathVars

-----------------------------------------------------------------------------
(* Properties *)

\* A request is answered at most once, whichever errors, error pages, redirects
\* and sources follow each other ("assert(!KBIT_TEST(rq->sink->data.flags,
\* RQ_HAS_SEND_HEADER))" in build_obj_header), and when it ends it has been
\* answered, or its connection is closed or lost.  The exceptions are a last
\* source that declines and an internal redirect to an answer without a body.
AnsweredOnce ==
  \A r \in Req :
    /\ way[r].sent <= 1
    /\ way[r].at \in {"end", "done"} =>
         way[r].sent = 1 \/ way[r].res \in {"closed", "declined", "bodiless"}

\* The queue is never overfull, its places belong to requests whose first source
\* is at work, and who waits is known to the queue (start and the deferred stop
\* in open_queued_fetchobj).
PlacesUsed ==
  /\ Cardinality(line.run) <= MaxWorker /\ Len(line.wait) <= line.room
  /\ \A r \in line.run : way[r].at \in {"wait", "open", "body", "page", "redirect"}
  /\ \A r \in Range(line.wait) : At(r, "wait")
  /\ \A r \in Req : At(r, "wait") => r \in line.run \cup Range(line.wait)
=============================================================================
