---------------------------- MODULE ServingProofs ----------------------------
(***************************************************************************)
(* What holds of the way of a request for any number of requests, sources   *)
(* and places in the queue: every request is answered once, and the places  *)
(* of the queue belong to requests whose source is at work.                 *)
(*                                                                          *)
(* What holds of the exchange with upstream nodes for any number of         *)
(* requests, nodes, reloads and faults: no request that may change          *)
(* something at the origin is handed over twice, a node lives as long as it *)
(* is listed or used, and no connection with an unread answer is pooled.    *)
(***************************************************************************)
EXTENDS RequestPath, UpstreamFetch, FiniteSetTheorems, TLAPS

(* The way of a request (RequestPath) *)

Names == {"local", "queued", "extension"}

\* Before an answer, and after.
Quiet == {"access", "host", "start", "load", "stream", "wait", "open", "bodiless",
          "page", "redirect"}
Spots == Quiet \cup {"body", "end", "done"}

Ways == [at : Spots, sent : Nat, page : BOOLEAN, hup : BOOLEAN, shut : BOOLEAN,
         svh : BOOLEAN, old : BOOLEAN, checked : BOOLEAN, took : BOOLEAN,
         srcs : Seq(Names),
         res : {"none", "closed", "declined", "bodiless"}]

\* How a request may end without an answer.
Unanswered == {"closed", "declined", "bodiless"}

\* The header is out exactly when the body is being sent or the request is over,
\* and who has chosen its sources has one.
Orderly(w) ==
  /\ w \in Ways
  /\ w.at \in Quiet => w.sent = 0
  /\ w.at = "body" => w.sent = 1
  /\ w.at \in {"end", "done"} => w.sent = 1 \/ (w.sent = 0 /\ w.res \in Unanswered)
  /\ w.at \in {"stream", "wait", "open"} => w.srcs # <<>>

\* Where a request may be while it has a place in the queue.
InQueue == {"wait", "open", "body", "page", "redirect"}

\* Who waits does so once and without a place.
QueueInv ==
  /\ line \in [run : SUBSET Req, wait : Seq(Req), room : Nat]
  /\ IsFiniteSet(line.run) /\ Cardinality(line.run) <= MaxWorker
  /\ Len(line.wait) <= line.room
  /\ \A r \in line.run : way[r].at \in InQueue
  /\ \A i \in 1 .. Len(line.wait) :
       /\ line.wait[i] \notin line.run /\ way[line.wait[i]].at = "wait"
       /\ \A k \in 1 .. Len(line.wait) : line.wait[i] = line.wait[k] => i = k
  /\ \A r \in Req : way[r].at = "wait" =>
       r \in line.run \/ \E i \in 1 .. Len(line.wait) : line.wait[i] = r

PathInv == /\ way \in [Req -> Ways] /\ \A r \in Req : Orderly(way[r])
           /\ QueueInv

\* What a step of a request makes of it and of the queue: it stays where it is in
\* the queue, leaves it, takes a place or waits for one.
Settled(r) == way[r].at # "wait" \/ r \in line.run
Moves(r, x) ==
  /\ Put(r, x) /\ Orderly(x)
  /\ \/ /\ line' = line /\ x.at # "wait" /\ Settled(r)
        /\ r \in line.run => x.at \in InQueue
     \/ line' = Leave(r, line) /\ x.at # "wait" /\ Settled(r)
     \/ /\ way[r].at = "stream" /\ x.at = "open" /\ ~Busy(line)
        /\ line' = [line EXCEPT !.run = @ \cup {r}]
     \/ /\ way[r].at = "stream" /\ x.at = "wait" /\ ~Full(line)
        /\ line' = [line EXCEPT !.wait = Append(@, r)]

-----------------------------------------------------------------------------
(* Answers *)

\* A request that has been answered, or need not be, may end.
LEMMA FinishOrderly ==
  ASSUME NEW w \in Ways, w.sent = 1 \/ (w.sent = 0 /\ (w.hup \/ w.shut \/ w.res \in Unanswered))
  PROVE  Orderly(Finish(w)) /\ Finish(w).at = "end"
<1> DEFINE e == IF w.hup \/ w.shut THEN "closed" ELSE w.res
<1>1. /\ e \in {"none", "closed", "declined", "bodiless"} /\ w.sent \in Nat
      /\ (w.sent = 0 => e \in Unanswered)
  BY DEF Ways, Unanswered
<1>2. Finish(w) = [at |-> "end", sent |-> w.sent, page |-> FALSE, hup |-> FALSE,
                   shut |-> FALSE, svh |-> FALSE, old |-> FALSE, checked |-> FALSE,
                   took |-> FALSE, srcs |-> <<>>, res |-> e]
  <2>1. Finish(w) = [Begun EXCEPT !.at = "end", !.sent = w.sent, !.res = e]
    BY Zenon DEF Finish
  <2> HIDE DEF e
  <2> QED BY <2>1, Zenon DEF Begun
<1> HIDE DEF e
<1>3. Finish(w) \in Ways
  BY <1>1, <1>2 DEF Ways, Spots, Quiet
<1>4. Finish(w).at = "end" /\ Finish(w).sent = w.sent /\ Finish(w).res = e
  BY <1>2
<1> QED BY <1>1, <1>3, <1>4, Zenon DEF Orderly, Quiet

\* The header goes out once.
LEMMA HeaderOnce ==
  ASSUME NEW w \in Ways, w.sent = 0
  PROVE  /\ Header(w) \in Ways /\ Header(w).sent = 1
         /\ Orderly([Header(w) EXCEPT !.at = "body"])
         /\ [Header(w) EXCEPT !.at = "body"].at = "body"
<1>1. Header(w) = [w EXCEPT !.sent = 1]
  BY DEF Header
<1>2. Header(w) \in Ways /\ Header(w).sent = 1
  BY <1>1 DEF Ways
<1> DEFINE h == Header(w)
           b == [h EXCEPT !.at = "body"]
<1> HIDE DEF h
<1>3. b \in Ways /\ b.at = "body" /\ b.sent = 1
  BY <1>2, Zenon DEF h, Ways, Spots
<1>4. Orderly(b)
  BY <1>3, Zenon DEF Orderly, Quiet
<1> QED BY <1>2, <1>3, <1>4, Zenon DEF h

\* send_http2, send_error2 and start_response_body end a request.
LEMMA SendOrderly ==
  ASSUME NEW w \in Ways, w.sent = 0
  PROVE  /\ Orderly(Respond(w)) /\ Respond(w).at = "end"
         /\ Orderly(SendHttp(w)) /\ SendHttp(w).at = "end"
         /\ Orderly(SendError(w)) /\ SendError(w).at = "end"
<1>1. Orderly(Respond(w)) /\ Respond(w).at = "end"
  BY HeaderOnce, FinishOrderly, Zenon DEF Respond
<1>2. SendHttp(w) = Respond(w)
  BY DEF SendHttp
<1>3. SendError(w) = IF w.hup THEN Finish(w) ELSE Respond(w)
  BY <1>2, Zenon DEF SendError
<1>4. CASE w.hup
  BY <1>1, <1>2, <1>3, <1>4, FinishOrderly, Zenon
<1>5. CASE ~w.hup
  BY <1>1, <1>2, <1>3, <1>5, Zenon
<1> QED BY <1>4, <1>5, Zenon

\* A flag other than the place and the count leaves the rest as it is.
LEMMA FlagsKeep ==
  ASSUME NEW w \in Ways
  PROVE  /\ LET x == [w EXCEPT !.page = TRUE]
            IN  x \in Ways /\ x.at = w.at /\ x.sent = w.sent /\ x.srcs = w.srcs
         /\ LET x == [w EXCEPT !.checked = TRUE]
            IN  x \in Ways /\ x.at = w.at /\ x.sent = w.sent /\ x.srcs = w.srcs
         /\ LET x == [w EXCEPT !.svh = TRUE]
            IN  x \in Ways /\ x.at = w.at /\ x.sent = w.sent /\ x.srcs = w.srcs
         /\ LET x == [w EXCEPT !.shut = TRUE]
            IN  x \in Ways /\ x.at = w.at /\ x.sent = w.sent /\ x.srcs = w.srcs /\ x.shut
BY Zenon DEF Ways

\* A request that is sent on without an answer.
LEMMA MoveOrderly ==
  ASSUME NEW w \in Ways, w.sent = 0, NEW p \in Quiet \ {"stream", "wait", "open"},
         NEW x, x = [w EXCEPT !.at = p]
  PROVE  Orderly(x) /\ x.at = p /\ x.at # "wait"
<1>1. x \in Ways /\ x.at = p /\ x.sent = 0
  BY Zenon DEF Ways, Spots
<1> QED BY <1>1, Zenon DEF Orderly, Quiet

\* handle_error answers or opens the page of the error.
LEMMA HandleErrorOrderly ==
  ASSUME NEW w \in Ways, w.sent = 0, NEW code, NEW x \in HandleError(w, code)
  PROVE  Orderly(x) /\ x.at \in {"end", "page"}
<1> DEFINE p == [w EXCEPT !.page = TRUE]
<1>1. p \in Ways /\ p.sent = 0
  BY FlagsKeep, Zenon
<1>2. x = SendError(w) \/ x = SendError(p) \/ x = Respond(p) \/ x = [p EXCEPT !.at = "page"]
  BY Zenon DEF HandleError
<1> HIDE DEF p
<1>3. CASE x = SendError(w) \/ x = SendError(p) \/ x = Respond(p)
  BY <1>1, <1>3, SendOrderly, Zenon
<1>4. CASE x = [p EXCEPT !.at = "page"]
  BY <1>1, <1>4, MoveOrderly, Zenon DEF Quiet
<1> QED BY <1>2, <1>3, <1>4, Zenon

\* on_upstream_finished_header sends the header or refuses the answer.
LEMMA FinishHeaderOrderly ==
  ASSUME NEW w \in Ways, w.sent = 0, NEW x \in FinishHeader(w)
  PROVE  Orderly(x) /\ x.at \in {"end", "body"}
<1> DEFINE c == [w EXCEPT !.checked = TRUE]
<1>1. c \in Ways /\ c.sent = 0
  BY FlagsKeep, Zenon
<1>2. x = [Header(c) EXCEPT !.at = "body"] \/ x = SendError(c)
  BY Zenon DEF FinishHeader
<1> HIDE DEF c
<1>3. CASE x = [Header(c) EXCEPT !.at = "body"]
  BY <1>1, <1>3, HeaderOnce, Zenon
<1>4. CASE x = SendError(c)
  BY <1>1, <1>4, SendOrderly, Zenon
<1> QED BY <1>2, <1>3, <1>4, Zenon

-----------------------------------------------------------------------------
(* The queue *)

\* Who is before the queue or past it has no place in it.
LEMMA Outside ==
  ASSUME PathInv, NEW r \in Req
  PROVE  /\ way[r].at \notin InQueue => r \notin line.run
         /\ Settled(r) => \A i \in 1 .. Len(line.wait) : line.wait[i] # r
BY DEF PathInv, QueueInv, Settled

\* The step changes the one request.
LEMMA OneMoves ==
  ASSUME PathInv, NEW r \in Req, NEW x, Moves(r, x)
  PROVE  /\ way' \in [Req -> Ways] /\ \A q \in Req : Orderly(way'[q])
         /\ \A q \in Req : way'[q] = IF q = r THEN x ELSE way[q]
BY Zenon DEF PathInv, Moves, Put, Orderly

\* The request stays where it is in the queue, or outside it.
LEMMA StaysInLine ==
  ASSUME PathInv, NEW r \in Req, NEW x, Moves(r, x), line' = line, x.at # "wait", Settled(r),
         r \in line.run => x.at \in InQueue
  PROVE  QueueInv'
<1>1. \A q \in Req : way'[q] = IF q = r THEN x ELSE way[q]
  BY OneMoves, Zenon
<1>2. \A i \in 1 .. Len(line.wait) : line.wait[i] \in Req /\ line.wait[i] # r
  BY Outside DEF PathInv, QueueInv
<1>3. line.run \subseteq Req
  BY Zenon DEF PathInv, QueueInv
<1>4. \A q \in line.run : way'[q].at \in InQueue
  BY <1>1, <1>3, Zenon DEF PathInv, QueueInv
<1>5. \A i \in 1 .. Len(line.wait) : way'[line.wait[i]].at = "wait"
  BY <1>1, <1>2, Zenon DEF PathInv, QueueInv
<1>6. \A q \in Req : way'[q].at = "wait" =>
        q \in line.run \/ \E i \in 1 .. Len(line.wait) : line.wait[i] = q
  BY <1>1, Zenon DEF PathInv, QueueInv
<1> QED BY <1>4, <1>5, <1>6, Zenon DEF PathInv, QueueInv

\* It leaves, and its place goes to the first that waits.
LEMMA LeavesLine ==
  ASSUME PathConstants, PathInv, NEW r \in Req, NEW x, Moves(r, x), line' = Leave(r, line),
         x.at # "wait", Settled(r)
  PROVE  QueueInv'
<1>1. \A q \in Req : way'[q] = IF q = r THEN x ELSE way[q]
  BY OneMoves, Zenon
<1>2. \A i \in 1 .. Len(line.wait) : line.wait[i] \in Req /\ line.wait[i] # r
  BY Outside DEF PathInv, QueueInv
<1>3. /\ line \in [run : SUBSET Req, wait : Seq(Req), room : Nat]
      /\ IsFiniteSet(line.run) /\ Cardinality(line.run) <= MaxWorker /\ MaxWorker \in Nat
  BY Zenon DEF PathInv, QueueInv, PathConstants
<1>4. CASE r \notin line.run
  BY <1>4, StaysInLine, Zenon DEF Leave
<1>5. CASE r \in line.run /\ line.wait = <<>>
  <2>1. line' = [line EXCEPT !.run = @ \ {r}]
    BY <1>5, Zenon DEF Leave
  <2>2. line'.run = line.run \ {r} /\ line'.wait = <<>> /\ line'.room = line.room
        /\ line' \in [run : SUBSET Req, wait : Seq(Req), room : Nat]
    BY <1>3, <1>5, <2>1, Zenon
  <2>3. IsFiniteSet(line.run \ {r})
    BY <1>3, FS_RemoveElement, Zenon
  <2>4. Cardinality(line.run \ {r}) = Cardinality(line.run) - 1 /\ Cardinality(line.run) \in Nat
    BY <1>3, <1>5, FS_RemoveElement, FS_CardinalityType, Zenon
  <2>5. Cardinality(line.run \ {r}) <= MaxWorker
    BY <1>3, <2>4
  <2>6. \A q \in line.run \ {r} : way'[q].at \in InQueue
    BY <1>1, <1>3, Zenon DEF PathInv, QueueInv
  <2>7. \A q \in Req : way'[q].at = "wait" => q \in line.run \ {r}
    BY <1>1, <1>5 DEF PathInv, QueueInv
  <2> QED BY <1>3, <2>2, <2>3, <2>5, <2>6, <2>7 DEF QueueInv
<1>6. CASE r \in line.run /\ line.wait # <<>>
  <2> DEFINE w == line.wait
             h == Head(w)
             s == (line.run \ {r}) \cup {h}
  <2>1. line' = [line EXCEPT !.run = s, !.wait = Tail(w)]
    BY <1>6, Zenon DEF Leave
  <2>2. /\ w \in Seq(Req) /\ Len(w) \in Nat /\ Len(w) > 0 /\ h = w[1] /\ Tail(w) \in Seq(Req)
        /\ Len(Tail(w)) = Len(w) - 1 /\ \A i \in 1 .. Len(w) - 1 : Tail(w)[i] = w[i + 1]
    BY <1>3, <1>6
  <2>3. h \in Req /\ h # r /\ h \notin line.run /\ way[h].at = "wait"
    BY <1>2, <2>2 DEF PathInv, QueueInv
  <2>4. line'.run = s /\ line'.wait = Tail(w) /\ line'.room = line.room
        /\ line' \in [run : SUBSET Req, wait : Seq(Req), room : Nat]
    <3> DEFINE t == Tail(w)
    <3>1. s \in SUBSET Req /\ t \in Seq(Req) /\ line' = [line EXCEPT !.run = s, !.wait = t]
      BY <1>3, <2>1, <2>2, <2>3, Zenon
    <3> HIDE DEF s, t
    <3>2. line'.run = s /\ line'.wait = t /\ line'.room = line.room
          /\ line' \in [run : SUBSET Req, wait : Seq(Req), room : Nat]
      BY <1>3, <3>1, Zenon
    <3> QED BY <3>2, Zenon DEF t
  <2>5. IsFiniteSet(line.run \ {r}) /\ IsFiniteSet(s)
    BY <1>3, FS_RemoveElement, FS_AddElement, Zenon
  <2>6. Cardinality(line.run \ {r}) = Cardinality(line.run) - 1 /\ Cardinality(line.run) \in Nat
    BY <1>3, <1>6, FS_RemoveElement, FS_CardinalityType, Zenon
  <2>7. Cardinality(s) = Cardinality(line.run \ {r}) + 1
    BY <2>3, <2>5, FS_AddElement, Zenon
  <2>8. Cardinality(s) <= MaxWorker
    BY <1>3, <2>6, <2>7
  <2> HIDE DEF w, h
  <2>9. \A q \in s : way'[q].at \in InQueue
    BY <1>1, <1>3, <2>3 DEF PathInv, QueueInv, InQueue
  <2>10. ASSUME NEW i \in 1 .. Len(Tail(w))
         PROVE  /\ Tail(w)[i] \notin s /\ way'[Tail(w)[i]].at = "wait"
                /\ \A k \in 1 .. Len(Tail(w)) : Tail(w)[i] = Tail(w)[k] => i = k
    <3>1. i + 1 \in 1 .. Len(w) /\ 1 \in 1 .. Len(w) /\ i \in 1 .. Len(w) - 1
      BY <2>2
    <3>2. w[i + 1] \notin line.run /\ way[w[i + 1]].at = "wait" /\ w[i + 1] # w[1]
          /\ w[i + 1] \in Req /\ w[i + 1] # r
      BY <1>2, <3>1 DEF PathInv, QueueInv, w
    <3>3. ASSUME NEW k \in 1 .. Len(Tail(w)), Tail(w)[i] = Tail(w)[k] PROVE i = k
      <4>1. k + 1 \in 1 .. Len(w) /\ w[i + 1] = w[k + 1]
        BY <2>2, <3>1, <3>3
      <4>2. i + 1 = k + 1
        BY <3>1, <4>1, Zenon DEF PathInv, QueueInv, w
      <4> QED BY <2>2, <4>2
    <3> QED BY <1>1, <2>2, <3>1, <3>2, <3>3, Zenon
  <2>11. ASSUME NEW q \in Req, way'[q].at = "wait"
         PROVE  q \in s \/ \E i \in 1 .. Len(Tail(w)) : Tail(w)[i] = q
    <3>1. q # r /\ way[q].at = "wait"
      BY <1>1, <2>11, Zenon
    <3>2. CASE q \in line.run
      BY <3>1, <3>2, Zenon
    <3>3. CASE q \notin line.run
      <4>1. PICK i \in 1 .. Len(w) : w[i] = q
        BY <3>1, <3>3, Zenon DEF PathInv, QueueInv, w
      <4>2. CASE i = 1
        BY <2>2, <4>1, <4>2, Zenon
      <4>3. CASE i # 1
        <5>1. i - 1 \in 1 .. Len(Tail(w)) /\ Tail(w)[i - 1] = q
          BY <2>2, <4>1, <4>3
        <5> QED BY <5>1, Zenon
      <4> QED BY <4>2, <4>3, Zenon
    <3> QED BY <3>2, <3>3, Zenon
  <2>12. Len(Tail(w)) <= line.room
    BY <1>3, <2>2 DEF PathInv, QueueInv, w
  <2> QED BY <2>4, <2>5, <2>8, <2>9, <2>10, <2>11, <2>12 DEF QueueInv
<1> QED BY <1>4, <1>5, <1>6, Zenon

\* It takes a free place.
LEMMA EntersLine ==
  ASSUME PathConstants, PathInv, NEW r \in Req, NEW x, Moves(r, x), way[r].at = "stream",
         x.at = "open", ~Busy(line), line' = [line EXCEPT !.run = @ \cup {r}]
  PROVE  QueueInv'
<1>1. \A q \in Req : way'[q] = IF q = r THEN x ELSE way[q]
  BY OneMoves, Zenon
<1>2. \A i \in 1 .. Len(line.wait) : line.wait[i] \in Req /\ line.wait[i] # r
  BY Outside DEF PathInv, QueueInv, Settled
<1>3. /\ line \in [run : SUBSET Req, wait : Seq(Req), room : Nat]
      /\ IsFiniteSet(line.run) /\ MaxWorker \in Nat /\ r \notin line.run
  BY Outside, Zenon DEF PathInv, QueueInv, PathConstants, InQueue
<1> DEFINE s == line.run \cup {r}
<1>4. line'.run = s /\ line'.wait = line.wait /\ line'.room = line.room
      /\ line' \in [run : SUBSET Req, wait : Seq(Req), room : Nat]
  BY <1>3, Zenon
<1>5. IsFiniteSet(s)
  BY <1>3, FS_AddElement, Zenon
<1>6. Cardinality(s) = Cardinality(line.run) + 1 /\ Cardinality(line.run) \in Nat
  BY <1>3, FS_AddElement, FS_CardinalityType, Zenon
<1>7. Cardinality(s) <= MaxWorker
  BY <1>3, <1>6 DEF Busy
<1>8. \A q \in s : way'[q].at \in InQueue
  BY <1>1, <1>3, Zenon DEF PathInv, QueueInv, InQueue
<1>9. \A i \in 1 .. Len(line.wait) : line.wait[i] \notin s /\ way'[line.wait[i]].at = "wait"
  BY <1>1, <1>2, Zenon DEF PathInv, QueueInv
<1>10. \A q \in Req : way'[q].at = "wait" =>
         q \in s \/ \E i \in 1 .. Len(line.wait) : line.wait[i] = q
  BY <1>1, Zenon DEF PathInv, QueueInv
<1> QED BY <1>4, <1>5, <1>7, <1>8, <1>9, <1>10, ZenonT(30) DEF PathInv, QueueInv

\* It waits for a place, as the last.
LEMMA JoinsLine ==
  ASSUME PathConstants, PathInv, NEW r \in Req, NEW x, Moves(r, x), way[r].at = "stream",
         x.at = "wait", ~Full(line), line' = [line EXCEPT !.wait = Append(@, r)]
  PROVE  QueueInv'
<1> DEFINE w == line.wait
           n == Len(w)
           a == Append(w, r)
<1>1. \A q \in Req : way'[q] = IF q = r THEN x ELSE way[q]
  BY OneMoves, Zenon
<1>2. \A i \in 1 .. n : w[i] \in Req /\ w[i] # r
  BY Outside DEF PathInv, QueueInv, Settled
<1>3. line \in [run : SUBSET Req, wait : Seq(Req), room : Nat] /\ r \notin line.run
  BY Outside, Zenon DEF PathInv, QueueInv, InQueue
<1>4. /\ n \in Nat /\ a \in Seq(Req) /\ Len(a) = n + 1 /\ a[n + 1] = r
      /\ \A i \in 1 .. n : a[i] = w[i]
  BY <1>3
<1>5. line'.run = line.run /\ line'.wait = a /\ line'.room = line.room
      /\ line' \in [run : SUBSET Req, wait : Seq(Req), room : Nat]
  BY <1>3, <1>4, Zenon
<1>6. n + 1 <= line.room
  BY <1>3, <1>4 DEF Full
<1>7. \A q \in line.run : way'[q].at \in InQueue
  BY <1>1, <1>3, ZenonT(30) DEF PathInv, QueueInv
<1>8. \A i \in 1 .. n : /\ w[i] \notin line.run /\ way[w[i]].at = "wait"
                        /\ \A k \in 1 .. n : w[i] = w[k] => i = k
  BY Zenon DEF PathInv, QueueInv
<1> HIDE DEF w, n, a
<1>9. ASSUME NEW i \in 1 .. n + 1
      PROVE  /\ a[i] \notin line.run /\ way'[a[i]].at = "wait"
             /\ \A k \in 1 .. n + 1 : a[i] = a[k] => i = k
  <2>1. CASE i = n + 1
    <3>1. a[i] = r /\ way'[r].at = "wait"
      BY <1>1, <1>4, <2>1, Zenon
    <3>2. ASSUME NEW k \in 1 .. n + 1, a[i] = a[k] PROVE k = n + 1
      BY <1>2, <1>4, <3>1, <3>2
    <3> QED BY <1>3, <2>1, <3>1, <3>2, Zenon
  <2>2. CASE i # n + 1
    <3>1. i \in 1 .. n
      BY <1>4, <2>2
    <3> QED BY <1>1, <1>2, <1>4, <1>8, <3>1
  <2> QED BY <2>1, <2>2, Zenon
<1>10. ASSUME NEW q \in Req, way'[q].at = "wait"
       PROVE  q \in line.run \/ \E i \in 1 .. n + 1 : a[i] = q
  <2>1. CASE q = r
    BY <1>4, <2>1
  <2>2. CASE q # r /\ q \notin line.run
    <3>1. PICK i \in 1 .. n : w[i] = q
      BY <1>1, <1>10, <2>2, Zenon DEF PathInv, QueueInv, w, n
    <3> QED BY <1>4, <3>1
  <2> QED BY <2>1, <2>2, Zenon
<1>11. line'.wait = a /\ Len(a) = n + 1
  BY <1>4, <1>5, Zenon
<1>12. IsFiniteSet(line.run) /\ Cardinality(line.run) <= MaxWorker
  BY Zenon DEF PathInv, QueueInv
<1>13. /\ Len(line'.wait) <= line'.room
       /\ \A i \in 1 .. Len(line'.wait) :
            /\ line'.wait[i] \notin line'.run /\ way'[line'.wait[i]].at = "wait"
            /\ \A k \in 1 .. Len(line'.wait) : line'.wait[i] = line'.wait[k] => i = k
  <2>1. Len(line'.wait) = n + 1 /\ line'.run = line.run /\ line'.room = line.room
    BY <1>5, <1>11, Zenon
  <2>2. Len(line'.wait) <= line'.room
    BY <1>6, <2>1, Zenon
  <2>3. \A i \in 1 .. n + 1 :
          /\ a[i] \notin line.run /\ way'[a[i]].at = "wait"
          /\ \A k \in 1 .. n + 1 : a[i] = a[k] => i = k
    BY <1>9, Zenon
  <2> QED BY <1>11, <2>1, <2>2, <2>3
<1>14. \A q \in Req : way'[q].at = "wait" =>
         q \in line'.run \/ \E i \in 1 .. Len(line'.wait) : line'.wait[i] = q
  <2>1. Len(line'.wait) = n + 1 /\ line'.run = line.run
    BY <1>5, <1>11, Zenon
  <2>2. \A q \in Req : way'[q].at = "wait" =>
          q \in line.run \/ \E i \in 1 .. n + 1 : a[i] = q
    BY <1>10, Zenon
  <2> QED BY <1>11, <2>1, <2>2, Zenon
<1> QED BY <1>5, <1>7, <1>12, <1>13, <1>14, Zenon DEF QueueInv

\* A move keeps the invariant.
LEMMA MovesKeep ==
  ASSUME PathConstants, PathInv, NEW r \in Req, NEW x, Moves(r, x)
  PROVE  PathInv'
<1>1. QueueInv'
  BY StaysInLine, LeavesLine, EntersLine, JoinsLine, Zenon DEF Moves
<1> QED BY <1>1, OneMoves, Zenon DEF PathInv

-----------------------------------------------------------------------------
(* The steps *)

\* Before the queue, and past it.
LEMMA AwayMoves ==
  ASSUME PathInv, NEW r \in Req, NEW x, Orderly(x), Put(r, x), Alone,
         way[r].at \notin InQueue, x.at # "wait"
  PROVE  Moves(r, x)
BY Outside, Zenon DEF Moves, Alone, Settled, InQueue

\* Within it, by a source at work.
LEMMA StayMoves ==
  ASSUME PathInv, NEW r \in Req, NEW x, Orderly(x), Stay(r, x), way[r].at # "wait",
         x.at \in InQueue \cup {"end", "bodiless"}, x.at # "wait"
  PROVE  Moves(r, x)
BY Zenon DEF Moves, Stay, Settled, InQueue

\* A quiet request is not answered yet.
LEMMA QuietUnsent ==
  ASSUME PathInv, NEW r \in Req, way[r].at \in Quiet
  PROVE  way[r] \in Ways /\ way[r].sent = 0
BY Zenon DEF PathInv, Orderly

\* handle_denied_request.
LEMMA DeniedOrderly ==
  ASSUME NEW w \in Ways, w.sent = 0, NEW x \in Denied(w)
  PROVE  Orderly(x) /\ x.at \in {"end", "page"}
<1>1. x = SendHttp(w) \/ x = SendError(w) \/ x \in HandleError(w, "other")
  BY Zenon DEF Denied
<1> QED BY <1>1, SendOrderly, HandleErrorOrderly, Zenon

\* A request that is closed without an answer.
LEMMA ShutOrderly ==
  ASSUME NEW w \in Ways, w.sent = 0
  PROVE  LET x == Finish([w EXCEPT !.shut = TRUE])
         IN  Orderly(x) /\ x.at = "end"
BY FlagsKeep, FinishOrderly, Zenon

\* A source, or a list of them, is given.
LEMMA SourceOrderly ==
  ASSUME PathConstants, NEW r \in Req, NEW w \in Ways, w.sent = 0, NEW s \in Sources[r],
         NEW p \in {"start", "stream"}, NEW x, x = [w EXCEPT !.srcs = s, !.at = p]
  PROVE  Orderly(x) /\ x.at = p
<1>1. s # <<>> /\ s \in Seq(Names)
  BY Zenon DEF PathConstants, Names
<1>2. x \in Ways /\ x.at = p /\ x.sent = 0 /\ x.srcs = s
  BY <1>1, Zenon DEF Ways, Spots, Quiet
<1> QED BY <1>1, <1>2, Zenon DEF Orderly

\* start_request_fiber.
LEMMA AccessMoves ==
  ASSUME PathConstants, PathInv, NEW r \in Req,
         AnswerEarly(r) \/ GlobalAccess(r) \/ HostFails(r) \/ HostAccess(r)
  PROVE  \E x : Moves(r, x)
<1> DEFINE w == way[r]
           b == [w EXCEPT !.svh = TRUE]
           c == [w EXCEPT !.shut = TRUE]
<1>1. w.at \in {"access", "host"} /\ Alone
  BY Zenon DEF AnswerEarly, GlobalAccess, HostFails, HostAccess, At
<1>2. w \in Ways /\ w.sent = 0
  BY <1>1, QuietUnsent, Zenon DEF Quiet
<1>3. b \in Ways /\ b.sent = 0 /\ c \in Ways /\ c.sent = 0
  BY <1>2, FlagsKeep, Zenon
<1>4. ASSUME NEW x, Put(r, x), Orderly(x), x.at # "wait" PROVE \E y : Moves(r, y)
  BY <1>1, <1>4, AwayMoves, Zenon DEF InQueue
<1>5. CASE AnswerEarly(r)
  BY <1>2, <1>3, <1>4, <1>5, SendOrderly, ZenonT(30) DEF AnswerEarly
<1>6. CASE GlobalAccess(r)
  <2>1. PICK x : Put(r, x) /\ \/ x = Finish(c) \/ x = [w EXCEPT !.at = "host"]
                              \/ x = [w EXCEPT !.at = "start"] \/ x \in Denied(w)
                              \/ \E s \in Single(r) : x = [w EXCEPT !.srcs = s, !.at = "start"]
    BY <1>6, ZenonT(30) DEF GlobalAccess
  <2>2. Orderly(x) /\ x.at # "wait"
    <3>1. CASE x = Finish(c)
      BY <1>2, <3>1, ShutOrderly, Zenon
    <3>2. CASE x = [w EXCEPT !.at = "host"] \/ x = [w EXCEPT !.at = "start"]
      <4>1. {"host", "start"} \subseteq Quiet \ {"stream", "wait", "open"}
        BY Zenon DEF Quiet
      <4> HIDE DEF w
      <4> QED BY <1>2, <3>2, <4>1, MoveOrderly, Zenon
    <3>3. CASE x \in Denied(w)
      BY <1>2, <3>3, DeniedOrderly, Zenon
    <3>4. CASE \E s \in Single(r) : x = [w EXCEPT !.srcs = s, !.at = "start"]
      <4>1. PICK s \in Sources[r] : x = [w EXCEPT !.srcs = s, !.at = "start"]
        BY <3>4, ZenonT(30) DEF Single
      <4> HIDE DEF w
      <4>2. Orderly(x) /\ x.at = "start"
        BY <1>2, <4>1, SourceOrderly, ZenonT(30)
      <4> QED BY <4>2, Zenon
    <3> QED BY <2>1, <3>1, <3>2, <3>3, <3>4, Zenon
  <2> QED BY <1>4, <2>1, <2>2, Zenon
<1>7. CASE HostFails(r)
  BY <1>2, <1>4, <1>7, SendOrderly, Zenon DEF HostFails
<1>8. CASE HostAccess(r)
  <2>1. PICK x : Put(r, x) /\ \/ x = Finish([b EXCEPT !.shut = TRUE])
                              \/ x = [b EXCEPT !.at = "start"]
                              \/ x \in HandleError(b, "other") \/ x \in Denied(b)
                              \/ \E s \in Single(r) : x = [b EXCEPT !.srcs = s, !.at = "start"]
    BY <1>8, ZenonT(30) DEF HostAccess
  <2> HIDE DEF b
  <2>2. Orderly(x) /\ x.at # "wait"
    <3>1. CASE x = Finish([b EXCEPT !.shut = TRUE])
      BY <1>3, <3>1, ShutOrderly, Zenon
    <3>2. CASE x = [b EXCEPT !.at = "start"]
      BY <1>3, <3>2, MoveOrderly, Zenon DEF Quiet
    <3>3. CASE x \in HandleError(b, "other") \/ x \in Denied(b)
      BY <1>3, <3>3, HandleErrorOrderly, DeniedOrderly, Zenon
    <3>4. CASE \E s \in Single(r) : x = [b EXCEPT !.srcs = s, !.at = "start"]
      <4>1. PICK s \in Sources[r] : x = [b EXCEPT !.srcs = s, !.at = "start"]
        BY <3>4, ZenonT(30) DEF Single
      <4>2. Orderly(x) /\ x.at = "start"
        BY <1>3, <4>1, SourceOrderly, ZenonT(30)
      <4> QED BY <4>2, Zenon
    <3> QED BY <2>1, <3>1, <3>2, <3>3, <3>4, Zenon
  <2> QED BY <1>4, <2>1, <2>2, ZenonT(30)
<1> QED BY <1>5, <1>6, <1>7, <1>8, Zenon

\* fiber_http_start: the cache, and the choice of the sources.
LEMMA StartMoves ==
  ASSUME PathConstants, PathInv, NEW r \in Req,
         OnlyIfCached(r) \/ Miss(r) \/ Hit(r) \/ FinalSource(r)
  PROVE  \E x : Moves(r, x)
<1> DEFINE w == way[r]
           o == [w EXCEPT !.at = "load", !.old = TRUE]
<1>1. w.at \in {"start", "load"} /\ Alone
  BY Zenon DEF OnlyIfCached, Miss, Hit, FinalSource, At
<1>2. w \in Ways /\ w.sent = 0
  BY <1>1, QuietUnsent, Zenon DEF Quiet
<1>3. o \in Ways /\ o.sent = 0 /\ o.at = "load"
  BY <1>2, Zenon DEF Ways, Spots, Quiet
<1>4. ASSUME NEW x, Put(r, x), Orderly(x), x.at # "wait" PROVE \E y : Moves(r, y)
  BY <1>1, <1>4, AwayMoves, Zenon DEF InQueue
<1>5. "load" \in Quiet \ {"stream", "wait", "open"}
  BY Zenon DEF Quiet
<1>6. Orderly(o) /\ o.at # "wait"
  BY <1>3, Zenon DEF Orderly, Quiet
<1>7. CASE OnlyIfCached(r)
  BY <1>2, <1>4, <1>7, SendOrderly, Zenon DEF OnlyIfCached
<1>8. CASE Miss(r)
  <2>1. Put(r, [w EXCEPT !.at = "load"])
    BY <1>8, Zenon DEF Miss
  <2> HIDE DEF w
  <2> QED BY <1>2, <1>4, <1>5, <2>1, MoveOrderly, Zenon
<1>9. CASE Hit(r)
  <2>1. PICK x : Put(r, x) /\ \/ x = SendHttp(w) \/ x = SendError(w) \/ x = o
                              \/ x = [Header(w) EXCEPT !.at = "body"]
                              \/ x = [w EXCEPT !.at = "load"]
    BY <1>9, Zenon DEF Hit
  <2> HIDE DEF w, o
  <2>2. CASE x = SendHttp(w) \/ x = SendError(w)
    BY <1>2, <1>4, <2>1, <2>2, SendOrderly, Zenon
  <2>3. CASE x = o
    BY <1>4, <1>6, <2>1, <2>3, Zenon
  <2>4. CASE x = [Header(w) EXCEPT !.at = "body"]
    BY <1>2, <1>4, <2>1, <2>4, HeaderOnce, ZenonT(30)
  <2>5. CASE x = [w EXCEPT !.at = "load"]
    BY <1>2, <1>4, <1>5, <2>1, <2>5, MoveOrderly, Zenon
  <2> QED BY <2>1, <2>2, <2>3, <2>4, <2>5, Zenon
<1>10. CASE FinalSource(r)
  <2>1. PICK x : Put(r, x) /\ \/ x = SendError(w) \/ x = SendHttp(w)
                              \/ \E code \in {"page", "other"} : x \in HandleError(w, code)
                              \/ \E s \in Sources[r] : x = [w EXCEPT !.srcs = s, !.at = "stream"]
    BY <1>10, ZenonT(30) DEF FinalSource
  <2> HIDE DEF w
  <2>2. CASE x = SendHttp(w) \/ x = SendError(w)
    BY <1>2, <1>4, <2>1, <2>2, SendOrderly, ZenonT(30)
  <2>3. CASE \E code \in {"page", "other"} : x \in HandleError(w, code)
    BY <1>2, <1>4, <2>1, <2>3, HandleErrorOrderly, ZenonT(30)
  <2>4. CASE \E s \in Sources[r] : x = [w EXCEPT !.srcs = s, !.at = "stream"]
    <3>1. PICK s \in Sources[r] : x = [w EXCEPT !.srcs = s, !.at = "stream"]
      BY <2>4, ZenonT(30)
    <3>2. Orderly(x) /\ x.at = "stream"
      BY <1>2, <3>1, SourceOrderly, Zenon
    <3> QED BY <1>4, <2>1, <3>2, ZenonT(30)
  <2> QED BY <2>1, <2>2, <2>3, <2>4, Zenon
<1> QED BY <1>7, <1>8, <1>9, <1>10, Zenon

\* A request with sources goes to one of the queue's places.
LEMMA QueueOrderly ==
  ASSUME NEW w, Orderly(w), w.at \in {"stream", "wait", "open"},
         NEW p \in {"wait", "open"}, NEW x, x = [w EXCEPT !.at = p]
  PROVE  Orderly(x) /\ x.at = p
<1>1. w \in Ways /\ w.sent = 0 /\ w.srcs # <<>>
  BY Zenon DEF Orderly, Quiet
<1>2. x \in Ways /\ x.at = p /\ x.sent = 0 /\ x.srcs = w.srcs
  BY <1>1, Zenon DEF Ways, Spots, Quiet
<1> QED BY <1>1, <1>2, Zenon DEF Orderly

\* The queue: a place, a wait for one, a refusal, and the turn that comes.
LEMMA EnqueueMoves ==
  ASSUME PathConstants, PathInv, NEW r \in Req, Enqueue(r) \/ Granted(r)
  PROVE  \E x : Moves(r, x)
<1> DEFINE w == way[r]
           a == [w EXCEPT !.at = "open"]
           b == [w EXCEPT !.at = "wait"]
<1>1. w.at \in {"stream", "wait"} /\ Orderly(w) /\ w \in Ways /\ w.sent = 0
  BY Zenon DEF Enqueue, Granted, At, PathInv, Orderly, Quiet
<1>2. Orderly(a) /\ a.at = "open" /\ Orderly(b) /\ b.at = "wait"
  <2> HIDE DEF w
  <2> QED BY <1>1, QueueOrderly, Zenon
<1>3. CASE Enqueue(r)
  <2>1. w.at = "stream" /\ r \notin line.run /\ Settled(r)
    BY <1>3, Outside, Zenon DEF Enqueue, At, InQueue, Settled
  <2>2. \/ line' = line /\ Put(r, a)
        \/ ~Busy(line) /\ line' = [line EXCEPT !.run = @ \cup {r}] /\ Put(r, a)
        \/ ~Full(line) /\ line' = [line EXCEPT !.wait = Append(@, r)] /\ Put(r, b)
        \/ line' = line /\ \E x \in HandleError(w, "other") : Put(r, x)
    BY <1>3, Zenon DEF Enqueue
  <2> HIDE DEF a, b
  <2>3. CASE line' = line /\ Put(r, a)
    BY <1>2, <2>1, <2>3, Zenon DEF Moves
  <2>4. CASE ~Busy(line) /\ line' = [line EXCEPT !.run = @ \cup {r}] /\ Put(r, a)
    BY <1>2, <2>1, <2>4, Zenon DEF Moves
  <2>5. CASE ~Full(line) /\ line' = [line EXCEPT !.wait = Append(@, r)] /\ Put(r, b)
    BY <1>2, <2>1, <2>5, Zenon DEF Moves
  <2>6. CASE line' = line /\ \E x \in HandleError(w, "other") : Put(r, x)
    <3>1. PICK x \in HandleError(w, "other") : Put(r, x)
      BY <2>6, Zenon
    <3>2. Orderly(x) /\ x.at # "wait"
      BY <1>1, HandleErrorOrderly, Zenon
    <3> QED BY <2>1, <2>6, <3>1, <3>2, Zenon DEF Moves
  <2> QED BY <2>2, <2>3, <2>4, <2>5, <2>6, Zenon
<1>4. CASE Granted(r)
  <2>1. r \in line.run /\ Settled(r)
    BY <1>4, Zenon DEF Granted, Settled
  <2>2. \/ line' = line /\ Put(r, a)
        \/ line' = Leave(r, line) /\ \E x \in HandleError(w, "other") : Put(r, x)
    BY <1>4, Zenon DEF Granted
  <2> HIDE DEF a
  <2>3. CASE line' = line /\ Put(r, a)
    BY <1>2, <2>1, <2>3, Zenon DEF Moves, InQueue
  <2>4. CASE line' = Leave(r, line) /\ \E x \in HandleError(w, "other") : Put(r, x)
    <3>1. PICK x \in HandleError(w, "other") : Put(r, x)
      BY <2>4, Zenon
    <3>2. Orderly(x) /\ x.at # "wait"
      BY <1>1, HandleErrorOrderly, Zenon
    <3> QED BY <2>1, <2>4, <3>1, <3>2, Zenon DEF Moves
  <2> QED BY <2>2, <2>3, <2>4, Zenon
<1> QED BY <1>3, <1>4, Zenon

\* The open source fails, answers, reads the request body or declines.
LEMMA OpenMoves ==
  ASSUME PathConstants, PathInv, NEW r \in Req,
         OpenFails(r) \/ OpenAnswers(r) \/ OpenReads(r) \/ OpenDeclines(r)
  PROVE  \E x : Moves(r, x)
<1> DEFINE w == way[r]
<1>1. w.at = "open" /\ Orderly(w) /\ w \in Ways /\ w.sent = 0 /\ w.srcs # <<>>
  BY Zenon DEF OpenFails, OpenAnswers, OpenReads, OpenDeclines, At, PathInv, Orderly, Quiet
<1>2. ASSUME NEW x, Stay(r, x), Orderly(x), x.at \in {"end", "bodiless", "body", "page"}
      PROVE  \E y : Moves(r, y)
  BY <1>1, <1>2, StayMoves, Zenon DEF InQueue
<1>3. CASE OpenFails(r)
  BY <1>1, <1>2, <1>3, HandleErrorOrderly, Zenon DEF OpenFails
<1>4. CASE OpenAnswers(r)
  <2> DEFINE n == [w EXCEPT !.at = "bodiless", !.checked = TRUE]
  <2>1. n \in Ways /\ n.at = "bodiless" /\ n.sent = 0
    BY <1>1, Zenon DEF Ways, Spots, Quiet
  <2>2. PICK x : Stay(r, x) /\ (x \in FinishHeader(w) \/ x = n)
    BY <1>4, Zenon DEF OpenAnswers
  <2> HIDE DEF n, w
  <2>3. Orderly(n)
    BY <2>1, Zenon DEF Orderly, Quiet
  <2>4. Orderly(x) /\ x.at \in {"end", "bodiless", "body", "page"}
    BY <1>1, <2>1, <2>2, <2>3, FinishHeaderOrderly, Zenon
  <2> QED BY <1>2, <2>2, <2>4, Zenon
<1>5. CASE OpenReads(r)
  <2> DEFINE x == [w EXCEPT !.took = TRUE]
  <2>1. x \in Ways /\ x.at = "open" /\ x.sent = 0 /\ x.srcs = w.srcs
    BY <1>1, Zenon DEF Ways
  <2>2. Put(r, x) /\ line' = line
    BY <1>5, Zenon DEF OpenReads, Alone
  <2> HIDE DEF x
  <2>3. Orderly(x)
    BY <1>1, <2>1, Zenon DEF Orderly
  <2> QED BY <1>1, <2>1, <2>2, <2>3, Zenon DEF Moves, Settled, InQueue
<1>6. CASE OpenDeclines(r)
  <2> DEFINE t == [w EXCEPT !.srcs = Tail(@)]
             d == [t EXCEPT !.res = "declined"]
  <2>1. Tail(w.srcs) \in Seq(Names)
    BY <1>1 DEF Ways
  <2>2. t \in Ways /\ t.at = "open" /\ t.sent = 0 /\ t.srcs = Tail(w.srcs)
    <3> DEFINE u == Tail(w.srcs)
    <3>1. u \in Seq(Names) /\ t = [w EXCEPT !.srcs = u]
      BY <2>1, Zenon
    <3> HIDE DEF u, t
    <3>2. t \in Ways /\ t.at = "open" /\ t.sent = 0 /\ t.srcs = u
      BY <1>1, <3>1, Zenon DEF Ways
    <3> QED BY <3>2, Zenon DEF u
  <2>3. PICK x : /\ Put(r, x) /\ line' = Leave(r, line)
                 /\ (x = t /\ t.srcs # <<>>) \/ x = Finish(d)
    BY <1>6, Zenon DEF OpenDeclines
  <2> HIDE DEF t
  <2>4. d \in Ways /\ d.sent = 0 /\ d.res = "declined"
    BY <2>2, Zenon DEF Ways
  <2> HIDE DEF d
  <2>5. Orderly(Finish(d)) /\ Finish(d).at = "end"
    BY <2>4, FinishOrderly, Zenon DEF Unanswered
  <2>6. t.srcs # <<>> => Orderly(t)
    BY <2>2, Zenon DEF Orderly
  <2> QED BY <1>1, <2>2, <2>3, <2>5, <2>6, Zenon DEF Moves, Settled
<1> QED BY <1>3, <1>4, <1>5, <1>6, Zenon

\* The body, the page of an error and the file of a redirect.
LEMMA BodyMoves ==
  ASSUME PathConstants, PathInv, NEW r \in Req, Body(r) \/ Page(r) \/ SendFile(r)
  PROVE  \E x : Moves(r, x)
<1> DEFINE w == way[r]
<1>1. w.at \in {"body", "page", "redirect"} /\ Orderly(w) /\ w \in Ways
      /\ (w.at # "body" => w.sent = 0)
  BY Zenon DEF Body, Page, SendFile, At, PathInv, Orderly, Quiet
<1>2. ASSUME NEW x, Stay(r, x), Orderly(x), x.at \in {"end", "body", "page", "redirect"}
      PROVE  \E y : Moves(r, y)
  BY <1>1, <1>2, StayMoves, Zenon DEF InQueue
<1>3. CASE Body(r)
  <2>1. w.sent = 1 /\ Stay(r, Finish(w))
    BY <1>1, <1>3, Zenon DEF Body, BodyEnds, At, Orderly
  <2> HIDE DEF w
  <2> QED BY <1>1, <1>2, <2>1, FinishOrderly, Zenon
<1>4. CASE Page(r)
  <2>1. PICK x : Stay(r, x) /\ \/ x \in FinishHeader(w) \/ x \in HandleError(w, "page")
                               \/ x = Respond(w) \/ x = [w EXCEPT !.at = "redirect"]
    BY <1>4, Zenon DEF Page
  <2>2. w.sent = 0 /\ "redirect" \in Quiet \ {"stream", "wait", "open"}
    BY <1>1, <1>4, Zenon DEF Page, At, Quiet
  <2> HIDE DEF w
  <2>3. CASE x \in FinishHeader(w) \/ x \in HandleError(w, "page") \/ x = Respond(w)
    BY <1>1, <1>2, <2>1, <2>2, <2>3, FinishHeaderOrderly, HandleErrorOrderly, SendOrderly, Zenon
  <2>4. CASE x = [w EXCEPT !.at = "redirect"]
    BY <1>1, <1>2, <2>1, <2>2, <2>4, MoveOrderly, Zenon
  <2> QED BY <2>1, <2>3, <2>4, Zenon
<1>5. CASE SendFile(r)
  <2> DEFINE b == [w EXCEPT !.res = "bodiless"]
  <2>1. PICK x : Stay(r, x) /\ \/ x \in FinishHeader(w) \/ x \in HandleError(w, "page")
                               \/ x = SendError(w) \/ x = Finish(b)
    BY <1>5, Zenon DEF SendFile
  <2>2. w.sent = 0
    BY <1>1, <1>5, Zenon DEF SendFile, At
  <2>3. b \in Ways /\ b.sent = 0 /\ b.res = "bodiless"
    BY <1>1, <2>2, Zenon DEF Ways
  <2> HIDE DEF w, b
  <2>4. CASE x \in FinishHeader(w) \/ x \in HandleError(w, "page") \/ x = SendError(w)
    BY <1>1, <1>2, <2>1, <2>2, <2>4, FinishHeaderOrderly, HandleErrorOrderly, SendOrderly, Zenon
  <2>5. CASE x = Finish(b)
    BY <1>2, <2>1, <2>3, <2>5, FinishOrderly, Zenon DEF Unanswered
  <2> QED BY <2>1, <2>4, <2>5, Zenon
<1> QED BY <1>3, <1>4, <1>5, Zenon

\* An answer without a body, a client that goes away, and the end.
LEMMA LastMoves ==
  ASSUME PathConstants, PathInv, NEW r \in Req, NoBody(r) \/ SinkReadHup(r) \/ EndRequest(r)
  PROVE  \E x : Moves(r, x)
<1> DEFINE w == way[r]
<1>1. Orderly(w) /\ w \in Ways
  BY Zenon DEF PathInv, Orderly
<1>2. ASSUME NEW x, Put(r, x), Alone, Orderly(x), x.at # "wait", w.at \notin InQueue
      PROVE  \E y : Moves(r, y)
  BY <1>2, AwayMoves, Zenon
<1>3. CASE NoBody(r)
  <2>1. w.at = "bodiless" /\ Alone /\ w.sent = 0 /\ w.at \notin InQueue
        /\ "redirect" \in Quiet \ {"stream", "wait", "open"}
    BY <1>1, <1>3, Zenon DEF NoBody, At, Orderly, Quiet, InQueue
  <2>2. PICK x : Put(r, x) /\ \/ x = SendHttp(w) \/ x = Respond(w)
                              \/ x = [Header(w) EXCEPT !.at = "body"]
                              \/ x = [w EXCEPT !.at = "redirect"]
    BY <1>3, Zenon DEF NoBody
  <2> HIDE DEF w
  <2>3. CASE x = SendHttp(w) \/ x = Respond(w)
    BY <1>1, <1>2, <2>1, <2>2, <2>3, SendOrderly, Zenon
  <2>4. CASE x = [Header(w) EXCEPT !.at = "body"]
    BY <1>1, <1>2, <2>1, <2>2, <2>4, HeaderOnce, Zenon
  <2>5. CASE x = [w EXCEPT !.at = "redirect"]
    BY <1>1, <1>2, <2>1, <2>2, <2>5, MoveOrderly, Zenon
  <2> QED BY <2>2, <2>3, <2>4, <2>5, Zenon
<1>4. CASE SinkReadHup(r)
  <2> DEFINE x == [w EXCEPT !.hup = TRUE]
  <2>1. x \in Ways /\ x.at = w.at /\ x.sent = w.sent /\ x.srcs = w.srcs /\ x.res = w.res
    BY <1>1, Zenon DEF Ways
  <2>2. Put(r, x) /\ line' = line /\ w.at \in {"open", "body", "page", "redirect"}
    BY <1>4, Zenon DEF SinkReadHup, Alone
  <2> HIDE DEF x
  <2>3. Orderly(x)
    BY <1>1, <2>1, Zenon DEF Orderly
  <2> QED BY <2>1, <2>2, <2>3, Zenon DEF Moves, Settled, InQueue
<1>5. CASE EndRequest(r)
  <2> DEFINE x == [w EXCEPT !.at = "done"]
  <2>1. x \in Ways /\ x.at = "done" /\ x.sent = w.sent /\ x.res = w.res
    BY <1>1, Zenon DEF Ways, Spots
  <2>2. Put(r, x) /\ Alone /\ w.at = "end"
    BY <1>5, Zenon DEF EndRequest, At
  <2> HIDE DEF x
  <2>3. Orderly(x)
    BY <1>1, <2>1, <2>2, Zenon DEF Orderly, Quiet
  <2> QED BY <1>2, <2>1, <2>2, <2>3, Zenon DEF InQueue
<1> QED BY <1>3, <1>4, <1>5, Zenon

\* The invariant holds at first, with the queue empty.
LEMMA PathInitially == ASSUME PathConstants, PathInit PROVE PathInv
<1>1. Begun \in Ways /\ Begun.at = "access" /\ Begun.sent = 0
  BY DEF Begun, Ways, Spots, Quiet
<1>2. Orderly(Begun)
  BY <1>1, Zenon DEF Orderly
<1>3. \A r \in Req : way[r] = Begun
  BY Zenon DEF PathInit
<1>4. way \in [Req -> Ways] /\ \A r \in Req : Orderly(way[r])
  BY <1>1, <1>2, Zenon DEF PathInit
<1>5. PICK n \in Rooms : line = [run |-> {}, wait |-> <<>>, room |-> n]
  BY Zenon DEF PathInit
<1>6. line.run = {} /\ line.wait = <<>> /\ line.room = n /\ n \in Nat
      /\ line \in [run : SUBSET Req, wait : Seq(Req), room : Nat] /\ MaxWorker \in Nat
  BY <1>5 DEF PathConstants
<1>7. IsFiniteSet({}) /\ Cardinality({}) = 0
  BY FS_EmptySet, Zenon
<1>8. QueueInv
  BY <1>1, <1>3, <1>6, <1>7 DEF QueueInv
<1> QED BY <1>4, <1>8, Zenon DEF PathInv

\* Every step keeps it.
LEMMA PathKeeps ==
  ASSUME PathConstants, PathInv, [PathNext]_pathVars PROVE PathInv'
<1>1. CASE UNCHANGED pathVars
  BY <1>1, Zenon DEF pathVars, PathInv, QueueInv
<1>2. ASSUME NEW r \in Req, Advance(r) \/ SinkReadHup(r) PROVE PathInv'
  <2>1. \E x : Moves(r, x)
    BY <1>2, AccessMoves, StartMoves, EnqueueMoves, OpenMoves, BodyMoves, LastMoves, Zenon
    DEF Advance
  <2> QED BY <2>1, MovesKeep, Zenon
<1> QED BY <1>1, <1>2, Zenon DEF PathNext

\* The inductive invariant of the way of a request.
THEOREM PathInvariant == PathSpec => []PathInv
<1>1. PathInit => PathInv
  BY PathAssumption, PathInitially, Zenon
<1>2. PathInv /\ [PathNext]_pathVars => PathInv'
  BY PathAssumption, PathKeeps, Zenon
<1> QED BY <1>1, <1>2, PTL DEF PathSpec

\* The header of an answer goes out at most once (the assertion of
\* build_obj_header on RQ_HAS_SEND_HEADER), and no request ends silently except
\* in the three ways the code has, for any requests and sources.
THEOREM RequestsAnsweredOnce == PathSpec => []AnsweredOnce
<1>1. PathInv => AnsweredOnce
  <2> SUFFICES ASSUME PathInv, NEW r \in Req
               PROVE  /\ way[r].sent <= 1
                      /\ way[r].at \in {"end", "done"} =>
                           way[r].sent = 1 \/ way[r].res \in {"closed", "declined", "bodiless"}
    BY Zenon DEF AnsweredOnce
  <2>1. Orderly(way[r])
    BY Zenon DEF PathInv
  <2> QED BY <2>1 DEF Orderly, Ways, Spots, Unanswered
<1> QED BY <1>1, PathInvariant, PTL

\* The queue of a source never has more workers or waiters than it may, its
\* places belong to requests that use them, and nobody waits unknown to it
\* (KRequestQueue's start and the deferred stop in open_queued_fetchobj).
THEOREM QueuePlacesUsed == PathSpec => []PlacesUsed
<1>1. PathInv => PlacesUsed
  <2> SUFFICES ASSUME QueueInv PROVE PlacesUsed
    BY Zenon DEF PathInv
  <2>1. line.wait \in Seq(Req)
    BY Zenon DEF QueueInv
  <2>2. Range(line.wait) = {line.wait[i] : i \in 1 .. Len(line.wait)}
    BY <2>1 DEF Range
  <2> QED BY <2>2 DEF QueueInv, PlacesUsed, InQueue, At
<1> QED BY <1>1, PathInvariant, PTL

-----------------------------------------------------------------------------
(* The exchange with upstream nodes (UpstreamFetch) *)

Jobs == [at : Places, kind : Kinds, node : Node \cup {<<>>},
         conn : {"none", "pool", "new"}, retried : BOOLEAN, hup : BOOLEAN,
         took : BOOLEAN, given : Nat, done : BOOLEAN,
         post : {"none", "run", "done"},
         res : {"none", "retry", "broken", "response", "error", "end", "ok"}]

FetchTypes ==
  /\ nodes \in [gen : 0 .. MaxReloads, v : Seq(Origin), b : Seq(Origin)]
  /\ refs \in [Node -> Int]
  /\ idle \in [Node -> [Conditions -> Nat]]
  /\ job \in [Rq -> Jobs]

\* Before the body of an unsafe request has gone out: on the way to a
\* connection, while its header or body is written, while it waits for 100
\* Continue, and when a failure allows it to be tried again.
Before(j) ==
  \/ j.at \in {"pick", "connect", "send", "post", "continue"}
  \/ j.at = "head" /\ j.kind.mode = "expect" /\ ~j.took
  \/ j.at = "settle" /\ j.res = "retry"

\* Only a tunnel or a stream of its own has a post fiber, and it is not started
\* before that.
HandedOnce(j) ==
  /\ j.kind.mode \in {"plain", "expect"} => j.post = "none"
  /\ ~j.kind.safe => /\ j.given <= 1
                     /\ Before(j) => j.given = 0 /\ j.post = "none"

\* A request names a node from the moment it is chosen until the connection is
\* given back or could not be made.
Placed(j) ==
  /\ j.at \in {"idle", "pick"} => j.node = <<>> /\ j.conn = "none"
  /\ j.at = "connect" => j.node # <<>> /\ j.conn = "none"
  /\ j.at \in {"send", "post", "head", "continue", "body"} => j.node # <<>> /\ j.conn # "none"
  /\ j.at \in {"settle", "join"} => (j.node = <<>> <=> j.conn = "none")

\* A fetch that fits: its node is of a list that has been in force.
Fit(j, gen) ==
  /\ j \in Jobs /\ HandedOnce(j) /\ Placed(j)
  /\ j.node # <<>> => j.node[1] <= gen

FetchInv ==
  /\ FetchTypes
  /\ \A r \in Rq : Fit(job[r], nodes.gen)
  /\ NodesHeldWhileUsed
  /\ PooledIsRead

-----------------------------------------------------------------------------
(* Facts about the data *)

\* An unsafe request has a body and is no upgrade.
LEMMA KindFacts ==
  /\ \A k \in Kinds : /\ k.safe \in BOOLEAN /\ k.body \in BOOLEAN
                      /\ k.mode \in {"plain", "expect", "grpc", "upgrade"}
                      /\ ~k.safe => k.body /\ k.mode # "upgrade"
  /\ \E k \in Kinds : k.safe
BY DEF Kinds, Kind

\* A node is a pair of a generation and an origin.
LEMMA NodeFacts == /\ <<>> \notin Node
                   /\ \A n \in Node : n[1] \in 0 .. MaxReloads
BY DEF Node

\* A request without a fetch fits.
LEMMA NoJobFits ==
  ASSUME NEW gen PROVE Fit(NoJob, gen) /\ NoJob.node = <<>>
<1>1. (CHOOSE k \in Kinds : k.safe) \in Kinds /\ (CHOOSE k \in Kinds : k.safe).safe
  BY KindFacts, Zenon
<1>2. NoJob.kind.safe /\ NoJob.post = "none" /\ NoJob.node = <<>> /\ NoJob.conn = "none"
      /\ NoJob.at = "idle"
  BY <1>1, Zenon DEF NoJob
<1>3. NoJob \in Jobs
  BY <1>1, Zenon DEF NoJob, Jobs, Places
<1> QED BY <1>2, <1>3, Zenon DEF Fit, HandedOnce, Placed

\* Whom a node serves, counted.
UsersOf(n) == {r \in Rq : job[r].node = n}

\* There are finitely many of them.
LEMMA UsersFinite ==
  ASSUME FetchConstants, NEW n
  PROVE  IsFiniteSet(UsersOf(n)) /\ Cardinality(UsersOf(n)) \in Nat
<1>1. UsersOf(n) \subseteq Rq /\ IsFiniteSet(Rq)
  BY Zenon DEF UsersOf, FetchConstants
<1> QED BY <1>1, FS_Subset, FS_CardinalityType, Zenon

-----------------------------------------------------------------------------
(* The three ways a step of a request changes who holds a node *)

\* The job of one request is replaced by one that fits.
LEMMA JobsFit ==
  ASSUME FetchInv, NEW r \in Rq, NEW j, Fit(j, nodes.gen), Set(r, j), UNCHANGED nodes
  PROVE  /\ job' \in [Rq -> Jobs]
         /\ \A q \in Rq : job'[q] = IF q = r THEN j ELSE job[q]
         /\ \A q \in Rq : Fit(job[q], nodes.gen)'
<1>1. job \in [Rq -> Jobs] /\ j \in Jobs
  BY Zenon DEF FetchInv, FetchTypes, Fit
<1>2. job' \in [Rq -> Jobs] /\ \A q \in Rq : job'[q] = IF q = r THEN j ELSE job[q]
  BY <1>1, Zenon DEF Set
<1>3. ASSUME NEW q \in Rq PROVE Fit(job'[q], nodes.gen)
  BY <1>2, Zenon DEF FetchInv
<1>4. nodes'.gen = nodes.gen
  OBVIOUS
<1> QED BY <1>2, <1>3, <1>4, Zenon DEF Fit

\* It keeps its node, or stays without one.
LEMMA HoldsSame ==
  ASSUME FetchInv, NEW r \in Rq, NEW j, Fit(j, nodes.gen), j.node = job[r].node,
         Set(r, j), UNCHANGED <<nodes, refs>>,
         idle' \in [Node -> [Conditions -> Nat]], PooledIsRead'
  PROVE  FetchInv'
<1>1. /\ job' \in [Rq -> Jobs]
      /\ \A q \in Rq : job'[q] = IF q = r THEN j ELSE job[q]
      /\ \A q \in Rq : Fit(job[q], nodes.gen)'
  BY JobsFit, Zenon
<1>2. \A q \in Rq : job'[q].node = job[q].node
  BY <1>1, Zenon
<1>3. \A n \in Node : UsersOf(n)' = UsersOf(n)
  BY <1>2, Zenon DEF UsersOf
<1>4. Listed' = Listed
  BY Zenon DEF Listed
<1>5. NodesHeldWhileUsed'
  BY <1>3, <1>4, Zenon DEF FetchInv, NodesHeldWhileUsed, UsersOf
<1>6. FetchTypes'
  BY <1>1, Zenon DEF FetchInv, FetchTypes
<1> QED BY <1>1, <1>5, <1>6, Zenon DEF FetchInv

\* It takes a node with a reference.
LEMMA HoldsMore ==
  ASSUME FetchConstants, FetchInv, NEW r \in Rq, NEW n \in Node, NEW j,
         Fit(j, nodes.gen), job[r].node = <<>>, j.node = n,
         Set(r, j), refs' = [refs EXCEPT ![n] = @ + 1], UNCHANGED <<nodes, idle>>
  PROVE  FetchInv'
<1>1. /\ job' \in [Rq -> Jobs]
      /\ \A q \in Rq : job'[q] = IF q = r THEN j ELSE job[q]
      /\ \A q \in Rq : Fit(job[q], nodes.gen)'
  BY JobsFit, Zenon
<1>2. ASSUME NEW k \in Node
      PROVE  Cardinality(UsersOf(k)') = Cardinality(UsersOf(k)) + (IF k = n THEN 1 ELSE 0)
  <2>1. r \notin UsersOf(k)
    BY NodeFacts, Zenon DEF UsersOf
  <2>2. UsersOf(k)' = IF k = n THEN UsersOf(k) \cup {r} ELSE UsersOf(k)
    BY <1>1, <2>1, Zenon DEF UsersOf
  <2>3. IsFiniteSet(UsersOf(k)) /\ Cardinality(UsersOf(k)) \in Nat
    BY UsersFinite, Zenon
  <2>4. Cardinality(UsersOf(k) \cup {r}) = Cardinality(UsersOf(k)) + 1
    BY <2>1, <2>3, FS_AddElement, Zenon
  <2> QED BY <2>2, <2>3, <2>4
<1>3. refs' \in [Node -> Int] /\ \A k \in Node : refs'[k] = refs[k] + (IF k = n THEN 1 ELSE 0)
  BY DEF FetchInv, FetchTypes
<1>4. Listed' = Listed
  BY Zenon DEF Listed
<1>5. ASSUME NEW k \in Node
      PROVE  refs'[k] = (IF k \in Listed' THEN 1 ELSE 0) + Cardinality(UsersOf(k)')
  <2>1. refs[k] = (IF k \in Listed THEN 1 ELSE 0) + Cardinality(UsersOf(k))
    BY Zenon DEF FetchInv, NodesHeldWhileUsed, UsersOf
  <2> QED BY <1>2, <1>3, <1>4, <2>1, UsersFinite
<1>6. NodesHeldWhileUsed'
  BY <1>5, Zenon DEF NodesHeldWhileUsed, UsersOf
<1>7. FetchTypes'
  BY <1>1, <1>3, Zenon DEF FetchInv, FetchTypes
<1>8. PooledIsRead'
  BY Zenon DEF FetchInv, PooledIsRead
<1> QED BY <1>1, <1>6, <1>7, <1>8, Zenon DEF FetchInv

\* It gives its node up with a reference.
LEMMA HoldsLess ==
  ASSUME FetchConstants, FetchInv, NEW r \in Rq, NEW j,
         Fit(j, nodes.gen), job[r].node \in Node, j.node = <<>>,
         Set(r, j), UNCHANGED nodes,
         refs' = [k \in Node |-> IF k = job[r].node THEN refs[k] - 1 ELSE refs[k]],
         idle' \in [Node -> [Conditions -> Nat]], PooledIsRead'
  PROVE  FetchInv'
<1> DEFINE n == job[r].node
<1>1. /\ job' \in [Rq -> Jobs]
      /\ \A q \in Rq : job'[q] = IF q = r THEN j ELSE job[q]
      /\ \A q \in Rq : Fit(job[q], nodes.gen)'
  BY JobsFit, Zenon
<1>2. ASSUME NEW k \in Node
      PROVE  Cardinality(UsersOf(k)') = Cardinality(UsersOf(k)) - (IF k = n THEN 1 ELSE 0)
  <2>1. r \in UsersOf(n)
    BY Zenon DEF UsersOf
  <2>2. UsersOf(k)' = IF k = n THEN UsersOf(k) \ {r} ELSE UsersOf(k)
    BY <1>1, NodeFacts, Zenon DEF UsersOf
  <2>3. IsFiniteSet(UsersOf(k)) /\ Cardinality(UsersOf(k)) \in Nat
    BY UsersFinite, Zenon
  <2>4. k = n => Cardinality(UsersOf(k) \ {r}) = Cardinality(UsersOf(k)) - 1
    BY <2>1, <2>3, FS_RemoveElement, Zenon
  <2> QED BY <2>2, <2>3, <2>4
<1>3. refs' \in [Node -> Int] /\ \A k \in Node : refs'[k] = refs[k] - (IF k = n THEN 1 ELSE 0)
  BY DEF FetchInv, FetchTypes
<1>4. Listed' = Listed
  BY Zenon DEF Listed
<1>5. ASSUME NEW k \in Node
      PROVE  refs'[k] = (IF k \in Listed' THEN 1 ELSE 0) + Cardinality(UsersOf(k)')
  <2>1. refs[k] = (IF k \in Listed THEN 1 ELSE 0) + Cardinality(UsersOf(k))
    BY Zenon DEF FetchInv, NodesHeldWhileUsed, UsersOf
  <2> QED BY <1>2, <1>3, <1>4, <2>1, UsersFinite
<1>6. NodesHeldWhileUsed'
  BY <1>5, Zenon DEF NodesHeldWhileUsed, UsersOf
<1>7. FetchTypes'
  BY <1>1, <1>3, Zenon DEF FetchInv, FetchTypes
<1> QED BY <1>1, <1>6, <1>7, Zenon DEF FetchInv

-----------------------------------------------------------------------------
(* The steps of a request *)

\* The rest of a division.
LEMMA ModRange == ASSUME NEW a \in Nat, NEW n \in Nat, n > 0 PROVE a % n \in 0 .. n - 1
OBVIOUS

\* Going round the list of primaries in either direction stays in it.
LEMMA Around ==
  ASSUME NEW n \in Nat, NEW i \in 1 .. n, NEW k \in 1 .. n
  PROVE  ((i + k - 2) % n) + 1 \in 1 .. n /\ ((i + n - k) % n) + 1 \in 1 .. n
<1>1. i + k - 2 \in Nat /\ i + n - k \in Nat /\ n > 0
  OBVIOUS
<1>2. \A a \in 0 .. n - 1 : a + 1 \in 1 .. n
  OBVIOUS
<1>3. (i + k - 2) % n \in 0 .. n - 1 /\ (i + n - k) % n \in 0 .. n - 1
  BY <1>1, ModRange, Zenon
<1> QED BY <1>2, <1>3, Zenon

\* The nodes nextActiveNode and the backups are taken from are listed ones.
LEMMA WalkListed ==
  ASSUME FetchTypes, nodes.v # <<>>, NEW i \in DOMAIN nodes.v
  PROVE  /\ 1 \in DOMAIN Walk(i)
         /\ \A k \in DOMAIN Walk(i) : Walk(i)[k] \in Node /\ Walk(i)[k][1] = nodes.gen
<1> DEFINE n == Len(nodes.v)
<1>1. nodes.v \in Seq(Origin) /\ n \in Nat /\ n > 0 /\ DOMAIN nodes.v = 1 .. n /\ i \in 1 .. n
  BY DEF FetchTypes
<1>2. \A k \in 1 .. n : /\ ((i + k - 2) % n) + 1 \in 1 .. n
                        /\ ((i + n - k) % n) + 1 \in 1 .. n
  BY <1>1, Around, Zenon
<1>3. \A k \in 1 .. n : Primary(k) \in Node /\ Primary(k)[1] = nodes.gen
  BY <1>1 DEF FetchTypes, Primary, Node
<1>4. DOMAIN Walk(i) = 1 .. n
  BY Zenon DEF Walk
<1>5. \A k \in 1 .. n : Walk(i)[k] \in Node /\ Walk(i)[k][1] = nodes.gen
  BY <1>2, <1>3, Zenon DEF Walk
<1>6. 1 \in 1 .. n
  BY <1>1
<1> QED BY <1>4, <1>5, <1>6, Zenon

\* A fetch that is looking for a node gets a listed one.
LEMMA TakesNode ==
  ASSUME FetchConstants, FetchInv, NEW r \in Rq, NEW n \in Node, n[1] = nodes.gen,
         job[r].at = "pick", refs' = [refs EXCEPT ![n] = @ + 1],
         Set(r, [job[r] EXCEPT !.at = "connect", !.node = n]), UNCHANGED <<nodes, idle>>
  PROVE  FetchInv'
<1> DEFINE j == [job[r] EXCEPT !.at = "connect", !.node = n]
<1>1. Fit(job[r], nodes.gen) /\ nodes.gen \in Nat
  BY DEF FetchInv, FetchTypes
<1>2. job[r].node = <<>> /\ job[r].conn = "none"
  BY <1>1, Zenon DEF Fit, Placed
<1>3. j \in Jobs /\ j.at = "connect" /\ j.node = n /\ j.conn = "none" /\ j.kind = job[r].kind
      /\ j.given = job[r].given /\ j.post = job[r].post /\ j.res = job[r].res
  BY <1>1, <1>2, Zenon DEF Fit, Jobs, Places
<1>4. HandedOnce(j)
  BY <1>1, <1>3, Zenon DEF Fit, HandedOnce, Before
<1>5. Placed(j)
  BY <1>3, NodeFacts, Zenon DEF Placed
<1>6. Fit(j, nodes.gen)
  BY <1>1, <1>3, <1>4, <1>5 DEF Fit
<1> QED BY <1>2, <1>3, <1>6, HoldsMore, Zenon

\* GetUpstream chooses a listed node, or the request ends with an error.
LEMMA GetUpstreamKeeps ==
  ASSUME FetchConstants, FetchInv, NEW r \in Rq, NEW i, GetUpstream(r, i)
  PROVE  FetchInv'
<1> DEFINE backups == [k \in DOMAIN nodes.b |-> Backup(k)]
           walk == IF nodes.v = <<>> THEN <<>> ELSE Walk(i)
           Good(n) == n \in Node /\ n[1] = nodes.gen
<1>1. job[r].at = "pick" /\ Choose(r, walk) /\ UNCHANGED <<nodes, idle>>
      /\ (nodes.v # <<>> => i \in DOMAIN nodes.v)
  BY Zenon DEF GetUpstream
<1>2. \A k \in DOMAIN backups : Good(backups[k])
  BY DEF FetchInv, FetchTypes, Backup, Node
<1>3. /\ \A k \in DOMAIN walk : Good(walk[k])
      /\ walk # <<>> => 1 \in DOMAIN walk
  <2>1. CASE nodes.v = <<>>
    BY <2>1
  <2>2. CASE nodes.v # <<>>
    BY <2>2, <1>1, WalkListed, Zenon DEF FetchInv
  <2> QED BY <2>1, <2>2, Zenon
<1> HIDE DEF walk
<1>4. ASSUME NEW n, Good(n), Take(r, n) PROVE FetchInv'
  BY <1>1, <1>4, TakesNode, Zenon DEF Take
<1>5. ASSUME NEW seq, NEW S, \A k \in DOMAIN seq : Good(seq[k]), TakeFirst(r, seq, S)
      PROVE  FetchInv'
  BY <1>4, <1>5, Zenon DEF TakeFirst
<1>6. CASE TakeFirst(r, walk, Usable(walk)) \/ TakeFirst(r, backups, Usable(backups))
  BY <1>2, <1>3, <1>5, <1>6, Zenon
<1>7. CASE \E n \in Enabled(backups) : Take(r, n)
  BY <1>2, <1>4, <1>7, Zenon DEF Enabled, Range
<1>8. CASE /\ walk # <<>> /\ refs' = [refs EXCEPT ![walk[1]] = @ + 1]
           /\ Set(r, [job[r] EXCEPT !.at = "connect", !.node = walk[1]])
  BY <1>1, <1>3, <1>8, TakesNode, Zenon
<1>9. CASE /\ Set(r, [job[r] EXCEPT !.at = "settle", !.res = "error"])
           /\ UNCHANGED refs
  <2> DEFINE j == [job[r] EXCEPT !.at = "settle", !.res = "error"]
  <2>1. Fit(job[r], nodes.gen)
    BY Zenon DEF FetchInv
  <2>2. Fit(j, nodes.gen) /\ j.node = job[r].node
    BY <1>1, <2>1, ZenonT(30) DEF Fit, HandedOnce, Before, Placed, Jobs, Places
  <2>3. idle' \in [Node -> [Conditions -> Nat]] /\ PooledIsRead'
    BY <1>1, Zenon DEF FetchInv, FetchTypes, PooledIsRead
  <2> QED BY <1>1, <1>9, <2>2, <2>3, HoldsSame, Zenon
<1> QED BY <1>1, <1>6, <1>7, <1>8, <1>9, Zenon DEF Choose

\* A step that changes only the fetch of a request, which keeps its node.
LEMMA JobOnlyKeeps ==
  ASSUME FetchInv, NEW r \in Rq, NEW j, Fit(j, nodes.gen), j.node = job[r].node,
         Set(r, j), UNCHANGED <<nodes, refs, idle>>
  PROVE  FetchInv'
<1>1. idle' \in [Node -> [Conditions -> Nat]] /\ PooledIsRead'
  BY Zenon DEF FetchInv, FetchTypes, PooledIsRead
<1> QED BY <1>1, HoldsSame, Zenon

\* Begin and ExtendDisabled: no node yet.
LEMMA BeginKeeps ==
  ASSUME FetchInv, NEW r \in Rq, NEW k \in Kinds, Begin(r, k) \/ ExtendDisabled(r)
  PROVE  FetchInv'
<1>1. Fit(job[r], nodes.gen) /\ Fit(NoJob, nodes.gen) /\ NoJob.node = <<>>
  BY NoJobFits, Zenon DEF FetchInv
<1>2. CASE Begin(r, k)
  <2> DEFINE j == [NoJob EXCEPT !.at = "pick", !.kind = k]
  <2>a. NoJob.conn = "none" /\ NoJob.given = 0 /\ NoJob.post = "none"
    BY Zenon DEF NoJob
  <2>b. NoJob \in Jobs /\ NoJob.node = <<>>
    BY <1>1, Zenon DEF Fit
  <2>1. /\ j \in Jobs /\ j.at = "pick" /\ j.node = <<>> /\ j.conn = "none"
        /\ j.given = 0 /\ j.post = "none"
    BY <2>a, <2>b, Zenon DEF Jobs, Places
  <2>2. Fit(j, nodes.gen)
    BY <2>1 DEF Fit, HandedOnce, Placed
  <2>3. j.node = job[r].node
    BY <1>1, <1>2, <2>1, Zenon DEF Begin, Fit, Placed
  <2> QED BY <1>2, <2>2, <2>3, JobOnlyKeeps, Zenon DEF Begin
<1>3. CASE ExtendDisabled(r)
  <2> DEFINE j == [job[r] EXCEPT !.at = "settle", !.res = "error"]
  <2>1. Fit(j, nodes.gen) /\ j.node = job[r].node
    BY <1>1, <1>3, ZenonT(30) DEF ExtendDisabled, Fit, HandedOnce, Before, Placed, Jobs, Places
  <2> QED BY <1>3, <2>1, JobOnlyKeeps, Zenon DEF ExtendDisabled
<1> QED BY <1>2, <1>3, Zenon

\* SendHeader: the post fiber of grpc starts here and nowhere else.
LEMMA SendHeaderKeeps ==
  ASSUME FetchInv, NEW r \in Rq, SendHeader(r) \/ SendHeaderFails(r)
  PROVE  FetchInv'
<1>1. Fit(job[r], nodes.gen) /\ job[r].at = "send" /\ job[r].kind \in Kinds
  BY Zenon DEF FetchInv, Fit, Jobs, SendHeader, SendHeaderFails
<1>2. PICK j : /\ Set(r, j) /\ UNCHANGED <<nodes, refs, idle>>
               /\ \/ /\ job[r].kind.mode = "grpc"
                     /\ j = [job[r] EXCEPT !.at = "head", !.post = "run"]
                  \/ j = [job[r] EXCEPT !.at = "post"]
                  \/ job[r].kind.mode = "expect" /\ j = [job[r] EXCEPT !.at = "head"]
                  \/ /\ job[r].kind.mode # "expect" /\ job[r].kind.mode # "grpc"
                     /\ ~(job[r].kind.mode = "plain" /\ job[r].kind.body)
                     /\ j = [job[r] EXCEPT !.at = "head", !.given = @ + 1]
                  \/ j = [job[r] EXCEPT !.at = "settle", !.res = "retry"]
  BY <1>1, KindFacts, Zenon DEF SendHeader, SendHeaderFails, JobOnly
<1>3. /\ job[r] \in Jobs /\ job[r].node # <<>> /\ job[r].conn # "none"
      /\ job[r].kind.mode \in {"plain", "expect"} => job[r].post = "none"
      /\ ~job[r].kind.safe => job[r].given = 0 /\ job[r].post = "none"
  BY <1>1, Zenon DEF Fit, HandedOnce, Before, Placed
<1>4. /\ j \in Jobs /\ j.kind = job[r].kind /\ j.took = job[r].took
      /\ j.node = job[r].node /\ j.conn = job[r].conn
      /\ j.at \in {"head", "post", "settle"}
  <2>1. CASE j = [job[r] EXCEPT !.at = "head", !.post = "run"]
    BY <1>3, <2>1, Zenon DEF Jobs, Places
  <2>2. CASE j = [job[r] EXCEPT !.at = "post"] \/ j = [job[r] EXCEPT !.at = "head"]
    BY <1>3, <2>2 DEF Jobs, Places
  <2>3. CASE j = [job[r] EXCEPT !.at = "head", !.given = @ + 1]
    <3> DEFINE g == job[r].given + 1
    <3>1. g \in Nat /\ j = [job[r] EXCEPT !.at = "head", !.given = g]
      BY <1>3, <2>3 DEF Jobs
    <3> HIDE DEF g
    <3> QED BY <1>3, <3>1, Zenon DEF Jobs, Places
  <2>4. CASE j = [job[r] EXCEPT !.at = "settle", !.res = "retry"]
    BY <1>3, <2>4, Zenon DEF Jobs, Places
  <2> QED BY <1>2, <2>1, <2>2, <2>3, <2>4, Zenon
<1>5. /\ j.kind.mode \in {"plain", "expect"} => j.post = "none"
      /\ ~j.kind.safe => j.given = 0 /\ (j.kind.mode # "grpc" => j.post = "none")
      /\ j.post # job[r].post => j.kind.mode = "grpc" /\ j.at = "head"
  <2>1. CASE job[r].kind.mode = "grpc" /\ j = [job[r] EXCEPT !.at = "head", !.post = "run"]
    BY <1>3, <2>1, Zenon DEF Jobs
  <2>2. CASE \/ j = [job[r] EXCEPT !.at = "post"] \/ j = [job[r] EXCEPT !.at = "head"]
             \/ j = [job[r] EXCEPT !.at = "settle", !.res = "retry"]
    BY <1>3, <2>2, Zenon DEF Jobs
  <2>3. CASE /\ job[r].kind.mode # "expect" /\ job[r].kind.mode # "grpc"
             /\ ~(job[r].kind.mode = "plain" /\ job[r].kind.body)
             /\ j = [job[r] EXCEPT !.at = "head", !.given = @ + 1]
    <3>1. job[r].kind.safe
      BY <1>1, <2>3, KindFacts, Zenon
    <3>2. j.post = job[r].post /\ j.kind = job[r].kind
      BY <1>3, <2>3, Zenon DEF Jobs
    <3> QED BY <1>3, <3>1, <3>2, Zenon
  <2> QED BY <1>2, <2>1, <2>2, <2>3, Zenon
<1>6. HandedOnce(j) /\ Placed(j)
  BY <1>3, <1>4, <1>5 DEF HandedOnce, Before, Placed
<1>7. Fit(j, nodes.gen)
  BY <1>1, <1>4, <1>6, Zenon DEF Fit
<1> QED BY <1>2, <1>4, <1>7, JobOnlyKeeps, Zenon

\* ProcessPost: the body goes out once, and not after an answer was awaited.
LEMMA ProcessPostKeeps ==
  ASSUME FetchInv, NEW r \in Rq, ProcessPost(r) \/ ProcessPostFails(r) \/ ReadInterim(r)
  PROVE  FetchInv'
<1>1. Fit(job[r], nodes.gen) /\ job[r].kind \in Kinds
  BY Zenon DEF FetchInv, Fit, Jobs
<1>2. CASE ProcessPost(r)
  <2> DEFINE j == [job[r] EXCEPT !.at = "head", !.took = TRUE, !.given = @ + 1]
  <2>1. /\ job[r] \in Jobs /\ job[r].at \in {"post", "continue"} /\ job[r].given \in Nat
        /\ job[r].node # <<>> /\ job[r].conn # "none"
        /\ job[r].kind.mode \in {"plain", "expect"} => job[r].post = "none"
        /\ ~job[r].kind.safe => job[r].given = 0 /\ job[r].post = "none"
    BY <1>1, <1>2, Zenon DEF ProcessPost, Fit, HandedOnce, Before, Placed, Jobs
  <2> DEFINE g == job[r].given + 1
  <2>2. /\ j \in Jobs /\ j.at = "head" /\ j.took = TRUE /\ j.given = job[r].given + 1
        /\ j.kind = job[r].kind /\ j.post = job[r].post
        /\ j.node = job[r].node /\ j.conn = job[r].conn
    <3>1. g \in Nat /\ j = [job[r] EXCEPT !.at = "head", !.took = TRUE, !.given = g]
      BY <2>1
    <3>2. g = job[r].given + 1
      OBVIOUS
    <3> HIDE DEF j, g
    <3>3. j \in Jobs
      BY <2>1, <3>1, Zenon DEF Jobs, Places
    <3>4. j.at = "head" /\ j.took = TRUE /\ j.given = g
      BY <2>1, <3>1, Zenon DEF Jobs
    <3>5. /\ j.kind = job[r].kind /\ j.post = job[r].post
          /\ j.node = job[r].node /\ j.conn = job[r].conn
      BY <2>1, <3>1, Zenon DEF Jobs
    <3> QED BY <3>2, <3>3, <3>4, <3>5, Zenon
  <2>3. HandedOnce(j) /\ Placed(j)
    BY <2>1, <2>2 DEF HandedOnce, Before, Placed
  <2>4. Fit(j, nodes.gen)
    BY <1>1, <2>2, <2>3, Zenon DEF Fit
  <2> QED BY <1>2, <2>2, <2>4, JobOnlyKeeps, Zenon DEF ProcessPost, JobOnly
<1>3. CASE ProcessPostFails(r)
  <2>1. PICK res \in {"retry", "broken", "response"} :
          Set(r, [job[r] EXCEPT !.at = "settle", !.took = TRUE, !.res = res])
    BY <1>3, ZenonT(30) DEF ProcessPostFails
  <2> DEFINE j == [job[r] EXCEPT !.at = "settle", !.took = TRUE, !.res = res]
  <2>2. /\ job[r] \in Jobs /\ job[r].at \in {"post", "continue"}
        /\ job[r].node # <<>> /\ job[r].conn # "none"
        /\ job[r].kind.mode \in {"plain", "expect"} => job[r].post = "none"
        /\ ~job[r].kind.safe => job[r].given = 0 /\ job[r].post = "none"
    BY <1>1, <1>3, Zenon DEF ProcessPostFails, Fit, HandedOnce, Before, Placed, Jobs
  <2>3. /\ j \in Jobs /\ j.at = "settle" /\ j.given = job[r].given
        /\ j.kind = job[r].kind /\ j.post = job[r].post
        /\ j.node = job[r].node /\ j.conn = job[r].conn
    BY <2>2, Zenon DEF Jobs, Places
  <2>4. HandedOnce(j) /\ Placed(j)
    BY <2>2, <2>3 DEF HandedOnce, Placed
  <2>5. Fit(j, nodes.gen)
    BY <1>1, <2>3, <2>4, Zenon DEF Fit
  <2> QED BY <1>3, <2>1, <2>3, <2>5, JobOnlyKeeps, Zenon DEF ProcessPostFails, JobOnly
<1>4. CASE ReadInterim(r)
  <2> DEFINE j == [job[r] EXCEPT !.at = "continue"]
  <2>1. Fit(j, nodes.gen) /\ j.node = job[r].node
    BY <1>1, <1>4, ZenonT(30) DEF ReadInterim, Fit, HandedOnce, Before, Placed, Jobs, Places
  <2> QED BY <1>4, <2>1, JobOnlyKeeps, Zenon DEF ReadInterim, JobOnly
<1> QED BY <1>2, <1>3, <1>4, Zenon

\* Reading the answer: an upgrade, which is safe, starts its post fiber here,
\* and a broken connection is tried again only for a safe request.
LEMMA ReadHeaderKeeps ==
  ASSUME FetchInv, NEW r \in Rq, NEW b, ReadHeader(r, b) \/ ReadHeaderFails(r, b)
  PROVE  FetchInv'
<1>1. /\ Fit(job[r], nodes.gen) /\ job[r].at = "head" /\ job[r].kind \in Kinds
      /\ job[r] \in Jobs
  BY Zenon DEF FetchInv, Fit, Jobs, ReadHeader, ReadHeaderFails
<1>2. /\ job[r].node # <<>> /\ job[r].conn # "none"
      /\ job[r].kind.mode \in {"plain", "expect"} => job[r].post = "none"
      /\ ~job[r].kind.safe => job[r].given <= 1
  BY <1>1, Zenon DEF Fit, HandedOnce, Placed
<1>3. PICK j : /\ Set(r, j) /\ UNCHANGED <<nodes, refs, idle>>
               /\ j \in Jobs /\ j.node = job[r].node /\ j.conn = job[r].conn
               /\ j.kind = job[r].kind /\ j.given = job[r].given
               /\ j.at \in {"settle", "body"}
               /\ j.res = "retry" /\ j.at = "settle" => j.kind.safe
               /\ j.post # job[r].post => j.kind.mode = "upgrade"
  <2>1. CASE ReadHeader(r, b)
    <3> DEFINE p == IF job[r].kind.mode = "upgrade" THEN "run" ELSE job[r].post
               j0 == [job[r] EXCEPT !.post = p]
               j1 == IF b THEN [j0 EXCEPT !.at = "settle", !.done = TRUE, !.res = "end"]
                          ELSE [j0 EXCEPT !.at = "body"]
    <3>1. /\ j0 \in Jobs /\ j0.node = job[r].node /\ j0.conn = job[r].conn
          /\ j0.kind = job[r].kind /\ j0.given = job[r].given /\ j0.post = p
      BY <1>1, Zenon DEF Jobs
    <3>2. Set(r, j1) /\ UNCHANGED <<nodes, refs, idle>>
      BY <2>1, Zenon DEF ReadHeader, JobOnly
    <3> HIDE DEF j0
    <3>3. /\ j1 \in Jobs /\ j1.node = job[r].node /\ j1.conn = job[r].conn
          /\ j1.kind = job[r].kind /\ j1.given = job[r].given /\ j1.post = p
          /\ j1.at \in {"settle", "body"} /\ (j1.at = "settle" => j1.res = "end")
      BY <3>1, ZenonT(30) DEF Jobs, Places
    <3> QED BY <3>2, <3>3, ZenonT(30)
  <2>2. CASE ReadHeaderFails(r, b)
    <3> DEFINE w == IF b /\ CanReplay(job[r]) THEN "retry" ELSE "response"
               j1 == [job[r] EXCEPT !.at = "settle", !.res = w]
    <3>1. w \in {"retry", "response"} /\ (w = "retry" => job[r].kind.safe)
      BY Zenon DEF CanReplay
    <3>2. Set(r, j1) /\ UNCHANGED <<nodes, refs, idle>>
      BY <2>2, Zenon DEF ReadHeaderFails, JobOnly
    <3> HIDE DEF w
    <3>3. /\ j1 \in Jobs /\ j1.node = job[r].node /\ j1.conn = job[r].conn
          /\ j1.kind = job[r].kind /\ j1.given = job[r].given /\ j1.post = job[r].post
          /\ j1.at = "settle" /\ j1.res = w
      BY <1>1, <3>1, Zenon DEF Jobs, Places
    <3> QED BY <3>1, <3>2, <3>3, Zenon
  <2> QED BY <2>1, <2>2, Zenon
<1>4. HandedOnce(j) /\ Placed(j)
  BY <1>1, <1>2, <1>3, KindFacts, Zenon DEF HandedOnce, Before, Placed
<1>5. Fit(j, nodes.gen)
  BY <1>1, <1>3, <1>4, Zenon DEF Fit
<1> QED BY <1>3, <1>5, JobOnlyKeeps, Zenon

\* The body of the answer, and a client that goes away.
LEMMA ReadBodyKeeps ==
  ASSUME FetchInv, NEW r \in Rq, NEW w \in {"end", "ok"},
         ReadBody(r, w) \/ ReadBodyFails(r) \/ ReadHup(r)
  PROVE  FetchInv'
<1>1. Fit(job[r], nodes.gen) /\ job[r] \in Jobs
  BY Zenon DEF FetchInv, Fit
<1>2. PICK j : /\ Set(r, j) /\ UNCHANGED <<nodes, refs, idle>>
               /\ j \in Jobs /\ j.node = job[r].node /\ j.conn = job[r].conn
               /\ j.kind = job[r].kind /\ j.given = job[r].given /\ j.post = job[r].post
               /\ j.took = job[r].took
               /\ \/ j.at = "settle" /\ j.res # "retry" /\ job[r].at = "body"
                  \/ j.at = job[r].at /\ j.res = job[r].res
  <2>1. CASE ReadBody(r, w)
    <3> DEFINE j1 == [job[r] EXCEPT !.at = "settle", !.done = TRUE, !.res = w]
    <3>1. /\ j1 \in Jobs /\ j1.node = job[r].node /\ j1.conn = job[r].conn
          /\ j1.kind = job[r].kind /\ j1.given = job[r].given /\ j1.post = job[r].post
          /\ j1.took = job[r].took /\ j1.at = "settle" /\ j1.res = w
      BY <1>1, ZenonT(30) DEF Jobs, Places
    <3> QED BY <2>1, <3>1, Zenon DEF ReadBody, JobOnly
  <2>2. CASE ReadBodyFails(r)
    <3> DEFINE j1 == [job[r] EXCEPT !.at = "settle", !.res = "broken"]
    <3>1. /\ j1 \in Jobs /\ j1.node = job[r].node /\ j1.conn = job[r].conn
          /\ j1.kind = job[r].kind /\ j1.given = job[r].given /\ j1.post = job[r].post
          /\ j1.took = job[r].took /\ j1.at = "settle" /\ j1.res = "broken"
      BY <1>1, ZenonT(30) DEF Jobs, Places
    <3> QED BY <2>2, <3>1, Zenon DEF ReadBodyFails, JobOnly
  <2>3. CASE ReadHup(r)
    <3> DEFINE j1 == [job[r] EXCEPT !.hup = TRUE]
    <3>1. /\ j1 \in Jobs /\ j1.node = job[r].node /\ j1.conn = job[r].conn
          /\ j1.kind = job[r].kind /\ j1.given = job[r].given /\ j1.post = job[r].post
          /\ j1.took = job[r].took /\ j1.at = job[r].at /\ j1.res = job[r].res
      BY <1>1, Zenon DEF Jobs
    <3> QED BY <2>3, <3>1, Zenon DEF ReadHup, JobOnly
  <2> QED BY <2>1, <2>2, <2>3, Zenon
<1>3. Placed(j)
  BY <1>1, <1>2, Zenon DEF Fit, Placed
<1>4. HandedOnce(j)
  BY <1>1, <1>2, Zenon DEF Fit, HandedOnce, Before
<1>5. Fit(j, nodes.gen)
  BY <1>1, <1>2, <1>3, <1>4, Zenon DEF Fit
<1> QED BY <1>2, <1>5, JobOnlyKeeps, Zenon

\* A reference to a node is dropped, and with the last one the node's pool.
LEMMA DropFacts ==
  ASSUME FetchInv, NEW n \in Node, Drop({n})
  PROVE  /\ refs' = [k \in Node |-> IF k = n THEN refs[k] - 1 ELSE refs[k]]
         /\ idle' \in [Node -> [Conditions -> Nat]] /\ PooledIsRead'
<1>1. refs' = [k \in Node |-> IF k = n THEN refs[k] - 1 ELSE refs[k]]
  BY Zenon DEF Drop
<1>2. NoConns \in [Conditions -> Nat] /\ NoConns["unread"] = 0
  BY Zenon DEF NoConns, Conditions
<1>3. \A k \in Node : idle'[k] = NoConns \/ idle'[k] = idle[k]
  BY Zenon DEF Drop
<1>4. idle' \in [Node -> [Conditions -> Nat]]
  BY <1>2, Zenon DEF Drop, FetchInv, FetchTypes
<1>5. PooledIsRead'
  BY <1>2, <1>3, Zenon DEF FetchInv, PooledIsRead
<1> QED BY <1>1, <1>4, <1>5, Zenon

\* Connecting: from the pool, anew, or not at all.
LEMMA ConnectKeeps ==
  ASSUME FetchConstants, FetchInv, NEW r \in Rq, NEW c \in Conditions,
         ConnectPooled(r, c) \/ ConnectNew(r) \/ ConnectFails(r)
  PROVE  FetchInv'
<1>1. /\ Fit(job[r], nodes.gen) /\ job[r] \in Jobs /\ job[r].at = "connect"
  BY Zenon DEF FetchInv, Fit, ConnectPooled, ConnectNew, ConnectFails
<1>2. /\ job[r].node # <<>> /\ job[r].node \in Node /\ job[r].conn = "none"
      /\ job[r].kind.mode \in {"plain", "expect"} => job[r].post = "none"
      /\ ~job[r].kind.safe => job[r].given = 0 /\ job[r].post = "none"
  BY <1>1, Zenon DEF Fit, HandedOnce, Before, Placed, Jobs
<1>3. ASSUME NEW w \in {"pool", "new"}
      PROVE  LET j == [job[r] EXCEPT !.at = "send", !.conn = w]
             IN  Fit(j, nodes.gen) /\ j.node = job[r].node
  <2> DEFINE j == [job[r] EXCEPT !.at = "send", !.conn = w]
  <2>1. /\ j \in Jobs /\ j.at = "send" /\ j.conn = w /\ j.node = job[r].node
        /\ j.kind = job[r].kind /\ j.given = job[r].given /\ j.post = job[r].post
    BY <1>1, ZenonT(30) DEF Jobs, Places
  <2> HIDE DEF j
  <2>2. HandedOnce(j) /\ Placed(j)
    BY <1>2, <2>1 DEF HandedOnce, Placed
  <2>3. Fit(j, nodes.gen)
    BY <1>1, <2>1, <2>2, Zenon DEF Fit
  <2> QED BY <2>1, <2>3, Zenon DEF j
<1>4. CASE ConnectPooled(r, c)
  <2> DEFINE n == job[r].node
  <2>1. idle \in [Node -> [Conditions -> Nat]] /\ idle[n][c] > 0 /\ idle[n]["unread"] = 0
    BY <1>2, <1>4, Zenon DEF ConnectPooled, FetchInv, FetchTypes, PooledIsRead
  <2>2. c # "unread" /\ idle[n][c] - 1 \in Nat
    BY <1>2, <2>1
  <2>3. idle' = [idle EXCEPT ![n] = [idle[n] EXCEPT ![c] = idle[n][c] - 1]]
    BY <1>4, Zenon DEF ConnectPooled
  <2>4. idle' \in [Node -> [Conditions -> Nat]]
    BY <1>2, <2>1, <2>2, <2>3, Zenon
  <2>5. \A k \in Node : idle'[k]["unread"] = idle[k]["unread"]
    BY <1>2, <2>1, <2>2, <2>3
  <2>6. PooledIsRead'
    BY <2>5, Zenon DEF FetchInv, PooledIsRead
  <2> QED BY <1>3, <1>4, <2>4, <2>6, HoldsSame, Zenon DEF ConnectPooled
<1>5. CASE ConnectNew(r)
  BY <1>3, <1>5, JobOnlyKeeps, Zenon DEF ConnectNew
<1>6. CASE ConnectFails(r)
  <2> DEFINE j == [job[r] EXCEPT !.at = "settle", !.node = <<>>, !.res = "error"]
  <2>1. /\ j \in Jobs /\ j.at = "settle" /\ j.conn = "none" /\ j.node = <<>>
        /\ j.kind = job[r].kind /\ j.given = job[r].given /\ j.post = job[r].post
    BY <1>1, <1>2, Zenon DEF Jobs, Places
  <2>2. Set(r, j) /\ UNCHANGED nodes /\ Drop({job[r].node})
    BY <1>6, Zenon DEF ConnectFails
  <2> HIDE DEF j
  <2>3. HandedOnce(j) /\ Placed(j)
    BY <1>2, <2>1 DEF HandedOnce, Placed
  <2>4. Fit(j, nodes.gen)
    BY <2>1, <2>3, Zenon DEF Fit
  <2> QED BY <1>2, <2>1, <2>2, <2>4, DropFacts, HoldsLess, Zenon
<1> QED BY <1>4, <1>5, <1>6, Zenon

\* Close gives the node up; only a connection whose answer was read is pooled.
LEMMA CloseKeeps ==
  ASSUME FetchConstants, FetchInv, NEW r \in Rq, NEW next,
         job[r].at \in {"settle", "join"}, Fit(next, nodes.gen), next.node = <<>>,
         Close(r, next), UNCHANGED nodes
  PROVE  FetchInv'
<1> DEFINE n == job[r].node
<1>1. Fit(job[r], nodes.gen) /\ job[r] \in Jobs /\ Set(r, next)
  BY Zenon DEF FetchInv, Fit, Close
<1>2. (n = <<>> <=> job[r].conn = "none") /\ n \in Node \cup {<<>>}
  BY <1>1, Zenon DEF Fit, Placed, Jobs
<1>3. CASE job[r].conn = "none"
  BY <1>1, <1>2, <1>3, JobOnlyKeeps, Zenon DEF Close
<1>4. CASE job[r].conn # "none" /\ Drop({n})
  BY <1>1, <1>2, <1>4, DropFacts, HoldsLess, Zenon
<1>5. CASE /\ job[r].conn # "none" /\ Kept(job[r])
           /\ refs' = [refs EXCEPT ![n] = @ - 1]
           /\ idle' = [idle EXCEPT ![n][Condition(job[r])] = @ + 1]
  <2> DEFINE c == Condition(job[r])
  <2>1. n \in Node /\ c \in Conditions /\ c # "unread"
    BY <1>2, <1>5, Zenon DEF Kept, Condition, Conditions
  <2>2. refs \in [Node -> Int] /\ idle \in [Node -> [Conditions -> Nat]]
    BY Zenon DEF FetchInv, FetchTypes
  <2>3. refs' = [k \in Node |-> IF k = n THEN refs[k] - 1 ELSE refs[k]]
    BY <1>5, <2>1, <2>2, Zenon
  <2>4. idle' = [idle EXCEPT ![n] = [idle[n] EXCEPT ![c] = idle[n][c] + 1]]
    BY <1>5, Zenon
  <2> HIDE DEF c
  <2>5. idle[n][c] + 1 \in Nat
    BY <2>1, <2>2
  <2>6. idle' \in [Node -> [Conditions -> Nat]]
    BY <2>1, <2>2, <2>4, <2>5, Zenon
  <2>7. \A k \in Node : idle'[k]["unread"] = idle[k]["unread"]
    BY <2>1, <2>2, <2>4
  <2>8. PooledIsRead'
    BY <2>7, Zenon DEF FetchInv, PooledIsRead
  <2> QED BY <1>1, <2>1, <2>3, <2>6, <2>8, HoldsLess, Zenon
<1> QED BY <1>3, <1>4, <1>5, Zenon DEF Close

\* The end of Open: the connection is closed for another try, closed for good,
\* or kept until the post fiber has ended.
LEMMA SettleKeeps ==
  ASSUME FetchConstants, FetchInv, NEW r \in Rq,
         Retry(r) \/ Settle(r) \/ PostFiber(r) \/ Join(r)
  PROVE  FetchInv'
<1>1. /\ Fit(job[r], nodes.gen) /\ job[r] \in Jobs
      /\ Fit(NoJob, nodes.gen) /\ NoJob.node = <<>>
  BY NoJobFits, Zenon DEF FetchInv, Fit
<1>2. CASE Retry(r)
  <2> DEFINE j == [job[r] EXCEPT !.at = "pick", !.retried = TRUE, !.took = FALSE,
                                 !.conn = "none", !.node = <<>>, !.res = "none"]
  <2>1. /\ job[r].at = "settle" /\ job[r].res = "retry" /\ job[r].post = "none"
        /\ ~job[r].kind.safe => job[r].given = 0
    BY <1>1, <1>2, Zenon DEF Retry, MayRetry, Fit, HandedOnce, Before
  <2>2. /\ j \in Jobs /\ j.at = "pick" /\ j.conn = "none" /\ j.node = <<>>
        /\ j.kind = job[r].kind /\ j.given = job[r].given /\ j.post = job[r].post
    BY <1>1, ZenonT(30) DEF Jobs, Places
  <2>3. Close(r, j) /\ UNCHANGED nodes
    BY <1>2, Zenon DEF Retry
  <2> HIDE DEF j
  <2>4. HandedOnce(j) /\ Placed(j)
    BY <2>1, <2>2 DEF HandedOnce, Placed
  <2>5. Fit(j, nodes.gen)
    BY <2>2, <2>4, Zenon DEF Fit
  <2> QED BY <2>1, <2>2, <2>3, <2>5, CloseKeeps
<1>3. CASE Settle(r) /\ job[r].post = "none"
  BY <1>1, <1>3, CloseKeeps DEF Settle
<1>4. CASE Settle(r) /\ job[r].post # "none"
  <2> DEFINE j == [job[r] EXCEPT !.at = "join"]
  <2>1. /\ j \in Jobs /\ j.at = "join" /\ j.conn = job[r].conn /\ j.node = job[r].node
        /\ j.kind = job[r].kind /\ j.given = job[r].given /\ j.post = job[r].post
    BY <1>1, Zenon DEF Jobs, Places
  <2>2. Set(r, j) /\ UNCHANGED <<nodes, refs, idle>> /\ job[r].at = "settle"
    BY <1>4, Zenon DEF Settle
  <2> HIDE DEF j
  <2>3. HandedOnce(j) /\ Placed(j)
    BY <1>1, <2>1, <2>2, Zenon DEF Fit, HandedOnce, Before, Placed
  <2>4. Fit(j, nodes.gen)
    BY <1>1, <2>1, <2>3, Zenon DEF Fit
  <2> QED BY <2>1, <2>2, <2>4, JobOnlyKeeps, Zenon
<1>5. CASE PostFiber(r)
  <2> DEFINE g == IF job[r].at = "join" THEN job[r].given ELSE 1
             j == [job[r] EXCEPT !.post = "done", !.took = TRUE, !.given = g]
  <2>1. /\ g \in Nat /\ Set(r, j) /\ UNCHANGED <<nodes, refs, idle>> /\ job[r].post = "run"
        /\ ~job[r].kind.safe => g <= 1
    BY <1>1, <1>5 DEF PostFiber, JobOnly, Fit, HandedOnce, Jobs
  <2> HIDE DEF g
  <2>2. /\ j \in Jobs /\ j.at = job[r].at /\ j.conn = job[r].conn /\ j.node = job[r].node
        /\ j.kind = job[r].kind /\ j.given = g /\ j.res = job[r].res
    BY <1>1, <2>1, Zenon DEF Jobs
  <2> HIDE DEF j
  <2>3. ~(job[r].kind.mode \in {"plain", "expect"}) /\ (~job[r].kind.safe => ~Before(job[r]))
    BY <1>1, <2>1, Zenon DEF Fit, HandedOnce
  <2>4. ~job[r].kind.safe => ~Before(j)
    BY <2>2, <2>3, Zenon DEF Before
  <2>5. HandedOnce(j) /\ Placed(j)
    BY <1>1, <2>1, <2>2, <2>3, <2>4, Zenon DEF Fit, HandedOnce, Placed
  <2>6. Fit(j, nodes.gen)
    BY <1>1, <2>2, <2>5, Zenon DEF Fit
  <2> QED BY <2>1, <2>2, <2>6, JobOnlyKeeps, Zenon
<1>6. CASE Join(r)
  BY <1>1, <1>6, CloseKeeps DEF Join
<1> QED BY <1>2, <1>3, <1>4, <1>5, <1>6, Zenon

-----------------------------------------------------------------------------
(* The list, and the whole *)

\* The origins of a configuration.
LEMMA ConfigFacts ==
  ASSUME FetchConstants, NEW c \in Configs
  PROVE  /\ c.v \in Seq(Origin) /\ c.b \in Seq(Origin)
         /\ Range(c.v) \cup Range(c.b) \subseteq Origin
<1>1. Range(c.v) \cup Range(c.b) \subseteq Origin
  BY Zenon DEF Origin
<1>2. c.v \in Seq(Range(c.v)) /\ c.b \in Seq(Range(c.b))
  BY Zenon DEF FetchConstants
<1>3. \A S, T : S \subseteq T => \A q \in Seq(S) : q \in Seq(T)
  OBVIOUS
<1> QED BY <1>1, <1>2, <1>3, Zenon

\* A reload: nobody uses a node of the new list, the old one loses a reference.
LEMMA ReloadKeeps ==
  ASSUME FetchConstants, FetchInv, NEW c \in Configs, Reload(c)
  PROVE  FetchInv'
<1> DEFINE g == nodes.gen
           new == {<<g + 1, o>> : o \in Range(c.v) \cup Range(c.b)}
<1>1. /\ g \in Nat /\ g + 1 \in 0 .. MaxReloads /\ MaxReloads \in Nat
      /\ nodes' = [gen |-> g + 1, v |-> c.v, b |-> c.b] /\ job' = job
  BY DEF Reload, FetchInv, FetchTypes, FetchConstants
<1>2. nodes' \in [gen : 0 .. MaxReloads, v : Seq(Origin), b : Seq(Origin)]
  BY <1>1, ConfigFacts, Zenon
<1>3. Listed' = new
  BY <1>1, Zenon DEF Listed
<1>4. \A n \in new : n \notin Listed /\ n[1] = g + 1
  BY <1>1 DEF Listed
<1>5. \A n \in new : UsersOf(n) = {}
  BY <1>1, <1>4, NodeFacts DEF FetchInv, Fit, UsersOf
<1>6. \A n \in Node : UsersOf(n)' = UsersOf(n)
  BY <1>1, Zenon DEF UsersOf
<1>7. \A n \in Node : refs'[n] = IF n \in new THEN 1
                                 ELSE IF n \in Listed THEN refs[n] - 1 ELSE refs[n]
  BY Zenon DEF Reload
<1>8. refs' \in [Node -> Int]
  BY DEF Reload, FetchInv, FetchTypes
<1>9. ASSUME NEW n \in Node
      PROVE  refs'[n] = (IF n \in Listed' THEN 1 ELSE 0) + Cardinality(UsersOf(n)')
  <2>1. refs[n] = (IF n \in Listed THEN 1 ELSE 0) + Cardinality(UsersOf(n))
    BY Zenon DEF FetchInv, NodesHeldWhileUsed, UsersOf
  <2>2. Cardinality(UsersOf(n)) \in Nat
    BY UsersFinite, Zenon
  <2> HIDE DEF new
  <2>3. CASE n \in new
    <3>1. UsersOf(n)' = {}
      BY <1>5, <1>6, <2>3, Zenon
    <3>2. Cardinality(UsersOf(n)') = 0
      BY <3>1, FS_EmptySet, Zenon
    <3> QED BY <1>3, <1>7, <2>3, <3>2
  <2>4. CASE n \notin new
    BY <1>3, <1>6, <1>7, <2>1, <2>2, <2>4
  <2> QED BY <2>3, <2>4, Zenon
<1>10. NodesHeldWhileUsed'
  BY <1>9, Zenon DEF NodesHeldWhileUsed, UsersOf
<1>11. NoConns \in [Conditions -> Nat] /\ NoConns["unread"] = 0
  BY Zenon DEF NoConns, Conditions
<1>12. idle' \in [Node -> [Conditions -> Nat]]
  BY <1>11, Zenon DEF Reload, FetchInv, FetchTypes
<1>13. \A k \in Node : idle'[k] = NoConns \/ idle'[k] = idle[k]
  BY Zenon DEF Reload
<1>14. PooledIsRead'
  BY <1>11, <1>13, Zenon DEF FetchInv, PooledIsRead
<1>15. \A r \in Rq : Fit(job[r], nodes.gen)'
  <2> TAKE r \in Rq
  <2>1. Fit(job[r], g) /\ nodes'.gen = g + 1
    BY <1>1, Zenon DEF FetchInv
  <2>2. job[r].node # <<>> => job[r].node[1] \in Nat
    BY <2>1, NodeFacts DEF Fit, Jobs
  <2>3. Fit(job[r], g + 1)
    BY <1>1, <2>1, <2>2 DEF Fit
  <2> QED BY <1>1, <2>1, <2>3, Zenon
<1> QED BY <1>1, <1>2, <1>8, <1>10, <1>12, <1>14, <1>15, Zenon DEF FetchInv, FetchTypes

\* The invariant holds at first.
LEMMA FetchInitially ==
  ASSUME FetchConstants, FetchInit PROVE FetchInv
<1>1. PICK c \in Configs :
        /\ nodes = [gen |-> 0, v |-> c.v, b |-> c.b]
        /\ refs = [n \in Node |-> IF n \in {<<0, o>> : o \in Range(c.v) \cup Range(c.b)}
                                  THEN 1 ELSE 0]
        /\ idle = [n \in Node |-> NoConns]
        /\ job = [r \in Rq |-> NoJob]
  BY Zenon DEF FetchInit
<1>2. NoConns \in [Conditions -> Nat] /\ NoConns["unread"] = 0
  BY Zenon DEF NoConns, Conditions
<1>3. Fit(NoJob, nodes.gen) /\ NoJob.node = <<>> /\ NoJob \in Jobs
  BY NoJobFits, Zenon DEF Fit
<1>4. FetchTypes
  BY <1>1, <1>2, <1>3, ConfigFacts DEF FetchTypes, FetchConstants
<1>5. Listed = {<<0, o>> : o \in Range(c.v) \cup Range(c.b)}
  BY <1>1, Zenon DEF Listed
<1>6. \A n \in Node : {r \in Rq : job[r].node = n} = {}
  BY <1>1, <1>3, NodeFacts, Zenon
<1>a. Cardinality({}) = 0
  BY FS_EmptySet, Zenon
<1>b. ASSUME NEW n \in Node
      PROVE refs[n] = (IF n \in Listed THEN 1 ELSE 0)
                      + Cardinality({r \in Rq : job[r].node = n})
  <2>1. {r \in Rq : job[r].node = n} = {} BY <1>6, Zenon
  <2>2. refs[n] = IF n \in Listed THEN 1 ELSE 0 BY <1>1, <1>5, Zenon
  <2> QED BY <2>1, <2>2, <1>a
<1>7. NodesHeldWhileUsed
  BY <1>b, Zenon DEF NodesHeldWhileUsed
<1>8. PooledIsRead
  BY <1>1, <1>2, Zenon DEF PooledIsRead
<1>9. \A r \in Rq : Fit(job[r], nodes.gen)
  BY <1>1, <1>3, Zenon
<1> QED BY <1>4, <1>7, <1>8, <1>9, Zenon DEF FetchInv

\* Every step keeps it.
LEMMA FetchKeeps ==
  ASSUME FetchConstants, FetchInv, [FetchNext]_fetchVars PROVE FetchInv'
<1>1. CASE UNCHANGED <<nodes, refs, idle, job>>
  BY <1>1, Zenon DEF FetchInv, FetchTypes, NodesHeldWhileUsed, Listed, PooledIsRead, Fit
<1>2. ASSUME NEW r \in Rq, Step(r) \/ Fails(r) PROVE FetchInv'
  <2>1. "clean" \in Conditions /\ "end" \in {"end", "ok"} /\ \E k \in Kinds : TRUE
    BY KindFacts, Zenon DEF Conditions
  <2> QED BY <1>2, <2>1, BeginKeeps, GetUpstreamKeeps, ConnectKeeps, SendHeaderKeeps,
             ProcessPostKeeps, ReadHeaderKeeps, ReadBodyKeeps, SettleKeeps, Zenon DEF Step, Fails
<1>3. ASSUME NEW n \in Node, Due(n) PROVE FetchInv'
  BY <1>1, <1>3, Zenon DEF Due
<1>4. ASSUME NEW c \in Configs, Reload(c) PROVE FetchInv'
  BY <1>4, ReloadKeeps, Zenon
<1> QED BY <1>1, <1>2, <1>3, <1>4, Zenon DEF FetchNext, fetchVars

\* The inductive invariant of the exchange with the nodes.
THEOREM FetchInvariant == FetchSpec => []FetchInv
<1>1. FetchInit => FetchInv
  BY FetchAssumption, FetchInitially, Zenon
<1>2. FetchInv /\ [FetchNext]_fetchVars => FetchInv'
  BY FetchAssumption, FetchKeeps, Zenon
<1> QED BY <1>1, <1>2, PTL DEF FetchSpec

\* A request that may change something at the origin is handed over completely
\* at most once: Open tries again only what kgl_is_safe_method allows, or what
\* had not gone out, whatever number of requests, nodes, reloads and faults.
THEOREM UnsafeHandedOnce == FetchSpec => []NoUnsafeReplay
<1>1. FetchInv => NoUnsafeReplay
  BY Zenon DEF FetchInv, Fit, HandedOnce, NoUnsafeReplay
<1> QED BY <1>1, FetchInvariant, PTL

\* The references of a node are the list that names it and the requests that
\* connect or are connected to it, across any number of reloads: none is freed
\* under a request of GetUpstream, and none is kept for ever.
THEOREM NodesHeld == FetchSpec => []NodesHeldWhileUsed
<1>1. FetchInv => NodesHeldWhileUsed
  BY Zenon DEF FetchInv
<1> QED BY <1>1, FetchInvariant, PTL

\* Close never pools a connection on which an answer is still to be read.
THEOREM PooledConnectionsRead == FetchSpec => []PooledIsRead
<1>1. FetchInv => PooledIsRead
  BY Zenon DEF FetchInv
<1> QED BY <1>1, FetchInvariant, PTL
=============================================================================
