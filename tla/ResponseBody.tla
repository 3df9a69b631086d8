---------------------------- MODULE ResponseBody ----------------------------
(***************************************************************************)
(* The body of a response on its way from an upstream to the client and     *)
(* into the cache: KAsyncFetchObject's read loop, the stages that           *)
(* kgl_load_response_body puts on top of each other (decoding of chunks,    *)
(* content filters, compression, KCacheStream, KTempFile) and write_end.    *)
(* A stage calls the one below, so a write runs through all of them in the  *)
(* request's fiber; only the temporary file has a second fiber, which sends *)
(* what the first has stored.                                               *)
(***************************************************************************)
EXTENDS Naturals, Sequences

CONSTANTS Pieces,     \* pieces of the body the upstream has to send
          Answers,    \* the answers considered, a set of records (Answer)
          InMemory,   \* pieces a temporary file keeps in memory
          MaxFaults   \* failing calls

ASSUME BodyAssumption == Pieces \in Nat /\ InMemory \in Nat \ {0} /\ MaxFaults \in Nat

VARIABLES
  plan,    \* the answer and the stages put on top of the sink
  up,      \* what the upstream has sent: pieces, last chunk, END_REQUEST
  held,    \* pieces kept back by the chunk decoder, the filter, the compressor
  store,   \* KCacheStream: where it collects, what, and cache_is_ready
  tmp,     \* KTempFile: what was written, read_offset, the length of the last read,
           \* write_is_end, closed
  client,  \* what the sink was given, and how the response ended
  at, res, \* the request's fiber and the KGL_RESULT it goes on with
  sender, sent,  \* tempfile_write_fiber and its result
  faults

bodyVars == <<plan, up, held, store, tmp, client, at, res, sender, sent, faults>>

\* How the end of the body is told ("length", "chunked" or "close"), whether it
\* comes in FastCGI records, whether it is larger than max_cache_size, what
\* filter it passes, whether the client and the object allow compression, and
\* what the object allows to be cached ("disk" also lets memory spill to disk).
Answer == [framing : {"length", "chunked", "close"}, fcgi : BOOLEAN, large : BOOLEAN,
           filter : {"none", "pass", "deny", "stop"}, compress : {"no", "gzip", "other"},
           cache : {"no", "memory", "disk"}, partial : {"no", "some", "all"},
           flush : BOOLEAN]

ASSUME AnswersAssumption == Answers \subseteq Answer

Errors == {"failed"}      \* every KGL_RESULT below KGL_OK
Results == {"ok", "end"} \cup Errors
Trailer == 0              \* what ends a compressed stream
Replacement == Pieces + 1 \* what replaced_stop sends instead of the body

-----------------------------------------------------------------------------
(* Putting the stages together *)

\* The layer chosen for the cache.  Memory is left for the disk later if the
\* body outgrows it.
CacheLayer(a) ==
  IF a.cache = "no" THEN "no"
  ELSE IF a.filter = "none" /\ a.framing = "length" /\ a.large
       THEN IF a.cache = "disk" THEN "disk" ELSE "no"
       ELSE "memory"

\* A partial answer is not compressed.
Compressor(a) == IF a.partial = "no" THEN a.compress ELSE "no"

\* The length is announced to the client unless a stage changes it.
Announced(a) == a.framing = "length" /\ Compressor(a) = "no" /\ a.filter = "none"

\* NewDiskCache may fail to open the file.
Opened(layer) == IF layer = "disk" THEN {"disk", "no"} ELSE {layer}

BodyInit ==
  /\ plan \in Answers
  /\ up = [sent |-> 0, ended |-> FALSE, bye |-> FALSE]
  /\ held = [chunk |-> <<>>, filter |-> <<>>, zip |-> <<>>, stopped |-> FALSE]
  /\ store \in [in : Opened(CacheLayer(plan)), got : {<<>>}, ready : {FALSE}]
  /\ tmp = [data |-> <<>>, read |-> 0, take |-> 0, end |-> FALSE, closed |-> FALSE]
  /\ client = [got |-> <<>>, over |-> "no"]
  /\ at = "read" /\ res = "ok" /\ sender = "none" /\ sent = "ok" /\ faults = 0

Fault == faults < MaxFaults /\ faults' = faults + 1

-----------------------------------------------------------------------------
(* One write through the stages.  Each may keep a part back and pass on a    *)
(* beginning of what it has.                                                 *)

Take(n, s) == SubSeq(s, 1, n)
Drop(n, s) == SubSeq(s, n + 1, Len(s))

\* What becomes of all a filter has: out goes on, kept stays, ok is FALSE if the
\* body is denied.  A filter keeps what may still become a match, replaced_stop
\* sends the replacement and swallows the rest, and a denied body is dropped.
Passing(all, final) ==
  {[out |-> Take(n, all), kept |-> Drop(n, all), stopped |-> FALSE, ok |-> TRUE] :
     n \in IF final THEN {Len(all)} ELSE 0..Len(all)}
Nothing == [out |-> <<>>, kept |-> <<>>, stopped |-> held.stopped, ok |-> TRUE]
Stopping == [Nothing EXCEPT !.out = <<Replacement>>, !.stopped = TRUE]
Dropped == [Nothing EXCEPT !.ok = FALSE]

Filtered(s, final) ==
  LET all == held.filter \o s
  IN  CASE plan.filter = "none" -> {[Nothing EXCEPT !.out = s]}
        [] plan.filter # "none" /\ (held.stopped \/ all = <<>>) -> {Nothing}
        [] OTHER -> Passing(all, final)
                    \cup (IF plan.filter = "deny" THEN {Dropped} ELSE {})
                    \cup (IF plan.filter = "stop" THEN {Stopping} ELSE {})

\* What the compressor passes on of s; Z_FINISH ends the stream.
Compressed(s, how) ==
  LET all == held.zip \o s
  IN  IF Compressor(plan) = "no" THEN {[out |-> s, kept |-> <<>>]}
      ELSE CASE how = "finish" -> {[out |-> Append(all, Trailer), kept |-> <<>>]}
             [] how = "flush" -> {[out |-> all, kept |-> <<>>]}
             [] how = "write" -> {[out |-> Take(n, all), kept |-> Drop(n, all)] : n \in 0..Len(all)}

\* cache_write: the buffer takes everything, a disk stream may fail and is then
\* given up; a buffer larger than max_cache_size moves to the disk or is dropped.
Collected(s) ==
  LET more == [store EXCEPT !.got = @ \o s]
      gone == [store EXCEPT !.in = "no", !.got = <<>>]
  IN  IF store.in = "no" \/ s = <<>> THEN {store}
      ELSE {more} \cup (IF store.in = "disk" \/ plan.large THEN {gone} ELSE {})
                  \cup (IF store.in = "memory" /\ plan.large /\ plan.cache = "disk"
                        THEN {[more EXCEPT !.in = "disk"]} ELSE {})

\* KTempFile::Write: n of the pieces are stored.
Stored(n, s) == [tmp EXCEPT !.data = @ \o Take(n, s)]

\* KTempFile::write_all, and tempfile_write_body after it: the first write starts
\* the sender, a later one collects the result of a sender that has ended.
TempWrite(s, ok) ==
  \E n \in 0..Len(s) :
    LET wake == IF n > 0 /\ sender = "parked" THEN "read" ELSE sender
    IN  /\ tmp.closed => n = 0
        /\ tmp' = Stored(n, s)
        /\ \/ n < Len(s) /\ ~ok /\ sender' = wake /\ UNCHANGED sent
              /\ IF tmp.closed THEN UNCHANGED faults ELSE Fault
           \/ n = Len(s) /\ sender = "none" /\ UNCHANGED sent
              /\ \/ ok /\ sender' = "read" /\ UNCHANGED faults
                 \/ ~ok /\ UNCHANGED sender /\ Fault
           \/ n = Len(s) /\ sender = "done" /\ UNCHANGED faults
              /\ sender' = "none" /\ sent' = "ok" /\ ok = (sent = "ok")
           \/ n = Len(s) /\ sender \notin {"none", "done"} /\ ok
              /\ sender' = wake /\ UNCHANGED <<sent, faults>>
        /\ UNCHANGED client

SinkWrite(s, ok) ==
  /\ IF ok THEN client' = [client EXCEPT !.got = @ \o s] /\ UNCHANGED faults
     ELSE UNCHANGED client /\ Fault
  /\ UNCHANGED <<tmp, sender, sent>>

\* The stage below the cache.
Below(s, ok) ==
  IF s = <<>> THEN ok /\ UNCHANGED <<tmp, client, sender, sent, faults>>
  ELSE IF plan.fcgi THEN TempWrite(s, ok) ELSE SinkWrite(s, ok)

\* What the stages keep, of what left the chunk decoder.
Passed(f, z) == held' = [held EXCEPT !.chunk = <<>>, !.filter = f.kept, !.zip = z.kept,
                                     !.stopped = f.stopped]

\* s, which left the chunk decoder, runs through the stages; how is "write" or
\* "flush", and ok tells whether every stage succeeded.
Through(s, how, ok) ==
  \E f \in Filtered(s, how = "flush") :
    IF f.ok THEN \E z \in Compressed(f.out, how) :
                   Passed(f, z) /\ store' \in Collected(z.out) /\ Below(z.out, ok)
    ELSE /\ ~ok /\ Passed(f, [kept |-> held.zip])
         /\ UNCHANGED <<store, tmp, client, sender, sent, faults>>

-----------------------------------------------------------------------------
(* The request's fiber reads the upstream *)

\* The body has its length: checkContinueReadBody ends the loop.
AllRead == plan.framing = "length" /\ ~plan.fcgi /\ up.sent = Pieces

\* RF_NO_BUFFER flushes before every read; the chunk decoder does not hand a
\* flush on.
Flushed == plan.flush /\ plan.framing # "chunked" => held.filter = <<>> /\ held.zip = <<>>

Goes(r) == res' = r /\ at' = IF r = "ok" THEN "read" ELSE "close"

Flush ==
  /\ at = "read" /\ ~AllRead /\ ~Flushed
  /\ \E ok \in BOOLEAN : Through(<<>>, "flush", ok) /\ Goes(IF ok THEN "ok" ELSE "failed")
  /\ UNCHANGED <<plan, up>>

Reading == at = "read" /\ Flushed

\* A buffer with the next piece.  A chunk whose frame is not complete is saved
\* for the next call; there may be no memory for that.
Receive ==
  /\ Reading /\ up.sent < Pieces
  /\ up' = [up EXCEPT !.sent = @ + 1]
  /\ LET s == Append(held.chunk, up'.sent)
     IN  \/ \E ok \in BOOLEAN : Through(s, "write", ok) /\ Goes(IF ok THEN "ok" ELSE "failed")
         \/ /\ plan.framing = "chunked" /\ held.chunk = <<>>
            /\ held' = [held EXCEPT !.chunk = s] /\ Goes("ok")
            /\ UNCHANGED <<store, tmp, client, sender, sent, faults>>
         \/ /\ plan.framing = "chunked" /\ Fault
            /\ held' = [held EXCEPT !.chunk = <<>>] /\ Goes("failed")
            /\ UNCHANGED <<store, tmp, client, sender, sent>>
  /\ UNCHANGED plan

\* The last chunk, with what was saved before it: KGL_END.
LastChunk ==
  /\ Reading /\ plan.framing = "chunked" /\ up.sent = Pieces
  /\ up' = [up EXCEPT !.ended = TRUE]
  /\ \E ok \in BOOLEAN : Through(held.chunk, "write", ok) /\ Goes(IF ok THEN "end" ELSE "failed")
  /\ UNCHANGED plan

\* The loop ends with r: the connection is closed (read returns 0), also in the
\* middle of the body; it breaks, a chunk is malformed or FCGI_ABORT_REQUEST comes;
\* FCGI_END_REQUEST comes; or the body has its length.
Ends(r) ==
  /\ at' = "close" /\ res' = r
  /\ UNCHANGED <<plan, held, store, tmp, client, sender, sent, faults>>
Eof == Reading /\ ~AllRead /\ Ends("ok") /\ UNCHANGED up
Break == Reading /\ ~AllRead /\ Ends("failed") /\ UNCHANGED up
EndRequest == Reading /\ plan.fcgi /\ Ends("ok") /\ up' = [up EXCEPT !.bye = TRUE]
LengthReached == at = "read" /\ AllRead /\ Ends("ok") /\ UNCHANGED up

-----------------------------------------------------------------------------
(* Closing *)

\* Mutant: the result of the caller is passed on.
DechunkCloseTrusting(r) == r

\* dechunk_close: without the last chunk the body is malformed, whatever the
\* caller says.
DechunkClose(r) == IF plan.framing = "chunked" /\ ~up.ended THEN "failed" ELSE r

\* The close functions from the top down to cache_close: a filter flushes what it
\* kept only after a success, a compressor ends its stream in any case.  Below the
\* cache, tempfile_close tells the sender that nothing more comes.
Close ==
  /\ at = "close"
  /\ LET r == DechunkClose(res)
     IN  \E f \in IF r \in Errors THEN {Dropped} ELSE Filtered(<<>>, TRUE) :
           \E z \in Compressed(f.out, "finish"), ok \in BOOLEAN :
             /\ Passed(f, z) /\ store' \in Collected(z.out) /\ Below(z.out, ok)
             /\ res' = IF f.ok /\ ok THEN r ELSE "failed"
  /\ at' = IF plan.fcgi THEN "finish" ELSE "end"
  /\ UNCHANGED <<plan, up>>

\* Mutant: the end of the writer does not wake the sender.
WriteEndSilent ==
  /\ at = "finish" /\ at' = "join"
  /\ tmp' = [tmp EXCEPT !.end = TRUE]
  /\ UNCHANGED <<plan, up, held, store, client, res, sender, sent, faults>>

\* tempfile_end: WriteEnd wakes a sender that waits for data.
WriteEnd ==
  /\ at = "finish" /\ at' = "join"
  /\ tmp' = [tmp EXCEPT !.end = TRUE]
  /\ sender' = IF sender = "parked" THEN "read" ELSE sender
  /\ UNCHANGED <<plan, up, held, store, client, res, sent, faults>>

\* kfiber_join, and the result tempfile_close goes on with.
Join ==
  /\ at = "join" /\ sender \in {"none", "done"}
  /\ at' = "end" /\ sender' = "none"
  /\ res' = IF res = "ok" /\ sender = "done" THEN sent ELSE res
  /\ UNCHANGED <<plan, up, held, store, tmp, client, sent, faults>>

\* write_end: a body shorter than announced is broken, and a broken one shuts the
\* sink down instead of ending the response.
WriteEndResult == IF res = "ok" /\ Announced(plan) /\ Len(client.got) < Pieces
                  THEN "failed" ELSE res

\* KDiskCacheStream::Close may fail to write the rest or the header.
DiskClosed(ready) == IF ready /\ store.in = "disk" THEN BOOLEAN ELSE {ready}

\* default_close, and what cache_close does after it: the object gets its body
\* unless it is a part of one.
Complete ==
  /\ at = "end" /\ at' = "over" /\ res' = WriteEndResult
  /\ client' = [client EXCEPT !.over = IF res' \in Errors THEN "shut" ELSE "finished"]
  /\ LET ready == res' \notin Errors /\ store.in # "no" /\ plan.partial # "some"
     IN  store' \in {[store EXCEPT !.ready = r] : r \in DiskClosed(ready)}
  /\ UNCHANGED <<plan, up, held, tmp, sender, sent, faults>>

-----------------------------------------------------------------------------
(* tempfile_write_fiber: KTempFile::Read and the write to the sink *)

SenderEnds(r) == sender' = "done" /\ sent' = r

\* There may be no memory for the buffer, and a read of the file may fail.
ReadFails ==
  /\ sender = "read" /\ ~tmp.closed /\ Fault
  /\ tmp.read = 0 \/ tmp.read \in InMemory..(Len(tmp.data) - 1)
  /\ SenderEnds("failed")
  /\ UNCHANGED <<plan, up, held, store, tmp, client, at, res>>

ReadEnds ==
  /\ sender = "read"
  /\ tmp.closed \/ (tmp.end /\ tmp.read = Len(tmp.data))
  /\ SenderEnds(IF tmp.closed THEN "failed" ELSE "ok")
  /\ UNCHANGED <<plan, up, held, store, tmp, client, at, res, faults>>

Park ==
  /\ sender = "read" /\ ~tmp.closed /\ ~tmp.end /\ tmp.read = Len(tmp.data)
  /\ sender' = "parked"
  /\ UNCHANGED <<plan, up, held, store, tmp, client, at, res, sent, faults>>

\* A read takes what there is, of the memory or of the file.
ReadSome ==
  /\ sender = "read" /\ ~tmp.closed /\ tmp.read < Len(tmp.data)
  /\ \E n \in 1..(Len(tmp.data) - tmp.read) :
       /\ tmp.read < InMemory => tmp.read + n <= InMemory
       /\ tmp' = [tmp EXCEPT !.read = @ + n, !.take = n]
       /\ sender' = "send"
  /\ UNCHANGED <<plan, up, held, store, client, at, res, sent, faults>>

\* forward_write: when the sink fails the file is closed, so that the writer stops.
SendSome ==
  /\ sender = "send"
  /\ \/ /\ client' = [client EXCEPT !.got = @ \o SubSeq(tmp.data, tmp.read - tmp.take + 1, tmp.read)]
        /\ sender' = "read" /\ UNCHANGED <<sent, tmp, faults>>
     \/ /\ Fault /\ SenderEnds("failed") /\ UNCHANGED client
        /\ tmp' = [tmp EXCEPT !.closed = TRUE, !.end = TRUE]
  /\ UNCHANGED <<plan, up, held, store, at, res>>

-----------------------------------------------------------------------------
Fetching == Flush \/ Receive \/ LastChunk \/ Eof \/ Break \/ EndRequest \/ LengthReached
Closing == Close \/ WriteEnd \/ Join \/ Complete
Sending == ReadFails \/ ReadEnds \/ Park \/ ReadSome \/ SendSome
BodyNext == Fetching \/ Closing \/ Sending

BodySpec == BodyInit /\ [][BodyNext]_bodyVars

-----------------------------------------------------------------------------
(* Properties *)

\* What the stages below the filters have to deliver.
EndsWith(s, e) == s # <<>> /\ s[Len(s)] = e
Image(s) ==
  LET Whole(body) == IF held.stopped THEN EndsWith(body, Replacement)
                     ELSE body = [i \in 1..up.sent |-> i]
  IN  IF Compressor(plan) = "no" THEN Whole(s)
      ELSE EndsWith(s, Trailer) /\ Whole(Take(Len(s) - 1, s))

\* tempfile_close looks at the sender's result only if the fetch ended with
\* KGL_OK: a sender that fails after the last chunk (KGL_END) is not noticed.
SenderFailed == plan.fcgi /\ res = "end" /\ Len(client.got) < Len(tmp.data)

\* The upstream has sent the body to its end, as far as it tells the end.
UpstreamComplete ==
  CASE plan.framing = "length" -> up.sent = Pieces
    [] plan.framing = "chunked" -> up.ended
    [] OTHER -> plan.fcgi => up.bye

\* ReadBody takes the end of the stream for the end of the body.  That the body was
\* cut short is noticed where a chunk is missing (dechunk_close) or the client was
\* told a length (write_end), and nowhere else.
Unnoticed == plan.framing # "chunked" /\ ~Announced(plan)

\* The client is told that the response is complete, and the cache keeps it as
\* complete, only with every piece the upstream has sent, once and in order,
\* through all stages (and the end of the compressed stream), and only if the
\* upstream had sent all of it or the code has no means to know (the comment
\* "Do not finish a truncated/malformed upstream body as a successful chunked
\* response." in write_end, and cache_close).
BodyWhole ==
  at = "over" =>
    /\ client.over = "finished" => Image(client.got) \/ SenderFailed
    /\ store.ready => Image(store.got)
    /\ client.over = "finished" \/ store.ready => UpstreamComplete \/ Unnoticed

\* No wake-up of the sender is lost: it sleeps in KTempFile::Read only while there
\* is nothing to read and the writer has neither ended nor closed the file, so the
\* request's fiber never joins a sender that nobody will wake.
SenderAwake ==
  sender = "parked" => /\ tmp.read = Len(tmp.data) /\ ~tmp.end /\ ~tmp.closed
                       /\ at \notin {"join", "end", "over"}
=============================================================================
