------------------------------ MODULE Ingress ------------------------------
(***************************************************************************)
(* internal/ingress: the life of a chat completion, from its arrival to    *)
(* its settlement.  A request looks for a cached answer, claims budget,    *)
(* and is answered whole (serveChat) or relayed as a stream (serveStream). *)
(* A stream has two goroutines: the pump, which receives from the upstream *)
(* and offers one result at a time, and the handler, whose select takes    *)
(* whichever of a result, the idle timer and the context is ready.  The    *)
(* client, the upstream and the timers act whenever they like.             *)
(*                                                                         *)
(* A frame is its number in the upstream's answer, so that a lost, doubled *)
(* or reordered one shows.  The answer of a chat is all there or not.      *)
(***************************************************************************)
EXTENDS Integers, Sequences

CONSTANTS
    Requests,         \* handler goroutines; one that returned may serve again
    Keys,             \* the questions asked: cache keys
    Cacheable,        \* the ones policy lets the cache keep
    Metered,          \* TRUE when the server has an Accountant
    UpstreamTimeout,  \* TRUE when upstream_timeout_ms is set
    IdleTimeout,      \* TRUE when stream_idle_timeout_ms is set
    MaxRecorded,      \* maxCachedStreamBytes, in frames
    MaxFrames,        \* bound: frames of one answer
    MaxUsage,         \* bound: what an answer may cost
    Absent            \* no cached entry

ASSUME IngressAssumption ==
    /\ Cacheable \subseteq Keys
    /\ Metered \in BOOLEAN /\ UpstreamTimeout \in BOOLEAN /\ IdleTimeout \in BOOLEAN
    /\ MaxRecorded \in Nat /\ MaxFrames \in Nat /\ MaxUsage \in Nat \ {0}

VARIABLES
    cache,   \* the exact tier: what is stored under each key
    req,     \* the handler's locals, and what its client got
    pump,    \* the pump goroutine and the result it holds
    up       \* the upstream's side of the answer

vars == <<cache, req, pump, up>>

Chunk == [kind: {"chunk"}, frame: 0..MaxFrames, usage: 0..MaxUsage]
Final == {"eof", "error"}

\* What a Recv returns; frame 0 is a keepalive and usage 0 is no report.
recvResult == Chunk \cup [kind: Final]

Nothing == [kind |-> "error"]

Entry == [frames: Seq(1..MaxFrames), body: BOOLEAN, total: 0..MaxFrames]

Arrived(k, stream) ==
    [pc |-> "lookup", key |-> k, stream |-> stream, ctx |-> "live",
     reservation |-> "none", bill |-> 0, chunk |-> Nothing,
     usage |-> 0, completed |-> FALSE, recorded |-> <<>>, dropped |-> FALSE,
     got |-> <<>>, body |-> FALSE, terminal |-> "none"]

Unasked == [produced |-> 0, usage |-> 0, finished |-> FALSE]

\* The handler returns: its locals are gone and net/http cancels the context.
Return(r, q) ==
    req' = [req EXCEPT ![r] = [q EXCEPT !.pc = "ended", !.ctx = "closed", !.usage = 0,
                                        !.recorded = <<>>, !.dropped = FALSE]]

\* The handler has all it will say and writes it, with no deadline: a client that
\* stays and does not read holds it here.  q is what has been written in the end.
Respond(r, q) == req' = [req EXCEPT ![r] = [q EXCEPT !.pc = "answering"]]

\* The write returns: done, or failed because the client has gone.
Responded(r) ==
    /\ req[r].pc = "answering"
    /\ Return(r, req[r])
    /\ UNCHANGED <<cache, pump, up>>

-----------------------------------------------------------------------------
(* handleChatCompletions *)

Arrive(r, k, stream) ==
    /\ req[r].pc = "ended" /\ pump[r].at = "gone"
    /\ req' = [req EXCEPT ![r] = Arrived(k, stream)]
    /\ up' = [up EXCEPT ![r] = Unasked]
    /\ UNCHANGED <<cache, pump>>

\* The body is unreadable, too large, or names no model that is served.
Refuse(r) ==
    /\ req[r].pc = "lookup"
    /\ Respond(r, [req[r] EXCEPT !.terminal = "error"])
    /\ UNCHANGED <<cache, pump, up>>

Hit(r) == req[r].key \in Cacheable /\ cache[req[r].key] # Absent

\* A stored answer for a caller that wants it whole.
serveCached(r) ==
    /\ req[r].pc = "lookup" /\ Hit(r) /\ ~req[r].stream
    /\ Respond(r, [req[r] EXCEPT !.body = cache[req[r].key].body, !.terminal = "body"])
    /\ UNCHANGED <<cache, pump, up>>

Streamed(e) == e.frames # <<>>

\* The stored frames for a caller that wants a stream; a write may fail.
replayStream(r) ==
    /\ req[r].pc = "lookup" /\ Hit(r) /\ req[r].stream
    /\ LET e == cache[req[r].key]
       IN  /\ Streamed(e)
           /\ \E n \in 0..Len(e.frames) :
                 Respond(r, [req[r] EXCEPT !.got = SubSeq(e.frames, 1, n),
                        !.terminal = IF n = Len(e.frames) THEN "done" ELSE "none"])
           /\ up' = [up EXCEPT ![r] = [Unasked EXCEPT !.produced = e.total,
                                                      !.finished = TRUE]]
    /\ UNCHANGED <<cache, pump>>

\* Nothing stored that this caller could be served.
Miss(r) ==
    /\ req[r].pc = "lookup"
    /\ Hit(r) => req[r].stream /\ ~Streamed(cache[req[r].key])
    /\ req' = [req EXCEPT ![r].pc = "admission"]
    /\ UNCHANGED <<cache, pump, up>>

Denied(r) ==
    /\ req[r].pc = "admission" /\ Metered
    /\ Respond(r, [req[r] EXCEPT !.terminal = "error"])
    /\ UNCHANGED <<cache, pump, up>>

Admitted(r) ==
    /\ req[r].pc = "admission"
    /\ req' = [req EXCEPT ![r].pc = "calling",
                          ![r].reservation = IF Metered THEN "open" ELSE "none"]
    /\ UNCHANGED <<cache, pump, up>>

-----------------------------------------------------------------------------
(* Closing the books *)

\* Guard.Settle and Guard.Abort; without an accountant there is no claim.
Settled(q, usage) ==
    IF q.reservation = "none" THEN q
    ELSE [q EXCEPT !.reservation = "settled", !.bill = q.bill + usage]
Aborted(q) ==
    IF q.reservation = "none" THEN q ELSE [q EXCEPT !.reservation = "released"]

\* Mutant: a request that reported nothing is left as it is.
settleOrAbort_NoAbort(q, usage) == IF usage = 0 THEN q ELSE Settled(q, usage)

\* The claim is settled at what was reported, or goes back if nothing was.
settleOrAbort(q, usage) == IF usage = 0 THEN Aborted(q) ELSE Settled(q, usage)

\* The answer is remembered, if policy lets it be.
Put(r, e) ==
    cache' = IF req[r].key \in Cacheable THEN [cache EXCEPT ![req[r].key] = e] ELSE cache

\* The upstream, or every provider of the chain, failed before a first byte.
Unanswered(r) ==
    /\ req[r].pc = "calling"
    /\ Respond(r, settleOrAbort([req[r] EXCEPT !.terminal = "error"], 0))
    /\ UNCHANGED <<cache, pump, up>>

-----------------------------------------------------------------------------
(* serveChat *)

ChatAnswers(r, usage) ==
    /\ req[r].pc = "calling" /\ ~req[r].stream
    /\ req' = [req EXCEPT ![r] = [Settled(req[r], usage) EXCEPT !.pc = "storing"]]
    /\ up' = [up EXCEPT ![r].usage = usage, ![r].finished = TRUE]
    /\ UNCHANGED <<cache, pump>>

\* Stored after settling, and then written.
ChatStores(r) ==
    /\ req[r].pc = "storing" /\ ~req[r].stream
    /\ Put(r, [frames |-> <<>>, body |-> TRUE, total |-> 0])
    /\ Respond(r, [req[r] EXCEPT !.body = TRUE, !.terminal = "body"])
    /\ UNCHANGED <<pump, up>>

-----------------------------------------------------------------------------
(* serveStream: the pump *)

StreamOpens(r) ==
    /\ req[r].pc = "calling" /\ req[r].stream
    /\ req' = [req EXCEPT ![r].pc = "opening"]
    /\ UNCHANGED <<cache, pump, up>>

\* The headers are flushed, with no deadline either, and the pump starts.
writeSSEHeaders(r) ==
    /\ req[r].pc = "opening"
    /\ req' = [req EXCEPT ![r].pc = "relaying"]
    /\ pump' = [pump EXCEPT ![r].at = "receiving"]
    /\ UNCHANGED <<cache, up>>

Gone == [at |-> "gone", held |-> Nothing]

Offer(r, res) == pump' = [pump EXCEPT ![r] = [at |-> "offering", held |-> res]]

\* Recv returns a frame.  A usage report is a running total, and optional.
RecvFrame(r) ==
    LET n == up[r].produced + 1
    IN  /\ pump[r].at = "receiving"
        /\ n <= MaxFrames
        /\ \E u \in {0} \cup {v \in 1..MaxUsage : v >= up[r].usage} :
              /\ Offer(r, [kind |-> "chunk", frame |-> n, usage |-> u])
              /\ up' = [up EXCEPT ![r].produced = n,
                                  ![r].usage = IF u = 0 THEN up[r].usage ELSE u]
        /\ UNCHANGED <<cache, req>>

RecvKeepalive(r) ==
    /\ pump[r].at = "receiving"
    /\ Offer(r, [kind |-> "chunk", frame |-> 0, usage |-> 0])
    /\ UNCHANGED <<cache, req, up>>

\* Recv returns io.EOF: the upstream sent its own end of answer marker.
RecvEnd(r) ==
    /\ pump[r].at = "receiving"
    /\ Offer(r, [kind |-> "eof"])
    /\ up' = [up EXCEPT ![r].finished = TRUE]
    /\ UNCHANGED <<cache, req>>

\* Recv returns an error or panics: cut off, cancelled, or closed under it.
RecvError(r) ==
    /\ pump[r].at = "receiving"
    /\ Offer(r, [kind |-> "error"])
    /\ UNCHANGED <<cache, req, up>>

\* Mutant: the pump waits for a handler that has left.
Unheard_Never(r) == FALSE

Unheard(r) == req[r].ctx # "live"

PumpLeaves(r) ==
    /\ pump[r].at = "offering" /\ Unheard(r)
    /\ pump' = [pump EXCEPT ![r] = Gone]
    /\ UNCHANGED <<cache, req, up>>

-----------------------------------------------------------------------------
(* serveStream: the handler *)

\* The most recent report, never a sum.
Reported(q, usage) == IF usage = 0 THEN q.usage ELSE usage

Take(r) ==
    LET res == pump[r].held
    IN  /\ req[r].pc = "relaying" /\ pump[r].at = "offering"
        /\ res.kind = "chunk"
        /\ req' = [req EXCEPT ![r].pc = "writing", ![r].chunk = res,
                              ![r].usage = Reported(req[r], res.usage)]
        /\ pump' = [pump EXCEPT ![r] = [at |-> "receiving", held |-> Nothing]]
        /\ UNCHANGED <<cache, up>>

\* Mutant: what does not fit is left out.
Recorded_Truncates(q, frame) ==
    IF Len(q.recorded) + 1 > MaxRecorded THEN q
    ELSE [q EXCEPT !.recorded = Append(q.recorded, frame)]

\* The recorder keeps every frame or, past its ceiling, none at all.
Recorded(q, frame) ==
    IF q.dropped THEN q
    ELSE IF Len(q.recorded) + 1 > MaxRecorded
         THEN [q EXCEPT !.dropped = TRUE, !.recorded = <<>>]
         ELSE [q EXCEPT !.recorded = Append(q.recorded, frame)]

Write(r) ==
    LET q     == [req[r] EXCEPT !.pc = "relaying", !.chunk = Nothing]
        frame == req[r].chunk.frame
    IN  /\ req[r].pc = "writing"
        /\ req' = [req EXCEPT ![r] = IF frame = 0 THEN q
                       ELSE Recorded([q EXCEPT !.got = Append(q.got, frame)], frame)]
        /\ UNCHANGED <<cache, pump, up>>

\* The client is gone, or has not read for as long as the write may take.
WriteFails(r) ==
    /\ req[r].pc = "writing"
    /\ req' = [req EXCEPT ![r].pc = "storing", ![r].chunk = Nothing]
    /\ UNCHANGED <<cache, pump, up>>

\* Mutant: every stream ends the same way.
finishStream_Always(kind) == "done"

\* The frame that ends the response: [DONE] only for an upstream that ended.
finishStream(kind) == IF kind = "eof" THEN "done" ELSE "truncated"

\* The last result.  The terminal frame's own write may fail unnoticed.
TakeFinal(r) ==
    LET res == pump[r].held
    IN  /\ req[r].pc = "relaying" /\ pump[r].at = "offering"
        /\ res.kind \in Final
        /\ \E frame \in {finishStream(res.kind), "none"} :
              req' = [req EXCEPT ![r].pc = "storing", ![r].terminal = frame,
                                 ![r].completed = (res.kind = "eof")]
        /\ pump' = [pump EXCEPT ![r] = Gone]
        /\ UNCHANGED <<cache, up>>

\* The upstream was quiet for too long: it is cancelled and closed.
IdleFires(r) ==
    /\ req[r].pc = "relaying" /\ IdleTimeout
    /\ \E frame \in {finishStream("error"), "none"} :
          req' = [req EXCEPT ![r].pc = "storing", ![r].terminal = frame,
                             ![r].ctx = "closed"]
    /\ UNCHANGED <<cache, pump, up>>

\* Mutant: only a client that left is noticed.
Cancelled_ByClient(r) == req[r].ctx = "gone"

Cancelled(r) == req[r].ctx # "live"

\* The context ended.  Nothing tells the client, who is taken to have left.
CtxDone(r) ==
    /\ req[r].pc = "relaying" /\ Cancelled(r)
    /\ req' = [req EXCEPT ![r].pc = "storing"]
    /\ UNCHANGED <<cache, pump, up>>

\* settleStream, deferred: a complete answer is stored ...
StreamStores(r) ==
    LET q == req[r]
    IN  /\ q.pc = "storing" /\ q.stream
        /\ IF q.completed /\ ~q.dropped /\ q.recorded # <<>>
           THEN Put(r, [frames |-> q.recorded, body |-> FALSE, total |-> up[r].produced])
           ELSE UNCHANGED cache
        /\ req' = [req EXCEPT ![r].pc = "settling"]
        /\ UNCHANGED <<pump, up>>

\* ... and the claim is settled or returned, whoever is still there to hear.
StreamSettles(r) ==
    /\ req[r].pc = "settling"
    /\ Return(r, settleOrAbort(req[r], req[r].usage))
    /\ UNCHANGED <<cache, pump, up>>

-----------------------------------------------------------------------------
(* The environment *)

Hangup(r) ==
    /\ req[r].pc # "ended" /\ req[r].ctx \in {"live", "timeout"}
    /\ req' = [req EXCEPT ![r].ctx = "gone"]
    /\ UNCHANGED <<cache, pump, up>>

\* The timer set before the upstream was called bounds the whole answer.
UpstreamTimer(r) ==
    /\ req[r].pc \in {"calling", "opening", "relaying", "writing"} /\ UpstreamTimeout
    /\ req[r].ctx = "live"
    /\ req' = [req EXCEPT ![r].ctx = "timeout"]
    /\ UNCHANGED <<cache, pump, up>>

\* A stored answer expires or makes room for another.
Evict(k) ==
    /\ cache[k] # Absent
    /\ cache' = [cache EXCEPT ![k] = Absent]
    /\ UNCHANGED <<req, pump, up>>

Init ==
    /\ cache = [k \in Keys |-> Absent]
    /\ req \in [Requests -> {[Arrived(k, FALSE) EXCEPT !.pc = "ended", !.ctx = "closed"] :
                                  k \in Keys}]
    /\ pump = [r \in Requests |-> Gone]
    /\ up = [r \in Requests |-> Unasked]

\* Steps of the handler that wait for nobody but, in a write, its client.
Handle(r) ==
    \/ Refuse(r) \/ serveCached(r) \/ replayStream(r) \/ Miss(r)
    \/ Denied(r) \/ Admitted(r) \/ ChatStores(r) \/ Responded(r)
    \/ writeSSEHeaders(r) \/ Write(r) \/ WriteFails(r) \/ StreamStores(r) \/ StreamSettles(r)

\* The handler is in a write without a deadline, and its client has not gone: only
\* the frames of a live stream carry one, and only with an idle timeout.
Unread(r) ==
    /\ req[r].ctx # "gone"
    /\ \/ req[r].pc \in {"answering", "opening"}
       \/ req[r].pc = "writing" /\ ~IdleTimeout

\* The upstream call returns.
Answer(r) ==
    \/ Unanswered(r) \/ StreamOpens(r)
    \/ \E usage \in 0..MaxUsage : ChatAnswers(r, usage)

Receive(r) == RecvFrame(r) \/ RecvKeepalive(r) \/ RecvEnd(r) \/ RecvError(r)

Next ==
    \/ \E r \in Requests :
          \/ \E k \in Keys, stream \in BOOLEAN : Arrive(r, k, stream)
          \/ Handle(r) \/ Answer(r)
          \/ Receive(r) \/ PumpLeaves(r)
          \/ Take(r) \/ TakeFinal(r) \/ IdleFires(r) \/ CtxDone(r)
          \/ Hangup(r) \/ UpstreamTimer(r)
    \/ \E k \in Keys : Evict(k)

Spec == Init /\ [][Next]_vars

\* A goroutine that can run does, unless it writes to a client that need not read;
\* a select takes each of its ready cases sooner or later; a timer that is set
\* fires; and an upstream whose context ended returns from the call and from Recv.
RequestFairness(r) ==
    /\ WF_vars(~Unread(r) /\ Handle(r))
    /\ WF_vars(req[r].ctx # "live" /\ Answer(r))
    /\ WF_vars(req[r].ctx # "live" /\ Receive(r))
    /\ WF_vars(PumpLeaves(r))
    /\ SF_vars(CtxDone(r))
    /\ WF_vars(UpstreamTimer(r))

FairSpec == Spec /\ \A r \in Requests : RequestFairness(r)

-----------------------------------------------------------------------------
(* Properties *)

TypeOK ==
    /\ cache \in [Keys -> Entry \cup {Absent}]
    /\ req \in [Requests ->
          [pc: {"ended", "lookup", "admission", "calling", "opening", "relaying", "writing",
                "storing", "settling", "answering"},
           key: Keys, stream: BOOLEAN, ctx: {"live", "gone", "timeout", "closed"},
           reservation: {"none", "open", "settled", "released"}, bill: 0..MaxUsage,
           chunk: Chunk \cup {Nothing}, usage: 0..MaxUsage, completed: BOOLEAN,
           recorded: UNION {[1..n -> 1..MaxFrames] : n \in 0..MaxRecorded},
           dropped: BOOLEAN, got: Seq(1..MaxFrames), body: BOOLEAN,
           terminal: {"none", "done", "truncated", "error", "body"}]]
    /\ pump \in [Requests -> [at: {"gone", "receiving", "offering"}, held: recvResult]]
    /\ up \in [Requests -> [produced: 0..MaxFrames, usage: 0..MaxUsage, finished: BOOLEAN]]

\* The first n frames of an answer.
Frames(n) == [i \in 1..n |-> i]

\* finishStream: a client that sees [DONE] has every frame of a finished answer,
\* in order, live or replayed, whatever the select took before it.
DoneMeansWhole ==
    \A r \in Requests : req[r].terminal = "done" =>
        up[r].finished /\ req[r].got = Frames(up[r].produced)

\* settleStream: what is remembered is a whole answer.  A cut, cancelled or
\* oversized stream never reaches the cache, not even in part.
CachedIsWhole ==
    \A k \in Keys : cache[k] # Absent =>
        IF cache[k].body THEN cache[k].frames = <<>>
        ELSE cache[k].frames = Frames(cache[k].total) /\ cache[k].total > 0

\* Every variable keeps its type, and settleOrAbort: no handler returns, or waits for
\* its client to read the last of an answer, with its claim open, by whatever path,
\* and an answer that reached its end is billed at the upstream's last report.
ClaimClosed ==
    /\ TypeOK
    /\ \A r \in Requests : req[r].pc \in {"answering", "ended"} =>
        /\ req[r].reservation # "open"
        /\ req[r].completed /\ req[r].reservation # "none" => req[r].bill = up[r].usage

\* serveStream and serveChat: with an upstream timeout configured every handler
\* returns, whatever its upstream does or leaves undone, and whatever its client does
\* but one thing: stay for good, and not read what is written without a deadline.
EveryHandlerReturns ==
    \A r \in Requests : req[r].pc # "ended" ~> (req[r].pc = "ended" \/ []Unread(r))

\* pumpStream: the pump never outlives its request for good, although nobody may
\* be left to take what it received.
PumpEnds == \A r \in Requests : pump[r].at # "gone" ~> pump[r].at = "gone"

-----------------------------------------------------------------------------
(* What a comment says and the code does not keep *)

\* key.go: "An Entry holds both the whole body and the streamed frames, so one
\* entry serves a caller who asked for either."
EitherIsServed ==
    \A r \in Requests : req[r].terminal = "body" => req[r].body
=============================================================================
