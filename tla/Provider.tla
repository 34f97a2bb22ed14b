------------------------------ MODULE Provider ------------------------------
(***************************************************************************)
(* internal/providers: one call to an upstream, through any of the three   *)
(* adapters, whole (Chat) or streamed (ChatStream, then Recv until it      *)
(* ends).  The adapters share the framing of server-sent events and differ *)
(* in how an event is translated and in what says that an answer is whole. *)
(* The caller may close the stream, and its context may end, at any time.  *)
(*                                                                         *)
(* The upstream sends events as lines and may fall silent, end the body or *)
(* break the connection after any line.  An event is its number, a type    *)
(* and the tokens it reports; a line holds at most one whole field.        *)
(***************************************************************************)
EXTENDS Integers, Sequences

CONSTANTS
    MaxEvents,   \* bound: events of one answer
    MaxTokens,   \* bound: tokens one event reports
    MaxLines     \* MaxSSEEventBytes, in lines

ASSUME ProviderAssumption ==
    MaxEvents \in Nat /\ MaxTokens \in Nat /\ MaxLines \in Nat \ {0}

VARIABLES
    wire,     \* the adapter
    pc,       \* where the call is
    ctx,      \* the caller's context
    body,     \* the response body
    sc,       \* SSEScanner.Next's locals
    reader,   \* streamReader
    result,   \* how the call or the stream ended
    got,      \* the chunks the caller received, keepalives left out
    up,       \* the upstream: events sent whole, and lines still to come
    fault     \* what went wrong first: history, for the properties only

vars == <<wire, pc, ctx, body, sc, reader, result, got, up, fault>>

Wires == {"openai", "anthropic", "gemini"}

\* What each adapter may be sent.  "bad" is not JSON; a "final" part has a
\* finishReason; "tool" and "block" carry no text.
Types(w) ==
    CASE w = "openai"    -> {"chunk", "bad", "done"}
      [] w = "anthropic" -> {"start", "text", "tool", "block", "ping", "delta", "bad", "stop"}
      [] w = "gemini"    -> {"chunk", "final", "error", "bad"}

Reporting == {"chunk", "final", "start", "delta"}

Event(w) == {e \in [id: 1..MaxEvents, type: Types(w), tokens: 0..MaxTokens] :
                e.tokens > 0 => e.type \in Reporting}

Data(e)  == [field |-> "data", value |-> e]
Name(e)  == [field |-> "event", value |-> e]
Line(f)  == [field |-> f]

\* The ways an event arrives: bare, named, among lines that mean nothing, and
\* too large to be held.
Framings(e) ==
    {<<Data(e), Line("blank")>>,
     <<Name(e), Data(e), Line("blank")>>,
     <<Line("blank"), Line("other"), Data(e), Line("comment"), Line("blank")>>,
     <<Data(e)>> \o [i \in 1..MaxLines |-> Line("other")] \o <<Line("blank")>>}

\* Lines that are no event: a keepalive, and a name that is never filled in.
Noise == {<<Line("comment")>>,
          <<Name([id |-> 1, type |-> "block", tokens |-> 0]), Line("blank")>>}

NoEvent == [id |-> 0]

Silent == [sent |-> <<>>, event |-> NoEvent, rest |-> <<>>]

\* Next starts: nothing read, and the whole budget.
Fresh == [name |-> NoEvent, data |-> NoEvent, left |-> MaxLines]

newStreamReader == [done |-> FALSE, closed |-> FALSE, closing |-> FALSE, sawEnd |-> FALSE,
                    input |-> 0, output |-> 0]

-----------------------------------------------------------------------------
(* The call *)

\* Nobody is left to use the last one.
Call(w) ==
    /\ pc = "returned" \/ (pc = "ready" /\ reader.done /\ body = "closed")
    /\ wire' = w /\ pc' = "sending" /\ ctx' = "live" /\ body' = "none"
    /\ sc' = Fresh /\ reader' = newStreamReader /\ result' = "none" /\ got' = <<>>
    /\ up' = Silent /\ fault' = "none"

\* The error's own kind counts as much as the context's.
transportClass(err, c) ==
    IF err = "deadline" \/ c = "expired" THEN "timeout"
    ELSE IF err = "canceled" \/ c = "canceled" THEN "canceled"
    ELSE "upstream"

\* What net/http says of a context that ended: its error, or that of a connection
\* torn down under the read.
ContextErrors ==
    {"failed"} \cup (CASE ctx = "expired"  -> {"deadline"}
                       [] ctx = "canceled" -> {"canceled"}
                       [] OTHER            -> {})

\* The transport bounds its dial, whose timeout is a deadline the context knows
\* nothing of; it bounds no read of a body.
SendErrors == ContextErrors \cup {"deadline"}

looksLikeErrorEnvelope(envelope) == envelope # "none"

ClassFromStatus(code) ==
    CASE code \in {401, 403} -> "auth"
      [] code = 402          -> "payment_required"
      [] code = 429          -> "rate_limited"
      [] code = 404          -> "model_not_found"
      [] code \in {400, 422} -> "invalid_request"
      [] code >= 500         -> "upstream"
      [] OTHER               -> "internal"

ClassFromStatusAndBody(code, envelope) ==
    IF code = 404 /\ ~looksLikeErrorEnvelope(envelope) THEN "upstream" ELSE ClassFromStatus(code)

\* Gemini's own status string counts before the code.
classify(code, envelope) ==
    CASE envelope = "RESOURCE_EXHAUSTED"                        -> "rate_limited"
      [] envelope \in {"UNAUTHENTICATED", "PERMISSION_DENIED"}  -> "auth"
      [] OTHER                                    -> ClassFromStatusAndBody(code, envelope)

statusError(code, envelope) ==
    IF wire = "gemini" THEN classify(code, envelope) ELSE ClassFromStatusAndBody(code, envelope)

Returns(class) ==
    /\ pc' = "returned" /\ result' = class
    /\ UNCHANGED <<wire, ctx, sc, reader, got, up>>

\* The body cannot be renamed or translated, or no request can be built.
Rejected ==
    /\ pc = "sending"
    /\ \/ Returns("invalid_request") /\ fault' = "caller"
       \/ Returns("internal") /\ fault' = "gateway"
    /\ UNCHANGED body

\* Nothing came back: the upstream cannot be reached, or the context ended.
SendFails ==
    /\ pc = "sending"
    /\ \E err \in SendErrors :
          /\ Returns(transportClass(err, ctx))
          /\ fault' = IF ctx = "live" \/ err \notin ContextErrors THEN "upstream" ELSE fault
    /\ UNCHANGED body

\* An error status.  Its body is read as far as needed, and closed.
Refused(code, envelope) ==
    /\ pc = "sending"
    /\ Returns(statusError(code, envelope))
    /\ body' = "closed"
    /\ fault' = "upstream"

Answers ==
    /\ pc = "sending"
    /\ body' = "open"
    /\ \E next \in {"whole", "ready"} : pc' = next
    /\ UNCHANGED <<wire, ctx, sc, reader, result, got, up, fault>>

\* Chat reads the body, one byte past the cap, and translates it.
ChatReads ==
    /\ pc = "whole"
    /\ Returns("ok")
    /\ body' = "closed"
    /\ UNCHANGED fault

ChatReadFails ==
    /\ pc = "whole"
    /\ \E err \in ContextErrors : Returns(transportClass(err, ctx))
    /\ body' = "closed"
    /\ fault' = IF ctx = "live" THEN "upstream" ELSE fault

\* Too large, or, unless it is passed on as it is, no completion at all.
ChatUnusable ==
    /\ pc = "whole"
    /\ Returns("upstream")
    /\ body' = "closed"
    /\ fault' = "upstream"

-----------------------------------------------------------------------------
(* How a stream ends *)

\* Mutants: a body that ends is a whole answer, and a closed one a broken one.
recvError_EndIsWhole(err, userClosed) ==
    IF err = "EOF" THEN "eof"
    ELSE IF err = "too_large" THEN "upstream"
    ELSE LET class == transportClass(err, ctx)
         IN  IF class = "upstream" /\ userClosed THEN "truncated" ELSE class
recvError_Blames(err, userClosed) ==
    IF err = "EOF" THEN IF reader.sawEnd THEN "eof" ELSE "truncated"
    ELSE IF err = "too_large" THEN "upstream" ELSE transportClass(err, ctx)

\* A body that ends is whole only if the adapter's own marker was seen, and one that
\* fails because it was closed, with the context still live, is cut short.
recvError(err, userClosed) ==
    IF err = "EOF" THEN IF reader.sawEnd THEN "eof" ELSE "truncated"
    ELSE IF err = "too_large" THEN "upstream"
    ELSE LET class == transportClass(err, ctx)
         IN  IF class = "upstream" /\ userClosed THEN "truncated" ELSE class

\* Mutant: the body is left to the caller.
finish_Leaks(end) ==
    /\ pc' = "ready" /\ result' = end
    /\ reader' = [reader EXCEPT !.done = TRUE]
    /\ UNCHANGED body

\* Recv closes the body, after whoever is closing it now, and the end stands.
finish(end) ==
    /\ ~reader.closing
    /\ pc' = "ready" /\ result' = end
    /\ reader' = [reader EXCEPT !.done = TRUE, !.closed = TRUE]
    /\ body' = "closed"

-----------------------------------------------------------------------------
(* Recv *)

\* Asked again after the end: the same answer.
RecvAgain == pc = "ready" /\ reader.done /\ UNCHANGED vars

\* Closed since the last Recv.
RecvClosed ==
    /\ pc = "ready" /\ ~reader.done /\ reader.closed
    /\ reader' = [reader EXCEPT !.done = TRUE]
    /\ result' = "truncated"
    /\ UNCHANGED <<wire, pc, ctx, body, sc, got, up, fault>>

RecvStarts ==
    /\ pc = "ready" /\ ~reader.done /\ ~reader.closed
    /\ pc' = "reading" /\ sc' = Fresh
    /\ UNCHANGED <<wire, ctx, body, reader, result, got, up, fault>>

\* The upstream sends the first line of something.
Sends ==
    /\ pc = "reading" /\ up.rest = <<>> /\ Len(up.sent) < MaxEvents
    /\ \/ \E e \in Event(wire) :
             /\ e.id = Len(up.sent) + 1
             /\ \E lines \in Framings(e) : up' = [up EXCEPT !.event = e, !.rest = lines]
       \/ \E lines \in Noise : up' = [up EXCEPT !.event = NoEvent, !.rest = lines]
    /\ UNCHANGED <<wire, pc, ctx, body, sc, reader, result, got, fault>>

\* The line is used up; with its last line an event was sent whole.
LineRead ==
    LET whole == Len(up.rest) = 1 /\ up.event # NoEvent
    IN  up' = [sent  |-> IF whole THEN Append(up.sent, up.event) ELSE up.sent,
               event |-> IF Len(up.rest) = 1 THEN NoEvent ELSE up.event,
               rest  |-> Tail(up.rest)]

\* Next goes on to the next line, or Recv to the next event.
Continue(s) ==
    /\ sc' = s
    /\ UNCHANGED <<wire, pc, ctx, body, reader, result, got, fault>>

Keepalive ==
    /\ pc' = "ready"
    /\ UNCHANGED <<wire, ctx, body, sc, reader, result, got, fault>>

Chunk(r, e, tokens) ==
    /\ pc' = "ready"
    /\ reader' = r
    /\ got' = Append(got, [id |-> e.id, tokens |-> tokens])
    /\ UNCHANGED <<wire, ctx, body, sc, result, fault>>

Ends(end) ==
    /\ finish(end)
    /\ UNCHANGED <<wire, ctx, sc, got, fault>>

Fails(class) ==
    /\ finish(class)
    /\ fault' = "upstream"
    /\ UNCHANGED <<wire, ctx, sc, got>>

\* openaiwire: everything is in the data, and is passed on as it came.
openaiRecv(e) ==
    IF e = NoEvent THEN Continue(Fresh)
    ELSE IF e.type = "done" THEN Ends("eof") ELSE Chunk(reader, e, e.tokens)

\* Mutant: half of the tokens are reported as all of them.
usage_Half(r) == r.input + r.output

\* anthropic: input and output tokens come apart, and are reported together.
usage(r) == IF r.input = 0 \/ r.output = 0 THEN 0 ELSE r.input + r.output

\* The name says what an event is; without one, its data does.
translate(name, e) ==
    LET type    == IF name # NoEvent THEN name.type ELSE e.type
        tokens  == IF e = NoEvent THEN 0 ELSE e.tokens
        started == IF tokens = 0 THEN reader ELSE [reader EXCEPT !.input = tokens]
        counted == IF tokens = 0 THEN reader ELSE [reader EXCEPT !.output = tokens]
    IN  CASE e # NoEvent /\ e.type = "bad" -> Fails("upstream")
          [] type = "ping"  -> Keepalive
          [] type = "start" -> Chunk(started, e, 0)
          [] type = "text"  -> Chunk(reader, e, 0)
          [] type = "delta" -> Chunk(counted, e, usage(counted))
          [] type = "stop"  -> Ends("eof")
          [] OTHER          -> Continue(Fresh)

\* gemini: a finishReason marks the end, and reading goes on to the body's.
translateEvent(e) ==
    IF e = NoEvent THEN Continue(Fresh)
    ELSE CASE e.type = "bad"   -> Fails("upstream")
           [] e.type = "error" -> \E envelope \in {"RESOURCE_EXHAUSTED", "INTERNAL"} :
                                     Fails(classify(500, envelope))
           [] OTHER            -> Chunk([reader EXCEPT !.sawEnd = @ \/ e.type = "final"], e, e.tokens)

Dispatch ==
    CASE wire = "openai"    -> openaiRecv(sc.data)
      [] wire = "anthropic" -> translate(sc.name, sc.data)
      [] wire = "gemini"    -> translateEvent(sc.data)

TooLarge(left) == left = 0

\* One line of Next's loop.
ReadLine ==
    LET line == Head(up.rest)
        s    == [sc EXCEPT !.left = @ - 1]
        open == sc.name = NoEvent /\ sc.data = NoEvent
    IN  /\ pc = "reading" /\ up.rest # <<>> /\ ~TooLarge(sc.left)
        /\ LineRead
        /\ CASE line.field = "blank"   -> IF open THEN Continue(Fresh) ELSE Dispatch
             [] line.field = "comment" -> IF open THEN Keepalive ELSE Continue(s)
             [] line.field = "data"    -> Continue([s EXCEPT !.data = line.value])
             [] line.field = "event"   -> Continue([s EXCEPT !.name = line.value])
             [] line.field = "other"   -> Continue(s)

\* What was read of an event that is cut short is dropped.
ReadTooLarge ==
    /\ pc = "reading" /\ up.rest # <<>> /\ TooLarge(sc.left)
    /\ Fails(recvError("too_large", reader.closed))
    /\ UNCHANGED up

\* The body ends, between two lines, wherever that leaves the answer.
ReadEnds ==
    /\ pc = "reading" /\ body = "open"
    /\ finish(recvError("EOF", reader.closed))
    /\ fault' = IF reader.sawEnd THEN fault ELSE "upstream"
    /\ UNCHANGED <<wire, ctx, sc, got, up>>

\* The read fails: the context ended, the body was closed, or it just failed.
ReadFails ==
    /\ pc = "reading"
    /\ \E err \in ContextErrors : finish(recvError(err, reader.closed))
    /\ fault' = IF ctx = "live" /\ body = "open" THEN "upstream" ELSE fault
    /\ UNCHANGED <<wire, ctx, sc, got, up>>

-----------------------------------------------------------------------------
(* The caller *)

\* Close, from another goroutine than Recv's: first the flag ...
Close ==
    /\ pc \in {"ready", "reading"} /\ ~reader.closed
    /\ reader' = [reader EXCEPT !.closed = TRUE, !.closing = TRUE]
    /\ UNCHANGED <<wire, pc, ctx, body, sc, result, got, up, fault>>

\* Mutant: the body stays open.
Released_Never == "open"

Released == "closed"

\* ... and then the body.
CloseBody ==
    /\ reader.closing
    /\ reader' = [reader EXCEPT !.closing = FALSE]
    /\ body' = Released
    /\ UNCHANGED <<wire, pc, ctx, sc, result, got, up, fault>>

CtxEnds ==
    /\ pc # "returned" /\ ctx = "live"
    /\ \E c \in {"canceled", "expired"} : ctx' = c
    /\ UNCHANGED <<wire, pc, body, sc, reader, result, got, up, fault>>

Init ==
    /\ wire \in Wires /\ pc = "returned" /\ ctx = "live" /\ body = "none"
    /\ sc = Fresh /\ reader = newStreamReader /\ result = "none" /\ got = <<>>
    /\ up = Silent /\ fault = "none"

Statuses  == {400, 401, 402, 404, 409, 429, 503}
Envelopes == {"none", "other", "RESOURCE_EXHAUSTED", "UNAUTHENTICATED"}

Recv == RecvAgain \/ RecvClosed \/ RecvStarts
Read == ReadLine \/ ReadTooLarge \/ ReadEnds \/ ReadFails

Next ==
    \/ \E w \in Wires : Call(w)
    \/ Rejected \/ SendFails \/ Answers
    \/ \E code \in Statuses, envelope \in Envelopes : Refused(code, envelope)
    \/ ChatReads \/ ChatReadFails \/ ChatUnusable
    \/ Recv \/ Sends \/ Read
    \/ Close \/ CloseBody \/ CtxEnds

Spec == Init /\ [][Next]_vars

\* Closing is carried through.  A closed body, or one whose context ended, fails
\* the read, once what was buffered is used up.
FairSpec ==
    /\ Spec
    /\ WF_vars(CloseBody)
    /\ WF_vars((body = "closed" \/ ctx # "live") /\ ReadFails)

-----------------------------------------------------------------------------
(* Properties *)

Classes == {"upstream", "timeout", "canceled", "auth", "payment_required", "rate_limited",
            "model_not_found", "invalid_request", "internal"}

TypeOK ==
    /\ wire \in Wires
    /\ pc \in {"returned", "sending", "whole", "ready", "reading"}
    /\ ctx \in {"live", "canceled", "expired"}
    /\ body \in {"none", "open", "closed"}
    /\ sc.left \in 0..MaxLines
    /\ reader \in [done: BOOLEAN, closed: BOOLEAN, closing: BOOLEAN, sawEnd: BOOLEAN,
                   input: 0..MaxTokens, output: 0..MaxTokens]
    /\ result \in Classes \cup {"none", "ok", "eof", "truncated"}
    /\ got \in Seq([id: 1..MaxEvents, tokens: 0..(2 * MaxTokens)])
    /\ fault \in {"none", "caller", "gateway", "upstream"}

Marker(w) == CASE w = "openai" -> "done" [] w = "anthropic" -> "stop" [] w = "gemini" -> "final"

\* types.go, ErrStreamTruncated: Recv says io.EOF only after the upstream sent, whole, the
\* event by which its provider says that the answer is finished.
EofMeansWhole ==
    result = "eof" => \E i \in 1..Len(up.sent) : up.sent[i].type = Marker(wire)

\* The tokens of the last of the first n events that is of a type and has some.
Latest(sent, type, n) ==
    LET at == {i \in 1..n : sent[i].type = type /\ sent[i].tokens > 0}
    IN  IF at = {} THEN 0 ELSE sent[CHOOSE i \in at : \A j \in at : j <= i].tokens

\* What event i, once sent whole, should have been passed on as.
Report(w, sent, i) ==
    LET input == Latest(sent, "start", i) output == Latest(sent, "delta", i)
    IN  IF w # "anthropic" THEN sent[i].tokens
        ELSE IF sent[i].type = "delta" /\ input > 0 /\ output > 0 THEN input + output ELSE 0

Shown(w, e) ==
    e.type \in {"chunk", "final", "start", "text", "delta"} \/ (e.type = "bad" /\ w = "openai")

\* Recv: the caller has received each event that was sent whole and carries
\* something, once, in order, with the upstream's running totals, and nothing of
\* an event that was not sent whole.
RelayedInOrder ==
    /\ \A i \in 1..Len(got) :
          /\ got[i].id \in 1..Len(up.sent) /\ Shown(wire, up.sent[got[i].id])
          /\ got[i].tokens = Report(wire, up.sent, got[i].id)
    /\ \A i, j \in 1..Len(got) : i < j => got[i].id < got[j].id
    /\ \A k \in 1..Len(up.sent) : Shown(wire, up.sent[k]) => \E i \in 1..Len(got) : got[i].id = k

\* router/policy.go: the classes that trip the provider's breaker.
countsAgainstHealth(class) ==
    class \in Classes \ {"invalid_request", "canceled", "model_not_found"}

\* transportClass, recvError: a class that counts against the provider's health is
\* given only when the upstream could not be reached, failed or answered with an
\* error, when the gateway could not build its own request, or when the context's
\* deadline passed; never because the caller closed the stream or cancelled.  A
\* cancellation is reported only of a cancelled context, and a timeout only where
\* its deadline passed or the upstream could not be reached in time.
BlameIsEarned ==
    /\ countsAgainstHealth(result) =>
          fault \in {"upstream", "gateway"} \/ (result = "timeout" /\ ctx = "expired")
    /\ result = "canceled" => ctx = "canceled"
    /\ result = "timeout" => ctx = "expired" \/ fault = "upstream"

\* Every variable keeps its type, and StreamReader: once a call has ended, by whichever
\* way, its body is closed or being closed, so the connection is released.
BodyReleased ==
    /\ TypeOK
    /\ result # "none" => body # "open" \/ reader.closing

\* Close: a Recv that is blocked on a silent upstream returns once the stream is
\* closed or its context ends.
RecvReturns ==
    (pc = "reading" /\ (reader.closed \/ ctx # "live")) ~> pc # "reading"
=============================================================================
