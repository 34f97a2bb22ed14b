--------------------------- MODULE IngressProofs ---------------------------
(***************************************************************************)
(* The relay of a stream, for answers of any length, any number of         *)
(* handlers, any ceiling of the recorder and every order in which the      *)
(* select of the handler, the pump, the timers and the client may act.     *)
(*                                                                         *)
(* The invariant follows every frame from the upstream through the pump's  *)
(* hands and the handler's to the client and the recorder, and the last    *)
(* usage report along the same way, so that the end of the answer finds    *)
(* all of it delivered, recorded and billed.                               *)
(***************************************************************************)
EXTENDS Ingress, SequenceTheorems, TLAPS

USE IngressAssumption

-----------------------------------------------------------------------------
(* The invariant *)

\* The types of a handler's locals, of its pump and of its upstream.
Request ==
    [pc: {"ended", "lookup", "admission", "calling", "opening", "relaying", "writing",
          "storing", "settling", "answering"},
     key: Keys, stream: BOOLEAN, ctx: {"live", "gone", "timeout", "closed"},
     reservation: {"none", "open", "settled", "released"}, bill: 0..MaxUsage,
     chunk: Chunk \cup {Nothing}, usage: 0..MaxUsage, completed: BOOLEAN,
     recorded: UNION {[1..n -> 1..MaxFrames] : n \in 0..MaxRecorded},
     dropped: BOOLEAN, got: Seq(1..MaxFrames), body: BOOLEAN,
     terminal: {"none", "done", "truncated", "error", "body"}]
Pump == [at: {"gone", "receiving", "offering"}, held: recvResult]
Upstream == [produced: 0..MaxFrames, usage: 0..MaxUsage, finished: BOOLEAN]

\* Nothing has been asked of the upstream yet.
Untouched(q, p, u) ==
    /\ q.got = <<>> /\ q.recorded = <<>> /\ ~q.dropped /\ q.usage = 0
    /\ ~q.completed /\ q.terminal = "none"
    /\ p.at = "gone" /\ u = Unasked

\* A frame is in the pump's hands, or in the handler's.
Offered(p)    == p.at = "offering" /\ p.held.kind = "chunk"
InPump(p)     == Offered(p) /\ p.held.frame # 0
InHand(q)     == q.pc = "writing" /\ q.chunk.frame # 0
Taken(p, u)   == IF InPump(p) THEN u.produced - 1 ELSE u.produced
Written(q, p, u) == IF InHand(q) THEN Taken(p, u) - 1 ELSE Taken(p, u)

\* A stream whose pump still runs: what was produced and not written is on its
\* way, in order, and the last report is the handler's or on its way too.
InOrder(q, p, u) ==
    /\ u.finished <=> (p.at = "offering" /\ p.held.kind = "eof")
    /\ InPump(p) => p.held.frame = u.produced
    /\ InHand(q) => q.chunk.frame = Taken(p, u)
    /\ q.got = Frames(Written(q, p, u))
    /\ q.dropped \/ q.recorded = q.got
    /\ IF Offered(p) /\ p.held.usage # 0 THEN p.held.usage = u.usage ELSE q.usage = u.usage

\* A stream that is being relayed.  Once the pump has left, it can only be cut.
Relayed(q, p, u) ==
    /\ ~q.completed /\ q.terminal = "none"
    /\ q.pc = "writing" => q.chunk \in Chunk
    /\ p.at # "gone" => InOrder(q, p, u)

\* A stream that has come to its end and is stored and settled.
Closing(q, u) == q.completed => (q.dropped \/ q.recorded = q.got) /\ q.usage = u.usage

\* An answer that was said to be whole is whole, and its pump has left.
Whole(q, p, u) ==
    q.completed \/ q.terminal = "done" =>
        u.finished /\ q.got = Frames(u.produced) /\ p.at = "gone"

\* The claim of a request: not made yet, open, or closed.
Claim(q, u) ==
    /\ q.reservation \in {"none", "open"} => q.bill = 0
    /\ q.pc \in {"opening", "relaying", "writing", "settling"} => q.stream
    /\ q.pc \in {"lookup", "admission"} => q.reservation = "none"
    /\ q.pc \in {"calling", "opening", "relaying", "writing", "settling"} =>
          q.reservation \in {"none", "open"}
    /\ q.pc = "storing" => IF q.stream THEN q.reservation \in {"none", "open"}
                           ELSE q.reservation # "open" /\ ~q.completed
    /\ q.pc \in {"answering", "ended"} =>
          /\ q.reservation # "open"
          /\ q.completed /\ q.reservation # "none" => q.bill = u.usage

Coherent(q, p, u) ==
    /\ q.pc \in {"lookup", "admission", "calling", "opening"} => Untouched(q, p, u)
    /\ q.pc \in {"relaying", "writing"} => Relayed(q, p, u)
    /\ q.pc \in {"storing", "settling"} => Closing(q, u)
    /\ Whole(q, p, u)
    /\ Claim(q, u)

IngressInv ==
    /\ TypeOK
    /\ \A r \in Requests : Coherent(req[r], pump[r], up[r])
    /\ CachedIsWhole

-----------------------------------------------------------------------------
(* Frames and records *)

\* What the frames up to n are: a sequence of n, and one more frame extends it.
LEMMA FramesFacts ==
  ASSUME NEW n \in Nat
  PROVE  /\ Frames(n) \in Seq(Nat) /\ Len(Frames(n)) = n
         /\ Append(Frames(n), n + 1) = Frames(n + 1)
         /\ Frames(n) = <<>> <=> n = 0
<1>1. Frames(n) \in [1..n -> Nat] /\ Frames(n) \in Seq(Nat) /\ Len(Frames(n)) = n
  BY DEF Frames
<1>2. Append(Frames(n), n + 1) = Frames(n + 1)
  BY <1>1, AppendProperties DEF Frames
<1>3. Frames(n) = <<>> <=> n = 0
  BY <1>1, EmptySeq
<1> QED BY <1>1, <1>2, <1>3

\* What the recorder may hold.
Recordable == UNION {[1..n -> 1..MaxFrames] : n \in 0..MaxRecorded}

\* What a recording may be: a short sequence of frames, that a frame extends while it fits.
LEMMA RecordableFacts ==
  /\ <<>> \in Recordable
  /\ \A s \in Recordable : s \in Seq(1..MaxFrames) /\ Len(s) \in 0..MaxRecorded
  /\ \A s \in Recordable, f \in 1..MaxFrames :
        Len(s) + 1 <= MaxRecorded => Append(s, f) \in Recordable
<1>1. <<>> \in Recordable
  <2>1. <<>> \in [1..0 -> 1..MaxFrames]
    BY EmptySeq
  <2> QED BY <2>1 DEF Recordable
<1>2. ASSUME NEW s \in Recordable PROVE s \in Seq(1..MaxFrames) /\ Len(s) \in 0..MaxRecorded
                                        /\ s \in [1..Len(s) -> 1..MaxFrames]
  <2>1. PICK n \in 0..MaxRecorded : s \in [1..n -> 1..MaxFrames]
    BY DEF Recordable
  <2> QED BY <2>1
<1>3. ASSUME NEW s \in Recordable, NEW f \in 1..MaxFrames, Len(s) + 1 <= MaxRecorded
      PROVE  Append(s, f) \in Recordable
  <2>1. Append(s, f) \in [1..(Len(s) + 1) -> 1..MaxFrames] /\ Len(s) + 1 \in 0..MaxRecorded
    <3>1. s \in Seq(1..MaxFrames) /\ Len(s) \in Nat
      BY <1>2
    <3>2. Append(s, f) \in Seq(1..MaxFrames) /\ Len(Append(s, f)) = Len(s) + 1
      BY <3>1, AppendProperties
    <3>3. Append(s, f) \in [1..Len(Append(s, f)) -> 1..MaxFrames]
      BY <3>2, LenProperties, ElementOfSeq
    <3> QED BY <1>3, <3>1, <3>2, <3>3
  <2> QED BY <2>1 DEF Recordable
<1> QED BY <1>1, <1>2, <1>3

\* A handler that returns, and one whose context or control alone changes.
Ending(q) == [q EXCEPT !.pc = "ended", !.ctx = "closed", !.usage = 0, !.recorded = <<>>,
                       !.dropped = FALSE]

\* A handler that returns keeps its reservation, its bill and whether its stream completed.
LEMMA EndingType ==
  ASSUME NEW q \in Request
  PROVE  /\ Ending(q) \in Request
         /\ Ending(q).pc = "ended" /\ Ending(q).reservation = q.reservation
         /\ Ending(q).bill = q.bill /\ Ending(q).completed = q.completed
         /\ Ending(q).got = q.got /\ Ending(q).terminal = q.terminal
<1>1. 0 \in 0..MaxUsage
  OBVIOUS
<1> QED BY <1>1, RecordableFacts DEF Ending, Request, Recordable

\* A handler that has its answer and writes it.
Answering(q) == [q EXCEPT !.pc = "answering"]

\* A handler that writes its answer keeps all it holds.
LEMMA AnsweringType ==
  ASSUME NEW q \in Request
  PROVE  /\ Answering(q) \in Request
         /\ Answering(q).pc = "answering" /\ Answering(q).reservation = q.reservation
         /\ Answering(q).bill = q.bill /\ Answering(q).completed = q.completed
         /\ Answering(q).got = q.got /\ Answering(q).terminal = q.terminal
BY DEF Answering, Request

-----------------------------------------------------------------------------
(* Closing the books *)

\* settleOrAbort closes an open claim, once.
LEMMA ClosedClaim ==
  ASSUME NEW q \in Request, NEW usage \in 0..MaxUsage,
         q.reservation \in {"none", "open"}, q.bill = 0
  PROVE  /\ settleOrAbort(q, usage) \in Request
         /\ settleOrAbort(q, usage).reservation # "open"
         /\ settleOrAbort(q, usage).reservation # "none" => settleOrAbort(q, usage).bill = usage
         /\ settleOrAbort(q, usage).completed = q.completed
         /\ settleOrAbort(q, usage).got = q.got
         /\ settleOrAbort(q, usage).terminal = q.terminal
         /\ Settled(q, usage) \in Request
         /\ Settled(q, usage).reservation # "open"
         /\ Settled(q, usage).reservation = "none" => Settled(q, usage).bill = 0
         /\ Settled(q, usage).completed = q.completed
         /\ Settled(q, usage).got = q.got
         /\ Settled(q, usage).terminal = q.terminal
         /\ Settled(q, usage).stream = q.stream
<1>1. q.bill + usage = usage
  OBVIOUS
<1>2. CASE q.reservation = "none"
  BY <1>2 DEF settleOrAbort, Settled, Aborted
<1>3. CASE q.reservation = "open"
  <2>1. Aborted(q) = [q EXCEPT !.reservation = "released"]
        /\ Settled(q, usage) = [q EXCEPT !.reservation = "settled", !.bill = usage]
    BY <1>1, <1>3 DEF Settled, Aborted
  <2>2. settleOrAbort(q, usage) = IF usage = 0 THEN [q EXCEPT !.reservation = "released"]
                                  ELSE [q EXCEPT !.reservation = "settled", !.bill = usage]
    BY <2>1 DEF settleOrAbort
  <2> DEFINE Closed(n, res, b) ==
               /\ n \in Request /\ n.reservation = res /\ n.bill = b
               /\ n.completed = q.completed /\ n.got = q.got /\ n.terminal = q.terminal
               /\ n.stream = q.stream
  <2>3. ASSUME NEW res \in {"settled", "released"}, NEW b \in 0..MaxUsage
        PROVE  Closed([q EXCEPT !.reservation = res, !.bill = b], res, b)
    BY ZenonT(40) DEF Request
  <2>4. [q EXCEPT !.reservation = "released"] = [q EXCEPT !.reservation = "released", !.bill = 0]
        /\ 0 \in 0..MaxUsage
    BY DEF Request
  <2> HIDE DEF Closed
  <2>5. Closed(Settled(q, usage), "settled", usage)
    BY <2>1, <2>3
  <2>6. \/ Closed(settleOrAbort(q, usage), "settled", usage)
        \/ Closed(settleOrAbort(q, usage), "released", usage)
    BY <2>2, <2>3, <2>4
  <2> QED BY <2>5, <2>6 DEF Closed
<1> QED BY <1>2, <1>3
-----------------------------------------------------------------------------
(* The steps of one stream, on the handler's locals, its pump and its upstream *)

\* While the pump runs the answer is not over.
LEMMA Running ==
  ASSUME NEW q, NEW p, NEW u, Coherent(q, p, u), p.at # "gone"
  PROVE  /\ ~q.completed /\ q.terminal # "done"
         /\ q.pc \notin {"lookup", "admission", "calling", "opening"}
         /\ q.pc \in {"relaying", "writing"} => InOrder(q, p, u)
BY DEF Coherent, Untouched, Relayed, Whole

\* Whatever the pump and the upstream do, only the order of the frames is at stake.
LEMMA PumpStep ==
  ASSUME NEW q \in Request, NEW p, NEW u, Coherent(q, p, u), p.at # "gone",
         NEW p2, NEW u2,
         q.pc \in {"relaying", "writing"} /\ p2.at # "gone" => InOrder(q, p2, u2)
  PROVE  Coherent(q, p2, u2)
<1>1. ~q.completed /\ q.terminal # "done" /\ q.pc \notin {"lookup", "admission", "calling", "opening"}
  BY Running DEF Request
<1>2. q.pc \in {"relaying", "writing"} => Relayed(q, p2, u2)
  BY DEF Coherent, Relayed
<1>3. Closing(q, u2) /\ Whole(q, p2, u2)
  BY <1>1 DEF Closing, Whole
<1>4. Claim(q, u2)
  BY <1>1 DEF Coherent, Claim
<1> QED BY <1>1, <1>2, <1>3, <1>4 DEF Coherent

\* Recv returns the next frame, with or without a report.
LEMMA FrameReceived ==
  ASSUME NEW q \in Request, NEW p \in Pump, NEW u \in Upstream, Coherent(q, p, u),
         p.at = "receiving", u.produced + 1 <= MaxFrames, NEW v \in 0..MaxUsage
  PROVE  LET p2 == [at |-> "offering",
                    held |-> [kind |-> "chunk", frame |-> u.produced + 1, usage |-> v]]
             u2 == [u EXCEPT !.produced = u.produced + 1,
                             !.usage = IF v = 0 THEN u.usage ELSE v]
         IN  p2 \in Pump /\ u2 \in Upstream /\ Coherent(q, p2, u2)
<1> DEFINE p2 == [at |-> "offering",
                  held |-> [kind |-> "chunk", frame |-> u.produced + 1, usage |-> v]]
           u2 == [u EXCEPT !.produced = u.produced + 1,
                           !.usage = IF v = 0 THEN u.usage ELSE v]
<1>1. u.produced + 1 \in 1..MaxFrames /\ u.produced \in Nat
  BY DEF Upstream
<1>2. u2 \in Upstream /\ u2.produced = u.produced + 1 /\ u2.finished = u.finished
      /\ u2.usage = IF v = 0 THEN u.usage ELSE v
  <2>1. (IF v = 0 THEN u.usage ELSE v) \in 0..MaxUsage
    BY DEF Upstream
  <2>2. u.produced + 1 \in 0..MaxFrames
    BY <1>1
  <2> QED BY <2>1, <2>2 DEF Upstream
<1>3. p2 \in Pump
  BY <1>1 DEF Pump, recvResult, Chunk
<1>4. /\ Offered(p2) /\ InPump(p2) /\ ~Offered(p) /\ ~InPump(p)
      /\ p2.held.frame = u.produced + 1 /\ p2.held.usage = v /\ p2.held.kind = "chunk"
  BY <1>1 DEF Offered, InPump
<1> HIDE DEF p2, u2
<1>5. ASSUME q.pc \in {"relaying", "writing"} PROVE InOrder(q, p2, u2)
  <2>1. InOrder(q, p, u)
    BY <1>5, Running
  <2>2. Taken(p2, u2) = Taken(p, u)
    BY <1>1, <1>2, <1>4 DEF Taken
  <2>3. Written(q, p2, u2) = Written(q, p, u)
    BY <2>2 DEF Written
  <2> QED BY <1>2, <1>4, <2>1, <2>2, <2>3 DEF InOrder
<1>6. Coherent(q, p2, u2)
  BY <1>5, PumpStep
<1> QED BY <1>2, <1>3, <1>6 DEF p2, u2

\* Recv returns a keepalive, the end or an error, or the pump leaves.
LEMMA ControlReceived ==
  ASSUME NEW q \in Request, NEW p \in Pump, NEW u \in Upstream, Coherent(q, p, u)
  PROVE  /\ p.at = "receiving" =>
              LET p2 == [at |-> "offering", held |-> [kind |-> "chunk", frame |-> 0, usage |-> 0]]
              IN  p2 \in Pump /\ Coherent(q, p2, u)
         /\ p.at = "receiving" =>
              LET p2 == [at |-> "offering", held |-> [kind |-> "eof"]]
                  u2 == [u EXCEPT !.finished = TRUE]
              IN  p2 \in Pump /\ u2 \in Upstream /\ Coherent(q, p2, u2)
         /\ p.at = "receiving" =>
              LET p2 == [at |-> "offering", held |-> [kind |-> "error"]]
              IN  p2 \in Pump /\ Coherent(q, p2, u)
         /\ p.at = "offering" => Gone \in Pump /\ Coherent(q, Gone, u)
<1>1. ASSUME p.at = "receiving", NEW p2, NEW u2,
             p2.at = "offering", InPump(p2) = FALSE,
             Offered(p2) => p2.held.usage = 0,
             u2.produced = u.produced, u2.usage = u.usage,
             u2.finished <=> IF p2.held.kind = "eof" THEN TRUE ELSE u.finished
      PROVE  Coherent(q, p2, u2)
  <2>1. ASSUME q.pc \in {"relaying", "writing"} PROVE InOrder(q, p2, u2)
    <3>1. InOrder(q, p, u) /\ ~Offered(p) /\ ~InPump(p)
      BY <1>1, <2>1, Running DEF Offered, InPump
    <3>2. Taken(p2, u2) = Taken(p, u) /\ Written(q, p2, u2) = Written(q, p, u)
      BY <1>1, <3>1 DEF Taken, Written
    <3>3. ~u.finished
      BY <1>1, <3>1 DEF InOrder
    <3> QED BY <1>1, <3>1, <3>2, <3>3 DEF InOrder
  <2> QED BY <1>1, <2>1, PumpStep
<1>2. ASSUME p.at = "receiving"
      PROVE  LET p2 == [at |-> "offering", held |-> [kind |-> "chunk", frame |-> 0, usage |-> 0]]
             IN  p2 \in Pump /\ Coherent(q, p2, u)
  <2> DEFINE p2 == [at |-> "offering", held |-> [kind |-> "chunk", frame |-> 0, usage |-> 0]]
  <2>1. p2 \in Pump
    BY DEF Pump, recvResult, Chunk
  <2>2. /\ p2.at = "offering" /\ InPump(p2) = FALSE /\ p2.held.usage = 0
        /\ p2.held.kind = "chunk"
    BY DEF InPump
  <2> HIDE DEF p2
  <2>3. Coherent(q, p2, u)
    BY <1>1, <1>2, <2>2
  <2> QED BY <2>1, <2>3 DEF p2
<1>3. ASSUME p.at = "receiving", NEW kind \in Final, NEW u2, u2 \in Upstream,
             u2.produced = u.produced, u2.usage = u.usage,
             u2.finished <=> IF kind = "eof" THEN TRUE ELSE u.finished
      PROVE  LET p2 == [at |-> "offering", held |-> [kind |-> kind]]
             IN  p2 \in Pump /\ Coherent(q, p2, u2)
  <2> DEFINE p2 == [at |-> "offering", held |-> [kind |-> kind]]
  <2>1. p2 \in Pump
    BY DEF Pump, recvResult
  <2>2. p2.at = "offering" /\ InPump(p2) = FALSE /\ ~Offered(p2) /\ p2.held.kind = kind
    BY DEF InPump, Offered, Final
  <2> HIDE DEF p2
  <2>3. Coherent(q, p2, u2)
    BY <1>1, <1>3, <2>2
  <2> QED BY <2>1, <2>3 DEF p2
<1>4. ASSUME p.at = "receiving"
      PROVE  LET p2 == [at |-> "offering", held |-> [kind |-> "eof"]]
                 u2 == [u EXCEPT !.finished = TRUE]
             IN  p2 \in Pump /\ u2 \in Upstream /\ Coherent(q, p2, u2)
  <2> DEFINE u2 == [u EXCEPT !.finished = TRUE]
  <2>1. u2 \in Upstream /\ u2.produced = u.produced /\ u2.usage = u.usage /\ u2.finished
    BY DEF Upstream
  <2> HIDE DEF u2
  <2>2. [at |-> "offering", held |-> [kind |-> "eof"]] \in Pump
        /\ Coherent(q, [at |-> "offering", held |-> [kind |-> "eof"]], u2)
    BY <1>3, <1>4, <2>1 DEF Final
  <2> QED BY <2>1, <2>2 DEF u2
<1>5. ASSUME p.at = "receiving"
      PROVE  LET p2 == [at |-> "offering", held |-> [kind |-> "error"]]
             IN  p2 \in Pump /\ Coherent(q, p2, u)
  BY <1>3, <1>5 DEF Final
<1>6. ASSUME p.at = "offering" PROVE Gone \in Pump /\ Coherent(q, Gone, u)
  <2>1. Gone \in Pump /\ Gone.at = "gone"
    BY DEF Gone, Pump, recvResult, Nothing, Final
  <2> QED BY <1>6, <2>1, PumpStep
<1> QED BY <1>2, <1>4, <1>5, <1>6
\* The handler takes a chunk from the pump.
LEMMA ChunkTaken ==
  ASSUME NEW q \in Request, NEW p \in Pump, NEW u \in Upstream, Coherent(q, p, u),
         q.pc = "relaying", p.at = "offering", p.held.kind = "chunk",
         NEW q2, q2 = [q EXCEPT !.pc = "writing", !.chunk = p.held,
                                !.usage = Reported(q, p.held.usage)],
         NEW p2, p2 = [at |-> "receiving", held |-> Nothing]
  PROVE  q2 \in Request /\ p2 \in Pump /\ Coherent(q2, p2, u)
<1>1. p.held \in Chunk
  BY DEF Pump, recvResult, Final
<1>2. p.held.usage \in 0..MaxUsage /\ p.held.frame \in 0..MaxFrames
  BY <1>1 DEF Chunk
<1>3. Reported(q, p.held.usage) \in 0..MaxUsage
  BY <1>2 DEF Reported, Request
<1>4. /\ q2 \in Request /\ q2.pc = "writing" /\ q2.chunk = p.held /\ q2.stream = q.stream
      /\ q2.usage = Reported(q, p.held.usage) /\ q2.completed = q.completed
      /\ q2.got = q.got /\ q2.recorded = q.recorded /\ q2.dropped = q.dropped
      /\ q2.terminal = q.terminal /\ q2.reservation = q.reservation /\ q2.bill = q.bill
  BY <1>1, <1>3 DEF Request
<1>5. p2 \in Pump /\ p2.at = "receiving"
  BY DEF Pump, recvResult, Nothing, Final
<1>6. InOrder(q, p, u) /\ ~q.completed /\ q.terminal = "none" /\ Claim(q, u)
  BY DEF Coherent, Relayed
<1>7. InOrder(q2, p2, u)
  <2>1. ~InHand(q) /\ Offered(p) /\ ~Offered(p2) /\ ~InPump(p2) /\ (InHand(q2) <=> InPump(p))
    BY <1>4, <1>5 DEF InHand, InPump, Offered
  <2>2. Taken(p2, u) = u.produced /\ Written(q2, p2, u) = Written(q, p, u)
    BY <2>1 DEF Taken, Written
  <2>3. InHand(q2) => q2.chunk.frame = u.produced
    BY <1>4, <1>6, <2>1 DEF InOrder
  <2>4. ~u.finished
    BY <1>6 DEF InOrder
  <2>5. q2.usage = u.usage
    BY <1>4, <1>6, <2>1 DEF InOrder, Reported
  <2> QED BY <1>4, <1>5, <1>6, <2>1, <2>2, <2>3, <2>4, <2>5 DEF InOrder
<1>8. Claim(q2, u)
  BY <1>4, <1>6 DEF Claim
<1> QED BY <1>1, <1>4, <1>5, <1>6, <1>7, <1>8 DEF Coherent, Relayed, Whole

\* The recorder touches nothing but its own buffer.
LEMMA RecordedFacts ==
  ASSUME NEW m \in Request, NEW f \in 1..MaxFrames
  PROVE  /\ Recorded(m, f) \in Request
         /\ Recorded(m, f).pc = m.pc /\ Recorded(m, f).stream = m.stream
         /\ Recorded(m, f).usage = m.usage /\ Recorded(m, f).completed = m.completed
         /\ Recorded(m, f).terminal = m.terminal /\ Recorded(m, f).got = m.got
         /\ Recorded(m, f).reservation = m.reservation /\ Recorded(m, f).bill = m.bill
         /\ \/ Recorded(m, f).dropped
            \/ ~m.dropped /\ Recorded(m, f).recorded = Append(m.recorded, f)
<1> DEFINE n == Recorded(m, f)
<1>1. ASSUME NEW rec \in Recordable, NEW drop \in BOOLEAN,
             n = [m EXCEPT !.recorded = rec, !.dropped = drop]
      PROVE  /\ n \in Request /\ n.pc = m.pc /\ n.stream = m.stream /\ n.usage = m.usage
             /\ n.completed = m.completed /\ n.terminal = m.terminal /\ n.got = m.got
             /\ n.reservation = m.reservation /\ n.bill = m.bill
             /\ n.dropped = drop /\ n.recorded = rec
  BY <1>1 DEF Request, Recordable
<1>2. m.recorded \in Recordable /\ m.dropped \in BOOLEAN
  BY DEF Request, Recordable
<1>3. m = [m EXCEPT !.recorded = m.recorded, !.dropped = m.dropped]
      /\ [m EXCEPT !.dropped = TRUE, !.recorded = <<>>]
            = [m EXCEPT !.recorded = <<>>, !.dropped = TRUE]
      /\ [m EXCEPT !.recorded = Append(m.recorded, f)]
            = [m EXCEPT !.recorded = Append(m.recorded, f), !.dropped = m.dropped]
  BY DEF Request
<1>4. CASE m.dropped
  <2>1. n = [m EXCEPT !.recorded = m.recorded, !.dropped = m.dropped]
    BY <1>3, <1>4 DEF Recorded
  <2> HIDE DEF n
  <2>2. n \in Request /\ n.dropped
    BY <1>1, <1>2, <1>4, <2>1
  <2> QED BY <1>1, <1>2, <2>1, <2>2 DEF n
<1>5. CASE ~m.dropped /\ Len(m.recorded) + 1 > MaxRecorded
  <2>1. n = [m EXCEPT !.recorded = <<>>, !.dropped = TRUE]
    BY <1>3, <1>5 DEF Recorded
  <2> HIDE DEF n
  <2> QED BY <1>1, <2>1, RecordableFacts DEF n
<1>6. CASE ~m.dropped /\ ~(Len(m.recorded) + 1 > MaxRecorded)
  <2>1. n = [m EXCEPT !.recorded = Append(m.recorded, f), !.dropped = m.dropped]
    BY <1>3, <1>6 DEF Recorded
  <2>2. Len(m.recorded) \in 0..MaxRecorded
    BY <1>2, RecordableFacts
  <2>3. Append(m.recorded, f) \in Recordable
    BY <1>2, <1>6, <2>2, RecordableFacts
  <2> HIDE DEF n
  <2> QED BY <1>1, <1>2, <1>6, <2>1, <2>3 DEF n
<1> QED BY <1>4, <1>5, <1>6

\* The chunk is written to the client and recorded, or, a keepalive, only written.
LEMMA ChunkWritten ==
  ASSUME NEW q \in Request, NEW p \in Pump, NEW u \in Upstream, Coherent(q, p, u),
         q.pc = "writing"
  PROVE  LET n  == [q EXCEPT !.pc = "relaying", !.chunk = Nothing]
             q2 == IF q.chunk.frame = 0 THEN n
                   ELSE Recorded([n EXCEPT !.got = Append(n.got, q.chunk.frame)], q.chunk.frame)
         IN  q2 \in Request /\ Coherent(q2, p, u)
<1> DEFINE n  == [q EXCEPT !.pc = "relaying", !.chunk = Nothing]
           q2 == IF q.chunk.frame = 0 THEN n
                 ELSE Recorded([n EXCEPT !.got = Append(n.got, q.chunk.frame)], q.chunk.frame)
<1>1. q.chunk \in Chunk /\ ~q.completed /\ q.terminal = "none" /\ Claim(q, u)
      /\ (p.at # "gone" => InOrder(q, p, u))
  BY DEF Coherent, Relayed
<1>2. q.chunk.frame \in 0..MaxFrames /\ u.produced \in 0..MaxFrames
  BY <1>1 DEF Chunk, Upstream
<1> DEFINE Same(m) ==
      /\ m \in Request /\ m.pc = "relaying" /\ m.stream = q.stream /\ m.usage = q.usage
      /\ m.completed = q.completed /\ m.terminal = q.terminal
      /\ m.reservation = q.reservation /\ m.bill = q.bill
<1>3. Same(n) /\ n.got = q.got /\ n.recorded = q.recorded /\ n.dropped = q.dropped
  BY DEF Request
<1> HIDE DEF n
<1>4. ASSUME NEW m, Same(m), p.at # "gone" => InOrder(m, p, u) PROVE Coherent(m, p, u)
  BY <1>1, <1>4 DEF Coherent, Relayed, Whole, Claim
<1>5. ASSUME p.at # "gone" PROVE Taken(p, u) \in Nat
  BY <1>1, <1>2, <1>5 DEF InOrder, InPump, Offered, Taken, Pump, recvResult, Chunk, Final
<1>6. CASE q.chunk.frame = 0
  <2>1. q2 = n
    BY <1>6
  <2>2. ASSUME p.at # "gone" PROVE InOrder(n, p, u)
    <3>1. ~InHand(q) /\ ~InHand(n)
      BY <1>3, <1>6 DEF InHand
    <3>2. Written(n, p, u) = Written(q, p, u)
      BY <3>1 DEF Written
    <3> QED BY <1>1, <1>3, <2>2, <3>1, <3>2 DEF InOrder
  <2>3. n \in Request /\ Coherent(n, p, u)
    BY <1>3, <1>4, <2>2
  <2> QED BY <1>6, <2>3 DEF n
<1>7. CASE q.chunk.frame # 0
  <2> DEFINE f == q.chunk.frame
             m == [n EXCEPT !.got = Append(n.got, f)]
  <2>1. f \in 1..MaxFrames /\ n.got \in Seq(1..MaxFrames) /\ n.recorded \in Recordable
    <3>1. f \in 1..MaxFrames
      BY <1>2, <1>7
    <3> QED BY <1>3, <3>1 DEF Request, Recordable
  <2>2. Append(n.got, f) \in Seq(1..MaxFrames)
    BY <2>1, AppendProperties
  <2>3. Same(m) /\ m.got = Append(q.got, f) /\ m.recorded = q.recorded /\ m.dropped = q.dropped
    BY <1>3, <2>2 DEF Request
  <2>4. q2 = Recorded(m, f)
    BY <1>7
  <2> HIDE DEF m, f, q2
  <2>5. /\ Same(q2) /\ q2.got = m.got
        /\ q2.dropped \/ (~m.dropped /\ q2.recorded = Append(m.recorded, f))
    <3>1. m \in Request /\ f \in 1..MaxFrames
      BY <2>1, <2>3
    <3> DEFINE k == Recorded(m, f)
    <3>2. /\ k \in Request /\ k.pc = m.pc /\ k.stream = m.stream /\ k.usage = m.usage
          /\ k.completed = m.completed /\ k.terminal = m.terminal /\ k.got = m.got
          /\ k.reservation = m.reservation /\ k.bill = m.bill
          /\ k.dropped \/ (~m.dropped /\ k.recorded = Append(m.recorded, f))
      BY <3>1, RecordedFacts
    <3>3. q2 = k
      BY <2>4
    <3> HIDE DEF k
    <3>4. Same(k)
      BY <2>3, <3>2
    <3> QED BY <3>2, <3>3, <3>4
  <2>6. ASSUME p.at # "gone" PROVE InOrder(q2, p, u)
    <3>1. InHand(q) /\ ~InHand(q2) /\ InOrder(q, p, u)
      BY <1>1, <1>7, <2>5, <2>6 DEF InHand
    <3>2. f = Taken(p, u) /\ q.got = Frames(f - 1) /\ Written(q2, p, u) = f
      BY <3>1 DEF InOrder, Written, f
    <3>3. q2.got = Frames(f)
      <4>1. f - 1 \in Nat /\ (f - 1) + 1 = f
        BY <2>1
      <4> QED BY <2>3, <2>5, <3>2, <4>1, FramesFacts
    <3>4. q2.dropped \/ q2.recorded = q2.got
      <4>1. m.dropped \/ Append(m.recorded, f) = m.got
        BY <1>3, <2>3, <3>1 DEF InOrder
      <4> QED BY <2>5, <4>1
    <3> QED BY <2>5, <3>1, <3>2, <3>3, <3>4 DEF InOrder
  <2>7. q2 \in Request /\ Coherent(q2, p, u)
    BY <1>4, <2>5, <2>6
  <2> QED BY <2>7 DEF n, q2
<1> QED BY <1>6, <1>7
\* A relay that ends before the upstream did: a failed write, a cancelled context,
\* an idle upstream or an error of it.
LEMMA CutShort ==
  ASSUME NEW q \in Request, NEW p, NEW u, Coherent(q, p, u),
         q.pc \in {"relaying", "writing"}, NEW q2, NEW p2,
         q2.pc = "storing", q2.completed = FALSE, q2.terminal # "done",
         q2.stream = q.stream, q2.reservation = q.reservation, q2.bill = q.bill
  PROVE  Coherent(q2, p2, u)
<1>1. Claim(q, u)
  BY DEF Coherent
<1>2. Claim(q2, u)
  BY <1>1 DEF Claim
<1> QED BY <1>2 DEF Coherent, Closing, Whole

\* The upstream's own end: everything it produced has been written.
LEMMA EndTaken ==
  ASSUME NEW q \in Request, NEW p, NEW u, Coherent(q, p, u),
         q.pc = "relaying", p.at = "offering", p.held.kind = "eof", NEW q2, NEW p2,
         q2.pc = "storing", q2.usage = q.usage,
         q2.got = q.got, q2.recorded = q.recorded, q2.dropped = q.dropped,
         q2.stream = q.stream, q2.reservation = q.reservation, q2.bill = q.bill,
         p2.at = "gone"
  PROVE  Coherent(q2, p2, u)
<1>1. InOrder(q, p, u) /\ Claim(q, u)
  BY DEF Coherent, Relayed
<1>2. ~Offered(p) /\ ~InPump(p) /\ ~InHand(q)
  BY DEF Offered, InPump, InHand
<1>3. Written(q, p, u) = u.produced
  BY <1>2 DEF Written, Taken
<1>4. u.finished /\ q.got = Frames(u.produced) /\ q.usage = u.usage
      /\ (q.dropped \/ q.recorded = q.got)
  BY <1>1, <1>2, <1>3 DEF InOrder
<1>5. Claim(q2, u)
  BY <1>1 DEF Claim
<1> QED BY <1>4, <1>5 DEF Coherent, Closing, Whole

\* A stream's claim is settled at what the upstream reported last, or goes back.
LEMMA StreamClosed ==
  ASSUME NEW q \in Request, NEW p, NEW u, Coherent(q, p, u), q.pc = "settling"
  PROVE  /\ Ending(settleOrAbort(q, q.usage)) \in Request
         /\ Coherent(Ending(settleOrAbort(q, q.usage)), p, u)
<1> DEFINE n == settleOrAbort(q, q.usage)
<1>1. /\ q.reservation \in {"none", "open"} /\ q.bill = 0 /\ q.usage \in 0..MaxUsage
      /\ Closing(q, u) /\ Whole(q, p, u)
  BY DEF Coherent, Claim, Request
<1>2. /\ n \in Request /\ n.reservation # "open" /\ n.completed = q.completed
      /\ n.reservation # "none" => n.bill = q.usage
      /\ n.reservation = "none" => n.bill = 0
      /\ n.got = q.got /\ n.terminal = q.terminal
  <2>1. /\ n \in Request /\ n.reservation # "open" /\ n.completed = q.completed
        /\ n.reservation # "none" => n.bill = q.usage
        /\ n.got = q.got /\ n.terminal = q.terminal
    BY <1>1, ClosedClaim
  <2>2. n.reservation = "none" => n = q
    BY <1>1 DEF settleOrAbort, Settled, Aborted, Request
  <2> QED BY <1>1, <2>1, <2>2
<1> HIDE DEF n
<1>3. /\ Ending(n) \in Request /\ Ending(n).pc = "ended"
      /\ Ending(n).reservation = n.reservation
      /\ Ending(n).bill = n.bill /\ Ending(n).completed = n.completed
      /\ Ending(n).got = n.got /\ Ending(n).terminal = n.terminal
  BY <1>2, EndingType
<1>4. Claim(Ending(n), u)
  BY <1>1, <1>2, <1>3 DEF Claim, Closing
<1>5. Whole(Ending(n), p, u)
  BY <1>1, <1>2, <1>3 DEF Whole
<1>6. Coherent(Ending(n), p, u)
  BY <1>3, <1>4, <1>5 DEF Coherent
<1> QED BY <1>3, <1>6 DEF n

\* A handler has its answer whose claim was never made, or was closed before, with an
\* answer that was not streamed.
LEMMA AnswersEarly ==
  ASSUME NEW q \in Request, NEW p, NEW u, q.reservation # "open",
         q.reservation = "none" => q.bill = 0, q.completed = FALSE, q.terminal # "done"
  PROVE  Answering(q) \in Request /\ Coherent(Answering(q), p, u)
<1>1. /\ Answering(q) \in Request
      /\ Answering(q).pc = "answering" /\ Answering(q).reservation = q.reservation
      /\ Answering(q).bill = q.bill /\ Answering(q).completed = q.completed
      /\ Answering(q).terminal = q.terminal
  BY AnsweringType
<1> HIDE DEF Answering
<1> QED BY <1>1 DEF Coherent, Whole, Claim

\* The last write returns, and the handler with it.
LEMMA AnswerWritten ==
  ASSUME NEW q \in Request, NEW p, NEW u, Coherent(q, p, u), q.pc = "answering"
  PROVE  Ending(q) \in Request /\ Coherent(Ending(q), p, u)
<1>1. /\ Ending(q) \in Request
      /\ Ending(q).pc = "ended" /\ Ending(q).reservation = q.reservation
      /\ Ending(q).bill = q.bill /\ Ending(q).completed = q.completed
      /\ Ending(q).got = q.got /\ Ending(q).terminal = q.terminal
  BY EndingType
<1>2. Whole(q, p, u) /\ Claim(q, u)
  BY DEF Coherent
<1>3. Whole(Ending(q), p, u) /\ Claim(Ending(q), u)
  BY <1>1, <1>2 DEF Whole, Claim
<1> QED BY <1>1, <1>3 DEF Coherent

\* The caller hangs up or a timer fires: only the context changes.
LEMMA ContextEnds ==
  ASSUME NEW q \in Request, NEW p, NEW u, Coherent(q, p, u),
         NEW c \in {"live", "gone", "timeout", "closed"}, NEW q2, q2 = [q EXCEPT !.ctx = c]
  PROVE  q2 \in Request /\ Coherent(q2, p, u)
<1>1. /\ q2 \in Request /\ q2.pc = q.pc /\ q2.stream = q.stream /\ q2.reservation = q.reservation
      /\ q2.bill = q.bill /\ q2.chunk = q.chunk /\ q2.usage = q.usage
      /\ q2.completed = q.completed /\ q2.recorded = q.recorded /\ q2.dropped = q.dropped
      /\ q2.got = q.got /\ q2.terminal = q.terminal
  BY DEF Request
<1>2. q.pc \in {"lookup", "admission", "calling", "opening"} => Untouched(q2, p, u)
  BY <1>1 DEF Coherent, Untouched
<1>3. InHand(q2) = InHand(q) /\ Written(q2, p, u) = Written(q, p, u)
  BY <1>1 DEF InHand, Written
<1>4. q.pc \in {"relaying", "writing"} => Relayed(q2, p, u)
  BY <1>1, <1>3 DEF Coherent, Relayed, InOrder
<1>5. q.pc \in {"storing", "settling"} => Closing(q2, u)
  BY <1>1 DEF Coherent, Closing
<1>6. Whole(q2, p, u) /\ Claim(q2, u)
  BY <1>1 DEF Coherent, Whole, Claim
<1> QED BY <1>1, <1>2, <1>4, <1>5, <1>6 DEF Coherent
-----------------------------------------------------------------------------
(* The specification *)

\* What the invariant says of one request.
LEMMA HandlerState ==
  ASSUME IngressInv, NEW r \in Requests
  PROVE  /\ req[r] \in Request /\ pump[r] \in Pump /\ up[r] \in Upstream
         /\ Coherent(req[r], pump[r], up[r])
BY DEF IngressInv, TypeOK, Request, Pump, Upstream

\* A step of one handler, its pump or its upstream; what it stores is whole.
LEMMA HandlerStep ==
  ASSUME IngressInv, NEW r \in Requests,
         NEW q \in Request, req' = [req EXCEPT ![r] = q],
         NEW p \in Pump, pump' = [pump EXCEPT ![r] = p],
         NEW u \in Upstream, up' = [up EXCEPT ![r] = u],
         Coherent(q, p, u),
         cache' \in [Keys -> Entry \cup {Absent}], CachedIsWhole'
  PROVE  IngressInv'
<1>1. req \in [Requests -> Request] /\ pump \in [Requests -> Pump]
      /\ up \in [Requests -> Upstream]
  BY DEF IngressInv, TypeOK, Request, Pump, Upstream
<1>2. req' \in [Requests -> Request] /\ pump' \in [Requests -> Pump]
      /\ up' \in [Requests -> Upstream]
  BY <1>1
<1>3. TypeOK'
  BY <1>2 DEF TypeOK, Request, Pump, Upstream
<1>4. ASSUME NEW s \in Requests PROVE Coherent(req[s], pump[s], up[s])'
  <2>1. CASE s = r
    BY <1>1, <2>1
  <2>2. CASE s # r
    <3>1. req'[s] = req[s] /\ pump'[s] = pump[s] /\ up'[s] = up[s]
      BY <1>1, <2>2
    <3>2. Coherent(req[s], pump[s], up[s])
      BY DEF IngressInv
    <3> QED BY <3>1, <3>2
  <2> QED BY <2>1, <2>2
<1> QED BY <1>3, <1>4 DEF IngressInv

\* The answer that is stored replaces what was stored under its key.
LEMMA StoredWhole ==
  ASSUME IngressInv, NEW r \in Requests, NEW e \in Entry, Put(r, e),
         IF e.body THEN e.frames = <<>> ELSE e.frames = Frames(e.total) /\ e.total > 0
  PROVE  cache' \in [Keys -> Entry \cup {Absent}] /\ CachedIsWhole'
<1>1. cache \in [Keys -> Entry \cup {Absent}] /\ CachedIsWhole /\ req[r].key \in Keys
  BY HandlerState DEF IngressInv, TypeOK, Request
<1>2. cache' = cache \/ cache' = [cache EXCEPT ![req[r].key] = e]
  BY DEF Put
<1>3. cache' \in [Keys -> Entry \cup {Absent}]
  BY <1>1, <1>2
<1>4. ASSUME NEW k \in Keys, cache'[k] # Absent
      PROVE  IF cache'[k].body THEN cache'[k].frames = <<>>
             ELSE cache'[k].frames = Frames(cache'[k].total) /\ cache'[k].total > 0
  <2>1. cache'[k] = cache[k] \/ cache'[k] = e
    BY <1>1, <1>2
  <2> QED BY <1>1, <1>4, <2>1 DEF CachedIsWhole
<1> QED BY <1>3, <1>4 DEF CachedIsWhole

\* The invariant is kept by a step that serves one handler and leaves the cache.
LEMMA QuietStep ==
  ASSUME IngressInv, NEW r \in Requests,
         NEW q \in Request, req' = [req EXCEPT ![r] = q],
         NEW p \in Pump, pump' = [pump EXCEPT ![r] = p],
         NEW u \in Upstream, up' = [up EXCEPT ![r] = u],
         Coherent(q, p, u), cache' = cache
  PROVE  IngressInv'
<1>1. cache' \in [Keys -> Entry \cup {Absent}] /\ CachedIsWhole'
  BY DEF IngressInv, TypeOK, CachedIsWhole
<1> QED BY <1>1, HandlerStep

\* The same for a step of the handler alone, and of its pump and upstream alone.
LEMMA LocalStep ==
  ASSUME IngressInv, NEW r \in Requests,
         NEW q \in Request, req' = [req EXCEPT ![r] = q], UNCHANGED <<cache, pump, up>>,
         Coherent(q, pump[r], up[r])
  PROVE  IngressInv'
<1>1. pump' = [pump EXCEPT ![r] = pump[r]] /\ up' = [up EXCEPT ![r] = up[r]]
  BY DEF IngressInv, TypeOK
<1> QED BY <1>1, QuietStep, HandlerState

\* A step of a request's pump and upstream alone preserves the invariant.
LEMMA RemoteStep ==
  ASSUME IngressInv, NEW r \in Requests,
         NEW p \in Pump, pump' = [pump EXCEPT ![r] = p],
         NEW u \in Upstream, up' = [up EXCEPT ![r] = u], UNCHANGED <<cache, req>>,
         Coherent(req[r], p, u)
  PROVE  IngressInv'
<1>1. req' = [req EXCEPT ![r] = req[r]]
  BY DEF IngressInv, TypeOK
<1> QED BY <1>1, QuietStep, HandlerState
\* A request before its upstream is called has nothing to show for itself yet.
LEMMA BeforeTheCall ==
  ASSUME IngressInv, NEW r \in Requests, req[r].pc \in {"lookup", "admission", "calling", "opening"}
  PROVE  /\ req[r] \in Request /\ Untouched(req[r], pump[r], up[r]) /\ req[r].bill = 0
         /\ req[r].reservation \in {"none", "open"}
         /\ req[r].pc \in {"lookup", "admission"} => req[r].reservation = "none"
<1>1. req[r] \in Request /\ Coherent(req[r], pump[r], up[r])
  BY HandlerState
<1> QED BY <1>1 DEF Coherent, Claim

\* It is answered, refused or given up without a stream.
LEMMA AnsweredAtOnce ==
  ASSUME IngressInv, NEW r \in Requests,
         req[r].pc \in {"lookup", "admission"}, NEW b \in BOOLEAN,
         NEW t \in {"error", "body"},
         req' = [req EXCEPT ![r] = Answering([req[r] EXCEPT !.body = b, !.terminal = t])],
         UNCHANGED <<cache, pump, up>>
  PROVE  IngressInv'
<1> DEFINE q == req[r]
           n == [q EXCEPT !.body = b, !.terminal = t]
<1>1. q \in Request /\ q.reservation = "none" /\ q.bill = 0 /\ ~q.completed
      /\ q.completed \in BOOLEAN
  BY BeforeTheCall DEF Untouched, Request
<1>2. n \in Request /\ n.reservation = "none" /\ n.bill = 0 /\ n.completed = FALSE /\ n.terminal = t
  BY <1>1, ZenonT(40) DEF Request
<1>3. req' = [req EXCEPT ![r] = Answering(n)]
  OBVIOUS
<1> HIDE DEF n, q
<1>4. Answering(n) \in Request /\ Coherent(Answering(n), pump[r], up[r])
  BY <1>2, AnswersEarly
<1> QED BY <1>3, <1>4, LocalStep

\* The steps up to the upstream call: arrival, refusal, a cached answer, a miss and the
\* admission; and the last write of an answer that is not streamed.
LEMMA AdmissionSteps ==
  ASSUME IngressInv, NEW r \in Requests,
         \/ \E k \in Keys, stream \in BOOLEAN : Arrive(r, k, stream)
         \/ Refuse(r) \/ serveCached(r) \/ replayStream(r) \/ Miss(r)
         \/ Denied(r) \/ Admitted(r) \/ Unanswered(r) \/ Responded(r)
  PROVE  IngressInv'
<1> DEFINE q == req[r]
<1>0. q \in Request /\ q.body \in BOOLEAN
  BY HandlerState DEF Request
<1>1. ASSUME NEW k \in Keys, NEW stream \in BOOLEAN, Arrive(r, k, stream) PROVE IngressInv'
  <2> DEFINE n == Arrived(k, stream)
  <2>1. n \in Request
    <3>1. <<>> \in Recordable /\ <<>> \in Seq(1..MaxFrames) /\ 0 \in 0..MaxUsage
      BY RecordableFacts, EmptySeq
    <3> QED BY <3>1 DEF Arrived, Request, Recordable
  <2>2. /\ n.pc = "lookup" /\ n.got = <<>> /\ n.recorded = <<>> /\ ~n.dropped /\ n.usage = 0
        /\ ~n.completed /\ n.terminal = "none" /\ n.bill = 0 /\ n.reservation = "none"
    BY DEF Arrived
  <2>3. Unasked \in Upstream
    BY DEF Unasked, Upstream
  <2>4. pump[r].at = "gone" /\ pump' = [pump EXCEPT ![r] = pump[r]] /\ cache' = cache
        /\ req' = [req EXCEPT ![r] = n] /\ up' = [up EXCEPT ![r] = Unasked] /\ pump[r] \in Pump
    BY <1>1, HandlerState DEF Arrive, IngressInv, TypeOK
  <2> HIDE DEF n
  <2>5. Coherent(n, pump[r], Unasked)
    BY <2>2, <2>4 DEF Coherent, Untouched, Whole, Claim
  <2> QED BY <2>1, <2>3, <2>4, <2>5, QuietStep
<1>2. ASSUME Refuse(r) \/ Denied(r) PROVE IngressInv'
  <2>1. [q EXCEPT !.terminal = "error"] = [q EXCEPT !.body = q.body, !.terminal = "error"]
    BY <1>0 DEF Request
  <2>2. req' = [req EXCEPT ![r] = Answering([q EXCEPT !.body = q.body, !.terminal = "error"])]
        /\ UNCHANGED <<cache, pump, up>> /\ q.pc \in {"lookup", "admission"}
    BY <1>2, <2>1 DEF Refuse, Denied, Respond, Answering
  <2> QED BY <1>0, <2>2, AnsweredAtOnce
<1>3. ASSUME serveCached(r) PROVE IngressInv'
  <2>1. cache[q.key].body \in BOOLEAN
    <3>1. q.key \in Keys /\ cache[q.key] # Absent
      BY <1>0, <1>3 DEF serveCached, Hit, Request
    <3>2. cache[q.key] \in Entry
      BY <3>1 DEF IngressInv, TypeOK
    <3> QED BY <3>2 DEF Entry
  <2>2. req' = [req EXCEPT ![r] = Answering([q EXCEPT !.body = cache[q.key].body, !.terminal = "body"])]
        /\ UNCHANGED <<cache, pump, up>> /\ q.pc \in {"lookup", "admission"}
    BY <1>3 DEF serveCached, Respond, Answering
  <2> QED BY <2>1, <2>2, AnsweredAtOnce
<1>4. ASSUME replayStream(r) PROVE IngressInv'
  <2> DEFINE e == cache[q.key]
  <2>1. e \in Entry /\ e.frames # <<>> /\ e.frames = Frames(e.total) /\ q.pc = "lookup"
    <3>1. q.key \in Keys /\ e # Absent /\ e.frames # <<>> /\ q.pc = "lookup"
      BY <1>0, <1>4 DEF replayStream, Hit, Streamed, Request
    <3>2. e \in Entry
      BY <3>1 DEF IngressInv, TypeOK
    <3> QED BY <3>1, <3>2 DEF IngressInv, CachedIsWhole
  <2>2. PICK m \in 0..Len(e.frames) :
           Respond(r, [q EXCEPT !.got = SubSeq(e.frames, 1, m),
                         !.terminal = IF m = Len(e.frames) THEN "done" ELSE "none"])
    BY <1>4 DEF replayStream
  <2> DEFINE t == IF m = Len(e.frames) THEN "done" ELSE "none"
             n == [q EXCEPT !.got = SubSeq(e.frames, 1, m), !.terminal = t]
             u == [Unasked EXCEPT !.produced = e.total, !.finished = TRUE]
  <2>3. e.frames \in Seq(1..MaxFrames) /\ e.total \in 0..MaxFrames
    BY <2>1 DEF Entry
  <2>4. SubSeq(e.frames, 1, m) \in Seq(1..MaxFrames)
        /\ (m = Len(e.frames) => SubSeq(e.frames, 1, m) = e.frames)
    <3>1. Len(e.frames) \in Nat /\ m \in Nat /\ m <= Len(e.frames)
      BY <2>3, LenProperties
    <3>2. SubSeq(e.frames, 1, m) \in Seq(1..MaxFrames)
      BY <2>3, <3>1, SubSeqProperties, SMTT(30)
    <3>3. SubSeq(e.frames, 1, Len(e.frames)) = e.frames
      BY <2>3, SubSeqFull
    <3> QED BY <3>2, <3>3
  <2>5. u \in Upstream /\ u.produced = e.total /\ u.finished
    <3> HIDE DEF e
    <3>1. Unasked \in Upstream
      BY DEF Unasked, Upstream
    <3> QED BY <2>3, <3>1 DEF Upstream
  <2>6. q.reservation = "none" /\ q.bill = 0 /\ ~q.completed /\ pump[r].at = "gone"
    BY <2>1, BeforeTheCall DEF Untouched
  <2>7. /\ n \in Request /\ n.got = SubSeq(e.frames, 1, m) /\ n.terminal = t
        /\ n.reservation = "none" /\ n.bill = 0 /\ n.completed = q.completed
    <3> DEFINE g == SubSeq(e.frames, 1, m)
    <3>1. t \in {"done", "none"} /\ g \in Seq(1..MaxFrames)
      BY <2>4
    <3>2. n = [q EXCEPT !.got = g, !.terminal = t]
      OBVIOUS
    <3> HIDE DEF t, g, n, e, q
    <3>3. /\ n \in Request /\ n.got = g /\ n.terminal = t
          /\ n.reservation = q.reservation /\ n.bill = q.bill /\ n.completed = q.completed
      BY <1>0, <3>1, <3>2 DEF Request
    <3> QED BY <2>6, <3>3 DEF g
  <2>8. /\ req' = [req EXCEPT ![r] = Answering(n)] /\ up' = [up EXCEPT ![r] = u] /\ cache' = cache
        /\ pump' = [pump EXCEPT ![r] = pump[r]] /\ pump[r] \in Pump
    BY <1>4, <2>2, HandlerState DEF replayStream, Respond, Answering, IngressInv, TypeOK
  <2>9. t = "done" => n.got = Frames(u.produced)
    BY <2>1, <2>4, <2>5, <2>7
  <2> HIDE DEF n, u, t
  <2>10. /\ Answering(n) \in Request
         /\ Answering(n).pc = "answering" /\ Answering(n).reservation = n.reservation
         /\ Answering(n).bill = n.bill /\ Answering(n).completed = n.completed
         /\ Answering(n).got = n.got /\ Answering(n).terminal = n.terminal
    BY <2>7, AnsweringType
  <2>11. Coherent(Answering(n), pump[r], u)
    BY <2>5, <2>6, <2>7, <2>9, <2>10 DEF Coherent, Whole, Claim
  <2> QED BY <2>5, <2>8, <2>10, <2>11, QuietStep
<1>5. ASSUME Miss(r) PROVE IngressInv'
  <2> DEFINE n == [q EXCEPT !.pc = "admission"]
  <2>1. req' = [req EXCEPT ![r] = n] /\ UNCHANGED <<cache, pump, up>> /\ q.pc = "lookup"
    BY <1>5 DEF Miss
  <2>2. Untouched(q, pump[r], up[r]) /\ q.bill = 0 /\ q.reservation = "none"
    BY <2>1, BeforeTheCall
  <2>3. /\ n \in Request /\ n.pc = "admission" /\ n.got = q.got /\ n.recorded = q.recorded
        /\ n.dropped = q.dropped /\ n.usage = q.usage /\ n.completed = q.completed
        /\ n.terminal = q.terminal /\ n.bill = q.bill /\ n.reservation = q.reservation
    BY <1>0 DEF Request
  <2> HIDE DEF n
  <2>4. Coherent(n, pump[r], up[r])
    BY <2>2, <2>3 DEF Coherent, Untouched, Whole, Claim
  <2> QED BY <2>1, <2>3, <2>4, LocalStep
<1>6. ASSUME Admitted(r) PROVE IngressInv'
  <2> DEFINE res == IF Metered THEN "open" ELSE "none"
             n == [q EXCEPT !.pc = "calling", !.reservation = res]
  <2>1. req' = [req EXCEPT ![r] = n] /\ UNCHANGED <<cache, pump, up>> /\ q.pc = "admission"
    BY <1>6 DEF Admitted
  <2>2. Untouched(q, pump[r], up[r]) /\ q.bill = 0
    BY <2>1, BeforeTheCall
  <2>3. /\ n \in Request /\ n.pc = "calling" /\ n.got = q.got /\ n.recorded = q.recorded
        /\ n.dropped = q.dropped /\ n.usage = q.usage /\ n.completed = q.completed
        /\ n.terminal = q.terminal /\ n.bill = q.bill /\ n.reservation \in {"none", "open"}
    BY <1>0 DEF Request
  <2> HIDE DEF n
  <2>4. Coherent(n, pump[r], up[r])
    BY <2>2, <2>3 DEF Coherent, Untouched, Whole, Claim
  <2> QED BY <2>1, <2>3, <2>4, LocalStep
<1>7. ASSUME Unanswered(r) PROVE IngressInv'
  <2> DEFINE n == [q EXCEPT !.terminal = "error"]
             m == settleOrAbort(n, 0)
  <2>1. req' = [req EXCEPT ![r] = Answering(m)] /\ UNCHANGED <<cache, pump, up>> /\ q.pc = "calling"
    BY <1>7 DEF Unanswered, Respond, Answering
  <2>2. Untouched(q, pump[r], up[r]) /\ q.bill = 0 /\ q.reservation \in {"none", "open"}
    BY <2>1, BeforeTheCall
  <2>3. /\ n \in Request /\ n.completed = q.completed /\ n.terminal = "error"
        /\ n.bill = 0 /\ n.reservation \in {"none", "open"} /\ q.completed = FALSE
    BY <1>0, <2>2 DEF Request, Untouched
  <2>4. 0 \in 0..MaxUsage
    OBVIOUS
  <2>5. m.reservation = "none" => m = n
    BY <2>3 DEF settleOrAbort, Aborted, Request
  <2> HIDE DEF n
  <2>6. /\ m \in Request /\ m.reservation # "open" /\ m.completed = FALSE /\ m.terminal = "error"
    BY <2>3, <2>4, ClosedClaim
  <2> HIDE DEF m
  <2>7. Answering(m) \in Request /\ Coherent(Answering(m), pump[r], up[r])
    BY <2>3, <2>5, <2>6, AnswersEarly
  <2> QED BY <2>1, <2>7, LocalStep
<1>8. ASSUME Responded(r) PROVE IngressInv'
  <2>1. q.pc = "answering" /\ req' = [req EXCEPT ![r] = Ending(q)] /\ UNCHANGED <<cache, pump, up>>
    BY <1>8 DEF Responded, Return, Ending
  <2>2. Ending(q) \in Request /\ Coherent(Ending(q), pump[r], up[r])
    BY <1>0, <2>1, HandlerState, AnswerWritten
  <2> QED BY <2>1, <2>2, LocalStep
<1> QED BY <1>1, <1>2, <1>3, <1>4, <1>5, <1>6, <1>7, <1>8

\* The steps of an answer that is not streamed.
LEMMA ChatSteps ==
  ASSUME IngressInv, NEW r \in Requests,
         ChatStores(r) \/ \E usage \in 0..MaxUsage : ChatAnswers(r, usage)
  PROVE  IngressInv'
<1> DEFINE q == req[r]
<1>0. q \in Request /\ pump[r] \in Pump /\ up[r] \in Upstream /\ Coherent(q, pump[r], up[r])
  BY HandlerState
<1>1. ASSUME NEW usage \in 0..MaxUsage, ChatAnswers(r, usage) PROVE IngressInv'
  <2> DEFINE m == Settled(q, usage)
             n == [m EXCEPT !.pc = "storing"]
             u == [up[r] EXCEPT !.usage = usage, !.finished = TRUE]
  <2>1. /\ req' = [req EXCEPT ![r] = n] /\ up' = [up EXCEPT ![r] = u] /\ cache' = cache
        /\ pump' = [pump EXCEPT ![r] = pump[r]] /\ q.pc = "calling" /\ ~q.stream
    BY <1>1 DEF ChatAnswers, IngressInv, TypeOK
  <2>2. Untouched(q, pump[r], up[r]) /\ q.bill = 0 /\ q.reservation \in {"none", "open"}
    BY <2>1, BeforeTheCall
  <2>3. /\ m \in Request /\ m.reservation # "open" /\ (m.reservation = "none" => m.bill = 0)
        /\ m.completed = q.completed /\ m.terminal = q.terminal /\ m.stream = q.stream
    BY <1>0, <2>2, ClosedClaim
  <2> HIDE DEF m
  <2>4. /\ n \in Request /\ n.pc = "storing" /\ n.reservation = m.reservation
        /\ n.bill = m.bill /\ n.completed = m.completed /\ n.terminal = m.terminal
        /\ n.stream = m.stream
    BY <2>3 DEF Request
  <2>5. u \in Upstream
    BY <1>0 DEF Upstream
  <2>6. ~n.completed /\ n.terminal = "none" /\ ~n.stream
    BY <2>1, <2>2, <2>3, <2>4 DEF Untouched
  <2> HIDE DEF n, u
  <2>7. Coherent(n, pump[r], u)
    BY <2>3, <2>4, <2>6 DEF Coherent, Closing, Whole, Claim
  <2> QED BY <1>0, <2>1, <2>4, <2>5, <2>7, QuietStep
<1>2. ASSUME ChatStores(r) PROVE IngressInv'
  <2> DEFINE e == [frames |-> <<>>, body |-> TRUE, total |-> 0]
             n == [q EXCEPT !.body = TRUE, !.terminal = "body"]
  <2>1. /\ Put(r, e) /\ req' = [req EXCEPT ![r] = Answering(n)] /\ q.pc = "storing" /\ ~q.stream
        /\ pump' = [pump EXCEPT ![r] = pump[r]] /\ up' = [up EXCEPT ![r] = up[r]]
    BY <1>2 DEF ChatStores, Respond, Answering, IngressInv, TypeOK
  <2>2. e \in Entry /\ e.body /\ e.frames = <<>>
    BY EmptySeq DEF Entry
  <2>3. q.reservation # "open" /\ ~q.completed /\ q.completed \in BOOLEAN
        /\ (q.reservation = "none" => q.bill = 0)
    BY <1>0, <2>1 DEF Coherent, Claim, Request
  <2>4. /\ n \in Request /\ n.reservation = q.reservation /\ n.bill = q.bill
        /\ n.completed = q.completed /\ n.terminal = "body"
    BY <1>0 DEF Request
  <2> HIDE DEF e, n
  <2>5. Answering(n) \in Request /\ Coherent(Answering(n), pump[r], up[r])
    BY <2>3, <2>4, AnswersEarly
  <2>6. cache' \in [Keys -> Entry \cup {Absent}] /\ CachedIsWhole'
    BY <2>1, <2>2, StoredWhole
  <2> QED BY <1>0, <2>1, <2>5, <2>6, HandlerStep
<1> QED BY <1>1, <1>2

\* The steps of the goroutine that receives from the upstream.
LEMMA PumpSteps ==
  ASSUME IngressInv, NEW r \in Requests,
         StreamOpens(r) \/ writeSSEHeaders(r) \/ Receive(r) \/ PumpLeaves(r)
  PROVE  IngressInv'
<1> DEFINE q == req[r]
           p == pump[r]
           u == up[r]
<1>0. q \in Request /\ p \in Pump /\ u \in Upstream /\ Coherent(q, p, u)
  BY HandlerState
<1>5. ASSUME StreamOpens(r) PROVE IngressInv'
  <2> DEFINE n == [q EXCEPT !.pc = "opening"]
  <2>1. req' = [req EXCEPT ![r] = n] /\ UNCHANGED <<cache, pump, up>> /\ q.pc = "calling" /\ q.stream
    BY <1>5 DEF StreamOpens
  <2>2. Untouched(q, p, u) /\ Claim(q, u)
    BY <1>0, <2>1 DEF Coherent
  <2>3. /\ n \in Request /\ n.pc = "opening" /\ n.got = q.got /\ n.recorded = q.recorded
        /\ n.dropped = q.dropped /\ n.usage = q.usage /\ n.completed = q.completed
        /\ n.terminal = q.terminal /\ n.bill = q.bill /\ n.reservation = q.reservation
        /\ n.stream = q.stream
    BY <1>0 DEF Request
  <2> HIDE DEF n
  <2>4. Coherent(n, p, u)
    BY <2>1, <2>2, <2>3 DEF Coherent, Untouched, Whole, Claim
  <2> QED BY <2>1, <2>3, <2>4, LocalStep
<1>1. ASSUME writeSSEHeaders(r) PROVE IngressInv'
  <2> DEFINE n == [q EXCEPT !.pc = "relaying"]
             p2 == [p EXCEPT !.at = "receiving"]
  <2>1. /\ req' = [req EXCEPT ![r] = n] /\ pump' = [pump EXCEPT ![r] = p2] /\ cache' = cache
        /\ up' = [up EXCEPT ![r] = up[r]] /\ q.pc = "opening"
    BY <1>1 DEF writeSSEHeaders, IngressInv, TypeOK
  <2>2. Untouched(q, p, u) /\ Claim(q, u)
    BY <1>0, <2>1 DEF Coherent
  <2>3. /\ n \in Request /\ n.pc = "relaying" /\ n.got = q.got /\ n.recorded = q.recorded
        /\ n.dropped = q.dropped /\ n.usage = q.usage /\ n.completed = q.completed
        /\ n.terminal = q.terminal /\ n.bill = q.bill /\ n.reservation = q.reservation
        /\ n.stream = q.stream
    BY <1>0 DEF Request
  <2>4. p2 \in Pump /\ p2.at = "receiving"
    BY <1>0 DEF Pump
  <2> HIDE DEF n, p2
  <2>5. u.produced = 0 /\ u.usage = 0 /\ ~u.finished
    BY <2>2 DEF Untouched, Unasked
  <2>6. ~InHand(n) /\ ~InPump(p2) /\ ~Offered(p2)
    BY <2>3, <2>4 DEF InHand, InPump, Offered
  <2>7. Written(n, p2, u) = 0 /\ Frames(0) = <<>>
    BY <2>5, <2>6, FramesFacts DEF Written, Taken
  <2>8. InOrder(n, p2, u)
    BY <2>2, <2>3, <2>4, <2>5, <2>6, <2>7 DEF InOrder, Untouched
  <2>9. Coherent(n, p2, u)
    BY <2>1, <2>2, <2>3, <2>8 DEF Coherent, Relayed, Whole, Claim, Untouched
  <2> QED BY <1>0, <2>1, <2>3, <2>4, <2>9, QuietStep
<1>2. ASSUME RecvFrame(r) PROVE IngressInv'
  <2>1. PICK v \in {0} \cup {w \in 1..MaxUsage : w >= u.usage} :
           /\ Offer(r, [kind |-> "chunk", frame |-> u.produced + 1, usage |-> v])
           /\ up' = [up EXCEPT ![r].produced = u.produced + 1,
                               ![r].usage = IF v = 0 THEN u.usage ELSE v]
    BY <1>2 DEF RecvFrame
  <2> DEFINE p2 == [at |-> "offering",
                    held |-> [kind |-> "chunk", frame |-> u.produced + 1, usage |-> v]]
             u2 == [u EXCEPT !.produced = u.produced + 1, !.usage = IF v = 0 THEN u.usage ELSE v]
  <2>2. /\ p.at = "receiving" /\ u.produced + 1 <= MaxFrames /\ v \in 0..MaxUsage
        /\ pump' = [pump EXCEPT ![r] = p2] /\ up' = [up EXCEPT ![r] = u2]
        /\ UNCHANGED <<cache, req>>
    <3>1. p.at = "receiving" /\ u.produced + 1 <= MaxFrames /\ UNCHANGED <<cache, req>>
      BY <1>2 DEF RecvFrame
    <3>2. pump' = [pump EXCEPT ![r] = p2]
      BY <2>1 DEF Offer
    <3>3. up' = [up EXCEPT ![r] = u2]
      BY <2>1
    <3>4. v \in 0..MaxUsage
      BY <2>1
    <3> QED BY <3>1, <3>2, <3>3, <3>4
  <2>3. p2 \in Pump /\ u2 \in Upstream /\ Coherent(q, p2, u2)
    BY <1>0, <2>2, FrameReceived
  <2> HIDE DEF p2, u2
  <2> QED BY <2>2, <2>3, RemoteStep
<1>3. ASSUME RecvKeepalive(r) \/ RecvError(r) \/ PumpLeaves(r) PROVE IngressInv'
  <2>1. up' = [up EXCEPT ![r] = u] /\ UNCHANGED <<cache, req>>
    BY <1>3 DEF RecvKeepalive, RecvError, PumpLeaves, IngressInv, TypeOK
  <2>2. \E p2 \in Pump : pump' = [pump EXCEPT ![r] = p2] /\ Coherent(q, p2, u)
    BY <1>0, <1>3, ControlReceived DEF RecvKeepalive, RecvError, PumpLeaves, Offer
  <2> QED BY <1>0, <2>1, <2>2, RemoteStep
<1>4. ASSUME RecvEnd(r) PROVE IngressInv'
  <2> DEFINE p2 == [at |-> "offering", held |-> [kind |-> "eof"]]
             u2 == [u EXCEPT !.finished = TRUE]
  <2>1. /\ p.at = "receiving" /\ pump' = [pump EXCEPT ![r] = p2] /\ up' = [up EXCEPT ![r] = u2]
        /\ UNCHANGED <<cache, req>>
    BY <1>4 DEF RecvEnd, Offer
  <2>2. p2 \in Pump /\ u2 \in Upstream /\ Coherent(q, p2, u2)
    BY <1>0, <2>1, ControlReceived
  <2> HIDE DEF p2, u2
  <2> QED BY <2>1, <2>2, RemoteStep
<1> QED BY <1>1, <1>2, <1>3, <1>4, <1>5 DEF Receive

\* The steps of the loop that relays frames to the client.
LEMMA RelaySteps ==
  ASSUME IngressInv, NEW r \in Requests,
         Take(r) \/ Write(r) \/ WriteFails(r) \/ TakeFinal(r) \/ IdleFires(r) \/ CtxDone(r)
  PROVE  IngressInv'
<1> DEFINE q == req[r]
           p == pump[r]
           u == up[r]
<1>0. q \in Request /\ p \in Pump /\ u \in Upstream /\ Coherent(q, p, u)
      /\ up = [up EXCEPT ![r] = u]
  BY HandlerState DEF IngressInv, TypeOK
<1>1. ASSUME Take(r) PROVE IngressInv'
  <2> DEFINE n == [q EXCEPT !.pc = "writing", !.chunk = p.held,
                            !.usage = Reported(q, p.held.usage)]
             p2 == [at |-> "receiving", held |-> Nothing]
  <2>1. /\ q.pc = "relaying" /\ p.at = "offering" /\ p.held.kind = "chunk"
        /\ req' = [req EXCEPT ![r] = n] /\ pump' = [pump EXCEPT ![r] = p2] /\ UNCHANGED <<cache, up>>
    BY <1>1 DEF Take
  <2>2. n \in Request /\ p2 \in Pump /\ Coherent(n, p2, u)
    BY <1>0, <2>1, ChunkTaken
  <2> HIDE DEF n, p2
  <2> QED BY <1>0, <2>1, <2>2, QuietStep
<1>2. ASSUME Write(r) PROVE IngressInv'
  <2> DEFINE m == [q EXCEPT !.pc = "relaying", !.chunk = Nothing]
             f == q.chunk.frame
             n == IF f = 0 THEN m ELSE Recorded([m EXCEPT !.got = Append(m.got, f)], f)
  <2>1. q.pc = "writing" /\ req' = [req EXCEPT ![r] = n] /\ UNCHANGED <<cache, pump, up>>
    BY <1>2 DEF Write
  <2>2. n \in Request /\ Coherent(n, p, u)
    BY <1>0, <2>1, ChunkWritten
  <2> HIDE DEF n
  <2> QED BY <2>1, <2>2, LocalStep
<1>3. ASSUME NEW n \in Request, NEW p2 \in Pump,
             req' = [req EXCEPT ![r] = n], pump' = [pump EXCEPT ![r] = p2], UNCHANGED <<cache, up>>,
             q.pc \in {"relaying", "writing"},
             n.pc = "storing", n.completed = FALSE, n.terminal # "done",
             n.stream = q.stream, n.reservation = q.reservation, n.bill = q.bill
      PROVE  IngressInv'
  <2>1. Coherent(n, p2, u)
    BY <1>0, <1>3, CutShort
  <2> QED BY <1>0, <1>3, <2>1, QuietStep
<1>4. q.pc \in {"relaying", "writing"} => q.completed = FALSE /\ q.terminal = "none"
  BY <1>0 DEF Coherent, Relayed, Request
<1>5. pump = [pump EXCEPT ![r] = p]
  BY DEF IngressInv, TypeOK
<1>6. ASSUME WriteFails(r) PROVE IngressInv'
  <2> DEFINE n == [q EXCEPT !.pc = "storing", !.chunk = Nothing]
  <2>1. q.pc = "writing" /\ req' = [req EXCEPT ![r] = n] /\ UNCHANGED <<cache, pump, up>>
    BY <1>6 DEF WriteFails
  <2>2. /\ n \in Request /\ n.pc = "storing" /\ n.completed = q.completed
        /\ n.terminal = q.terminal
        /\ n.stream = q.stream /\ n.reservation = q.reservation /\ n.bill = q.bill
    BY <1>0 DEF Request
  <2> HIDE DEF n
  <2> QED BY <1>0, <1>3, <1>4, <1>5, <2>1, <2>2
<1>7. ASSUME CtxDone(r) PROVE IngressInv'
  <2> DEFINE n == [q EXCEPT !.pc = "storing"]
  <2>1. q.pc = "relaying" /\ req' = [req EXCEPT ![r] = n] /\ UNCHANGED <<cache, pump, up>>
    BY <1>7 DEF CtxDone
  <2>2. /\ n \in Request /\ n.pc = "storing" /\ n.completed = q.completed
        /\ n.terminal = q.terminal
        /\ n.stream = q.stream /\ n.reservation = q.reservation /\ n.bill = q.bill
    BY <1>0 DEF Request
  <2> HIDE DEF n
  <2> QED BY <1>0, <1>3, <1>4, <1>5, <2>1, <2>2
<1>8. ASSUME IdleFires(r) PROVE IngressInv'
  <2>1. PICK t \in {"truncated", "none"} :
           req' = [req EXCEPT ![r] = [q EXCEPT !.pc = "storing", !.terminal = t,
                                               !.ctx = "closed"]]
    BY <1>8 DEF IdleFires, finishStream
  <2> DEFINE n == [q EXCEPT !.pc = "storing", !.terminal = t, !.ctx = "closed"]
  <2>2. q.pc = "relaying" /\ UNCHANGED <<cache, pump, up>>
    BY <1>8 DEF IdleFires
  <2>3. /\ n \in Request /\ n.pc = "storing" /\ n.completed = q.completed /\ n.terminal = t
        /\ n.stream = q.stream /\ n.reservation = q.reservation /\ n.bill = q.bill
    BY <1>0 DEF Request
  <2>4. req' = [req EXCEPT ![r] = n]
    BY <2>1
  <2> HIDE DEF n
  <2> QED BY <1>0, <1>3, <1>4, <1>5, <2>2, <2>3, <2>4
<1>9. ASSUME TakeFinal(r) PROVE IngressInv'
  <2>1. /\ q.pc = "relaying" /\ p.at = "offering" /\ p.held.kind \in {"eof", "error"}
        /\ pump' = [pump EXCEPT ![r] = Gone] /\ UNCHANGED <<cache, up>>
    BY <1>9 DEF TakeFinal, Final
  <2>2. Gone \in Pump /\ Gone.at = "gone"
    BY DEF Gone, Pump, recvResult, Nothing, Final
  <2>3. CASE p.held.kind = "eof"
    <3>1. PICK t \in {"done", "none"} :
             req' = [req EXCEPT ![r] = [q EXCEPT !.pc = "storing", !.terminal = t,
                                                 !.completed = TRUE]]
      BY <1>9, <2>3 DEF TakeFinal, finishStream
    <3> DEFINE n == [q EXCEPT !.pc = "storing", !.terminal = t, !.completed = TRUE]
    <3>2. /\ n \in Request /\ n.pc = "storing" /\ n.stream = q.stream
          /\ n.reservation = q.reservation /\ n.bill = q.bill /\ n.usage = q.usage
          /\ n.got = q.got /\ n.recorded = q.recorded /\ n.dropped = q.dropped
      BY <1>0 DEF Request
    <3>3. req' = [req EXCEPT ![r] = n]
      BY <3>1
    <3> HIDE DEF n
    <3>4. Coherent(n, Gone, u)
      BY <1>0, <2>1, <2>2, <2>3, <3>2, EndTaken
    <3> QED BY <1>0, <2>1, <2>2, <3>2, <3>3, <3>4, QuietStep
  <2>4. CASE p.held.kind # "eof"
    <3>1. PICK t \in {"truncated", "none"} :
             req' = [req EXCEPT ![r] = [q EXCEPT !.pc = "storing", !.terminal = t,
                                                 !.completed = FALSE]]
      BY <1>9, <2>4 DEF TakeFinal, finishStream
    <3> DEFINE n == [q EXCEPT !.pc = "storing", !.terminal = t, !.completed = FALSE]
    <3>2. /\ n \in Request /\ n.pc = "storing" /\ n.completed = FALSE /\ n.terminal = t
          /\ n.stream = q.stream /\ n.reservation = q.reservation /\ n.bill = q.bill
      BY <1>0 DEF Request
    <3>3. req' = [req EXCEPT ![r] = n]
      BY <3>1
    <3> HIDE DEF n
    <3> QED BY <1>3, <2>1, <2>2, <3>2, <3>3
  <2> QED BY <2>3, <2>4
<1> QED BY <1>1, <1>2, <1>6, <1>7, <1>8, <1>9

\* The steps that store and settle a stream, and the hangup and timeout that race them.
LEMMA ClosingSteps ==
  ASSUME IngressInv, NEW r \in Requests,
         StreamStores(r) \/ StreamSettles(r) \/ Hangup(r) \/ UpstreamTimer(r)
  PROVE  IngressInv'
<1> DEFINE q == req[r]
           p == pump[r]
           u == up[r]
<1>0. q \in Request /\ p \in Pump /\ u \in Upstream /\ Coherent(q, p, u)
      /\ up = [up EXCEPT ![r] = u] /\ pump = [pump EXCEPT ![r] = p]
  BY HandlerState DEF IngressInv, TypeOK
<1>1. ASSUME StreamStores(r) PROVE IngressInv'
  <2> DEFINE n == [q EXCEPT !.pc = "settling"]
             e == [frames |-> q.recorded, body |-> FALSE, total |-> u.produced]
  <2>1. q.pc = "storing" /\ q.stream /\ req' = [req EXCEPT ![r] = n] /\ UNCHANGED <<pump, up>>
    BY <1>1 DEF StreamStores
  <2>2. /\ n \in Request /\ n.pc = "settling" /\ n.completed = q.completed
        /\ n.terminal = q.terminal
        /\ n.stream = q.stream /\ n.reservation = q.reservation /\ n.bill = q.bill
        /\ n.usage = q.usage /\ n.got = q.got /\ n.recorded = q.recorded /\ n.dropped = q.dropped
    BY <1>0 DEF Request
  <2>3. Closing(q, u) /\ Whole(q, p, u) /\ Claim(q, u)
    BY <1>0, <2>1 DEF Coherent
  <2>4. cache' \in [Keys -> Entry \cup {Absent}] /\ CachedIsWhole'
    <3>1. CASE q.completed /\ ~q.dropped /\ q.recorded # <<>>
      <4>1. Put(r, e)
        BY <1>1, <3>1 DEF StreamStores
      <4>2. q.recorded = Frames(u.produced) /\ u.produced \in 0..MaxFrames
        BY <1>0, <2>3, <3>1 DEF Closing, Whole, Upstream
      <4>3. u.produced > 0
        BY <3>1, <4>2, FramesFacts
      <4>4. q.recorded \in Seq(1..MaxFrames)
        BY <1>0, RecordableFacts DEF Request, Recordable
      <4>5. e \in Entry /\ ~e.body /\ e.frames = Frames(e.total) /\ e.total > 0
        BY <4>2, <4>3, <4>4 DEF Entry
      <4> HIDE DEF e
      <4> QED BY <4>1, <4>5, StoredWhole
    <3>2. CASE ~(q.completed /\ ~q.dropped /\ q.recorded # <<>>)
      BY <1>1, <3>2 DEF StreamStores, IngressInv, TypeOK, CachedIsWhole
    <3> QED BY <3>1, <3>2
  <2> HIDE DEF n
  <2>5. Coherent(n, p, u)
    BY <2>1, <2>2, <2>3 DEF Coherent, Closing, Whole, Claim
  <2> QED BY <1>0, <2>1, <2>2, <2>4, <2>5, HandlerStep
<1>2. ASSUME StreamSettles(r) PROVE IngressInv'
  <2>1. /\ q.pc = "settling" /\ UNCHANGED <<cache, pump, up>>
        /\ req' = [req EXCEPT ![r] = Ending(settleOrAbort(q, q.usage))]
    BY <1>2 DEF StreamSettles, Return, Ending
  <2>2. /\ Ending(settleOrAbort(q, q.usage)) \in Request
        /\ Coherent(Ending(settleOrAbort(q, q.usage)), p, u)
    BY <1>0, <2>1, StreamClosed
  <2> QED BY <2>1, <2>2, LocalStep
<1>3. ASSUME Hangup(r) \/ UpstreamTimer(r) PROVE IngressInv'
  <2>1. PICK c \in {"gone", "timeout"} : req' = [req EXCEPT ![r] = [q EXCEPT !.ctx = c]]
    BY <1>3 DEF Hangup, UpstreamTimer
  <2>2. UNCHANGED <<cache, pump, up>>
    BY <1>3 DEF Hangup, UpstreamTimer
  <2> DEFINE n == [q EXCEPT !.ctx = c]
  <2>3. n \in Request /\ Coherent(n, p, u)
    BY <1>0, ContextEnds
  <2>4. req' = [req EXCEPT ![r] = n]
    BY <2>1
  <2> HIDE DEF n
  <2> QED BY <2>2, <2>3, <2>4, LocalStep
<1> QED BY <1>1, <1>2, <1>3

\* The whole invariant holds of every behaviour: every frame and every report is
\* accounted for between the upstream, the pump, the handler and the client.
THEOREM RelayInvariant == Spec => []IngressInv
<1>1. Init => IngressInv
  <2> SUFFICES ASSUME Init PROVE IngressInv
    OBVIOUS
  <2> DEFINE First(k) == [Arrived(k, FALSE) EXCEPT !.pc = "ended", !.ctx = "closed"]
  <2>1. ASSUME NEW k \in Keys
        PROVE  /\ First(k) \in Request /\ First(k).pc = "ended" /\ First(k).completed = FALSE
               /\ First(k).terminal = "none" /\ First(k).reservation = "none"
               /\ First(k).bill = 0
    <3>1. <<>> \in Recordable /\ <<>> \in Seq(1..MaxFrames) /\ 0 \in 0..MaxUsage
      BY RecordableFacts, EmptySeq
    <3>2. Arrived(k, FALSE) \in Request /\ Arrived(k, FALSE).completed = FALSE
          /\ Arrived(k, FALSE).terminal = "none" /\ Arrived(k, FALSE).reservation = "none"
          /\ Arrived(k, FALSE).bill = 0
      BY <3>1 DEF Arrived, Request, Recordable
    <3> QED BY <3>2 DEF Request
  <2>2. Gone \in Pump /\ Unasked \in Upstream
    BY DEF Gone, Pump, recvResult, Nothing, Final, Unasked, Upstream
  <2>3. \A r \in Requests : \E k \in Keys : req[r] = First(k)
    BY DEF Init
  <2>4. req \in [Requests -> Request]
    <3>1. {First(k) : k \in Keys} \subseteq Request
      BY <2>1
    <3> QED BY <3>1 DEF Init
  <2> HIDE DEF First
  <2>5. TypeOK
    BY <2>2, <2>4 DEF Init, TypeOK, Request, Pump, Upstream
  <2>6. CachedIsWhole
    BY DEF Init, CachedIsWhole
  <2>7. \A r \in Requests : Coherent(req[r], pump[r], up[r])
    BY <2>1, <2>3 DEF Coherent, Whole, Claim
  <2> QED BY <2>5, <2>6, <2>7 DEF IngressInv
<1>2. IngressInv /\ [Next]_vars => IngressInv'
  <2> SUFFICES ASSUME IngressInv, [Next]_vars PROVE IngressInv'
    OBVIOUS
  <2>1. ASSUME NEW k \in Keys, Evict(k) PROVE IngressInv'
    <3>1. UNCHANGED <<req, pump, up>> /\ cache' = [cache EXCEPT ![k] = Absent]
      BY <2>1 DEF Evict
    <3>2. TypeOK' /\ CachedIsWhole'
      BY <3>1 DEF IngressInv, TypeOK, CachedIsWhole
    <3> QED BY <3>1, <3>2 DEF IngressInv
  <2>2. CASE UNCHANGED vars
    BY <2>2 DEF vars, IngressInv, TypeOK, CachedIsWhole
  <2>3. ASSUME NEW r \in Requests, Handle(r) PROVE IngressInv'
    BY <2>3, AdmissionSteps, ChatSteps, PumpSteps, RelaySteps, ClosingSteps DEF Handle
  <2>4. ASSUME NEW r \in Requests, Answer(r) PROVE IngressInv'
    BY <2>4, AdmissionSteps, ChatSteps, PumpSteps DEF Answer
  <2> QED
    BY <2>1, <2>2, <2>3, <2>4, AdmissionSteps, PumpSteps, RelaySteps, ClosingSteps DEF Next
<1> QED BY <1>1, <1>2, PTL DEF Spec

\* A client that sees [DONE] has received the whole of a finished answer, frame by
\* frame, for answers of any length.
THEOREM DoneIsWhole == Spec => []DoneMeansWhole
<1>1. IngressInv => DoneMeansWhole
  BY DEF IngressInv, Coherent, Whole, DoneMeansWhole
<1> QED BY <1>1, RelayInvariant, PTL

\* What the cache holds is a whole answer, whatever cut the streams before it.
THEOREM CacheIsWhole == Spec => []CachedIsWhole
<1>1. IngressInv => CachedIsWhole
  BY DEF IngressInv
<1> QED BY <1>1, RelayInvariant, PTL

\* No handler returns, or waits in its last write, with its claim open, and an answer that reached its end is
\* billed at the upstream's last report; every variable keeps its type.
THEOREM ClaimsAreClosed == Spec => []ClaimClosed
<1>1. IngressInv => ClaimClosed
  BY DEF IngressInv, Coherent, Claim, ClaimClosed
<1> QED BY <1>1, RelayInvariant, PTL
=============================================================================
