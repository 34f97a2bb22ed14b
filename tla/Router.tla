------------------------------- MODULE Router -------------------------------
(***************************************************************************)
(* internal/router: requests walk a chain of providers (runChain) over one *)
(* shared health tracker.  A request asks the tracker about every provider *)
(* of its route once, orders the ones it may try, and then calls them one  *)
(* after the other; the tracker is not asked again.  The steps of          *)
(* concurrent requests interleave, and each call to the tracker is one     *)
(* critical section of its mutex.                                          *)
(***************************************************************************)
EXTENDS Integers, Sequences, SequencesExt, Health

CONSTANTS
    Requests,        \* client requests in flight; one that ends may come again
    Providers,
    Routes,          \* the configured chains: sequences of providers
    Strategy,        \* Strategy[c]: how route c orders its providers
    MaxAttempts,     \* upstream calls for one request
    Outcomes,        \* the error classes an upstream call may end with
    RetryAfters,     \* the waits a 429 may ask for; 0 when it names none
    RotationPeriod   \* the rotation counter is kept modulo this

ASSUME RouterAssumption ==
    /\ Routes \subseteq Seq(Providers) \ {<<>>}
    /\ \A c \in Routes : \A i, j \in 1..Len(c) : c[i] = c[j] => i = j
    /\ Strategy \in [Routes -> {"priority", "round_robin", "least_latency"}]
    /\ MaxAttempts \in Nat \ {0}
    /\ Outcomes \subseteq ErrorClass
    /\ RetryAfters \subseteq Nat
    /\ RotationPeriod \in Nat \ {0}
    /\ \A c \in Routes : \A n \in 1..Len(c) : RotationPeriod % n = 0

VARIABLES
    health,    \* tracker.state
    calls,     \* roundRobinSelector.calls, of each route's selector
    pc,        \* where each request is
    route,     \* its configured chain
    order,     \* the providers it may try, in order
    at,        \* its position in route while it asks, in order while it tries
    used,      \* upstream calls it has made
    ctx,       \* "live", "canceled" or "expired"
    tried,     \* history: the providers it called
    asked      \* history: ticks each provider still asked to be left alone for

request == <<pc, route, order, at, used, ctx, tried>>
vars    == <<health, calls, request, asked>>

-----------------------------------------------------------------------------
(* selector.go *)

rotated(avail, turn) ==
    [i \in 1..Len(avail) |-> avail[((turn + i - 1) % Len(avail)) + 1]]

\* least_latency sorts by measured latency, unmeasured providers first.  What
\* was measured is not modelled, so any order may come out.
orders(avail, chain) ==
    CASE Strategy[chain] = "priority"      -> {avail}
      [] Strategy[chain] = "round_robin"   -> {rotated(avail, calls[chain])}
      [] Strategy[chain] = "least_latency" ->
            {o \in [1..Len(avail) -> ToSet(avail)] : ToSet(o) = ToSet(avail)}

-----------------------------------------------------------------------------
(* runChain *)

\* The provider request r is at.
current(r) == order[r][at[r]]

\* A request arrives, as a chat completion or as a stream alike.
Begin(r, chain) ==
    /\ pc[r] = "idle"
    /\ pc' = [pc EXCEPT ![r] = "asking"]
    /\ route' = [route EXCEPT ![r] = chain]
    /\ order' = [order EXCEPT ![r] = <<>>]
    /\ at' = [at EXCEPT ![r] = 1]
    /\ used' = [used EXCEPT ![r] = 0]
    /\ ctx' = [ctx EXCEPT ![r] = "live"]
    /\ tried' = [tried EXCEPT ![r] = {}]
    /\ UNCHANGED <<health, calls, asked>>

\* availableFrom, one provider: each Available takes the mutex on its own.
Ask(r) ==
    LET p == route[r][at[r]]
    IN  /\ pc[r] = "asking"
        /\ at[r] <= Len(route[r])
        /\ order' = [order EXCEPT ![r] = IF Available(health[p])
                                         THEN Append(order[r], p) ELSE order[r]]
        /\ health' = [health EXCEPT ![p] = Asked(health[p])]
        /\ at' = [at EXCEPT ![r] = at[r] + 1]
        /\ UNCHANGED <<calls, pc, route, used, ctx, tried, asked>>

\* Request r ends.  What it held is dropped.
Ended(r) ==
    /\ pc' = [pc EXCEPT ![r] = "idle"]
    /\ order' = [order EXCEPT ![r] = <<>>]
    /\ at' = [at EXCEPT ![r] = 1]
    /\ used' = [used EXCEPT ![r] = 0]
    /\ ctx' = [ctx EXCEPT ![r] = "live"]
    /\ tried' = [tried EXCEPT ![r] = {}]
    /\ UNCHANGED route

\* Every provider was turned away: no healthy provider is available.
NoneAvailable(r) ==
    /\ pc[r] = "asking" /\ at[r] > Len(route[r])
    /\ order[r] = <<>>
    /\ Ended(r)
    /\ UNCHANGED <<health, calls, asked>>

\* The strategy orders what is available.  Only a turn that leads counts.
Order(r) ==
    /\ pc[r] = "asking" /\ at[r] > Len(route[r])
    /\ order[r] # <<>>
    /\ \E o \in orders(order[r], route[r]) : order' = [order EXCEPT ![r] = o]
    /\ calls' = IF Strategy[route[r]] = "round_robin"
                THEN [calls EXCEPT ![route[r]] = (calls[route[r]] + 1) % RotationPeriod]
                ELSE calls
    /\ pc' = [pc EXCEPT ![r] = "trying"]
    /\ at' = [at EXCEPT ![r] = 1]
    /\ UNCHANGED <<health, route, used, ctx, tried, asked>>

\* Mutant: only the end of the chain ends a request.
GivingUp_ChainOnly(r) == pc[r] = "trying" /\ at[r] > Len(order[r])

\* The chain or the attempt budget is spent.
GivingUp(r) == pc[r] = "trying" /\ (at[r] > Len(order[r]) \/ used[r] >= MaxAttempts)

Exhausted(r) ==
    /\ GivingUp(r)
    /\ Ended(r)
    /\ UNCHANGED <<health, calls, asked>>

\* The client hung up or the deadline passed before another call was made.
Abandoned(r) ==
    /\ pc[r] = "trying" /\ ~GivingUp(r)
    /\ ctx[r] # "live"
    /\ Ended(r)
    /\ UNCHANGED <<health, calls, asked>>

Call(r) ==
    /\ pc[r] = "trying" /\ ~GivingUp(r)
    /\ ctx[r] = "live"
    /\ pc' = [pc EXCEPT ![r] = "calling"]
    /\ tried' = [tried EXCEPT ![r] = tried[r] \cup {current(r)}]
    /\ UNCHANGED <<health, calls, route, order, at, used, ctx, asked>>

\* Mutant: a call that failed is not counted.
attempted_Uncounted(r) == used[r]

attempted(r) == used[r] + 1

\* Chat succeeded: the provider is healthy and the request is served.
ChatAnswers(r) ==
    /\ pc[r] = "calling"
    /\ health' = [health EXCEPT ![current(r)] = RecordSuccess(health[current(r)])]
    /\ Ended(r)
    /\ UNCHANGED <<calls, asked>>

\* ChatStream succeeded: nothing is recorded until the first chunk.
StreamOpens(r) ==
    /\ pc[r] = "calling"
    /\ pc' = [pc EXCEPT ![r] = "opened"]
    /\ used' = [used EXCEPT ![r] = attempted(r)]
    /\ UNCHANGED <<health, calls, route, order, at, ctx, tried, asked>>

classDisposition(class) ==
    CASE class \in {"invalid_request", "canceled"} -> "fail"
      [] class \in {"upstream", "timeout"}         -> "retry"
      [] OTHER                                     -> "failover"

\* Mutant: a retry takes the attempts reserved for the peers.
roomToRetry_Greedy(r) == attempted(r) < MaxAttempts

\* One attempt is reserved for each provider still untried.
roomToRetry(r) == attempted(r) + (Len(order[r]) - at[r]) < MaxAttempts

\* The call failed: the tracker hears of it without the Retry-After, and the
\* class decides whether the request ends, stays or moves on.
Fails(r, class, retryAfter) ==
    LET p == current(r)
    IN  /\ pc[r] = "calling"
        /\ class = "canceled" => ctx[r] # "live"
        /\ health' = [health EXCEPT ![p] = IF countsAgainstHealth(class)
                                           THEN RecordFailure(health[p], class, 0)
                                           ELSE health[p]]
        /\ asked' = [asked EXCEPT ![p] = AtLeast(asked[p], cooldownFor(class, retryAfter))]
        /\ IF classDisposition(class) = "fail"
           THEN Ended(r)
           ELSE /\ pc' = [pc EXCEPT ![r] = "trying"]
                /\ used' = [used EXCEPT ![r] = attempted(r)]
                /\ at' = [at EXCEPT ![r] =
                            IF classDisposition(class) = "retry" /\ roomToRetry(r)
                            THEN at[r] ELSE at[r] + 1]
                /\ UNCHANGED <<route, order, ctx, tried>>
        /\ UNCHANGED calls

-----------------------------------------------------------------------------
(* timedReader *)

\* The first chunk that is not a keepalive reports the provider healthy.
FirstChunk(r) ==
    /\ pc[r] = "opened"
    /\ health' = [health EXCEPT ![current(r)] = RecordSuccess(health[current(r)])]
    /\ pc' = [pc EXCEPT ![r] = "streaming"]
    /\ UNCHANGED <<calls, route, order, at, used, ctx, tried, asked>>

\* Recv returned an error: it passes through, and the tracker hears nothing.
StreamBreaks(r) ==
    /\ pc[r] \in {"opened", "streaming"}
    /\ pc' = [pc EXCEPT ![r] = "broken"]
    /\ UNCHANGED <<health, calls, route, order, at, used, ctx, tried, asked>>

\* The caller closes the stream: complete, abandoned or broken.
StreamCloses(r) ==
    /\ pc[r] \in {"opened", "streaming", "broken"}
    /\ Ended(r)
    /\ UNCHANGED <<health, calls, asked>>

-----------------------------------------------------------------------------
(* The environment *)

Hangup(r, how) ==
    /\ pc[r] # "idle" /\ ctx[r] = "live"
    /\ ctx' = [ctx EXCEPT ![r] = how]
    /\ UNCHANGED <<health, calls, pc, route, order, at, used, tried, asked>>

Tick ==
    /\ health' = [p \in Providers |-> Aged(health[p])]
    /\ asked' = [p \in Providers |-> AtLeast(asked[p] - 1, 0)]
    /\ UNCHANGED <<calls, request>>

Init ==
    /\ health = [p \in Providers |-> NewProvider]
    /\ calls = [c \in Routes |-> 0]
    /\ pc = [r \in Requests |-> "idle"]
    /\ route \in [Requests -> Routes]
    /\ order = [r \in Requests |-> <<>>]
    /\ at = [r \in Requests |-> 1]
    /\ used = [r \in Requests |-> 0]
    /\ ctx = [r \in Requests |-> "live"]
    /\ tried = [r \in Requests |-> {}]
    /\ asked = [p \in Providers |-> 0]

\* What a request does on its own, once it has arrived.
Proceed(r) ==
    \/ Ask(r) \/ NoneAvailable(r) \/ Order(r)
    \/ Exhausted(r) \/ Abandoned(r) \/ Call(r)

\* How an upstream call or a stream comes to its end.
Upstream(r) ==
    \/ ChatAnswers(r) \/ StreamOpens(r)
    \/ \E class \in Outcomes, wait \in RetryAfters : Fails(r, class, wait)
    \/ FirstChunk(r) \/ StreamBreaks(r) \/ StreamCloses(r)

Next ==
    \/ \E r \in Requests :
          \/ \E chain \in Routes : Begin(r, chain)
          \/ Proceed(r)
          \/ Upstream(r)
          \/ \E how \in {"canceled", "expired"} : Hangup(r, how)
    \/ Tick

Spec == Init /\ [][Next]_vars

\* A request's goroutine runs, and every upstream call and stream ends: both
\* are bounded by timeouts.
RequestFairness == \A r \in Requests : WF_vars(Proceed(r)) /\ WF_vars(Upstream(r))

FairSpec == Spec /\ RequestFairness

\* Time passes and requests keep arriving.
DemandSpec ==
    /\ FairSpec
    /\ WF_vars(Tick)
    /\ \A r \in Requests : \A chain \in Routes : SF_vars(Begin(r, chain))

-----------------------------------------------------------------------------
(* Properties *)

TypeOK ==
    /\ health \in [Providers -> providerHealth]
    /\ calls \in [Routes -> 0..(RotationPeriod - 1)]
    /\ pc \in [Requests -> {"idle", "asking", "trying", "calling", "opened", "streaming",
                          "broken"}]
    /\ route \in [Requests -> Routes]
    /\ order \in [Requests -> Seq(Providers)]
    /\ at \in [Requests -> Nat \ {0}]
    /\ used \in [Requests -> 0..MaxAttempts]
    /\ ctx \in [Requests -> {"live", "canceled", "expired"}]
    /\ tried \in [Requests -> SUBSET Providers]
    /\ asked \in [Providers -> Nat]

\* A request that gives up has called every provider it could, as far as the
\* attempt budget goes: retries on a sick provider never starve a peer, and no
\* provider further down is called before one ahead of it.
PeersReached ==
    \A r \in Requests : GivingUp(r) =>
        tried[r] = {order[r][i] : i \in 1..AtMost(MaxAttempts, Len(order[r]))}

\* A provider that answered 429 or 402 is offered to nobody until the wait it
\* asked for is over (docs/architecture.md), whatever late successes and failures
\* of other calls are reported.
WaitHonoured ==
    [][\A r \in Requests, p \in Providers :
          (pc[r] = "asking" /\ order'[r] = Append(order[r], p)) => asked[p] = 0]_vars

\* A straggler that fails after the breaker opened does not extend the outage.
OutageNotExtended ==
    [][\A p \in Providers :
          (health[p].breaker = "open" /\ health'[p].breaker = "open")
          => health'[p].sinceOpened >= health[p].sinceOpened]_vars

\* A request ends, however its calls fail, within its attempt budget.
EveryRequestEnds == \A r \in Requests : pc[r] # "idle" ~> pc[r] = "idle"

Offered(p) == \E r \in Requests : pc[r] # "idle" /\ p \in ToSet(order[r])

\* While requests arrive no provider is left out for ever: not by a breaker, a
\* pause, or a probe that was claimed by a request that then never made it.
NeverWedged == \A p \in Providers : []<>Offered(p)
=============================================================================
