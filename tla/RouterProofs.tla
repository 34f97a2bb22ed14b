---------------------------- MODULE RouterProofs ----------------------------
(***************************************************************************)
(* The router, for chains of any length, any budget, any number of         *)
(* concurrent requests and every strategy: the attempt budget reaches      *)
(* every peer, an outage is never extended, and a wait is honoured.        *)
(***************************************************************************)
EXTENDS Router, SequenceTheorems, TLAPS

USE HealthAssumption, RouterAssumption

-----------------------------------------------------------------------------
(* The tracker's records *)

\* Every question, report and tick keeps a provider's record well formed.
LEMMA HealthTypes ==
  ASSUME NEW h \in providerHealth
  PROVE  /\ Asked(h) \in providerHealth
         /\ RecordSuccess(h) \in providerHealth
         /\ Aged(h) \in providerHealth
         /\ \A class \in ErrorClass, wait \in Nat :
               RecordFailure(h, class, wait) \in providerHealth
<1>1. Asked(h) \in providerHealth
  <2>1. (IF admitProbe(h) THEN 0 ELSE h.sinceProbe) \in 0..ProbeStallTimeout
    BY DEF providerHealth
  <2> QED BY <2>1 DEF Asked, providerHealth
<1>2. RecordSuccess(h) \in providerHealth
  <2>1. 0 \in 0..BreakerThreshold
    OBVIOUS
  <2> QED BY <2>1 DEF RecordSuccess, providerHealth
<1>3. Aged(h) \in providerHealth
  <2>1. /\ AtMost(h.sinceOpened + 1, BreakerCooldown) \in 0..BreakerCooldown
        /\ AtMost(h.sinceProbe + 1, ProbeStallTimeout) \in 0..ProbeStallTimeout
        /\ AtLeast(h.pause - 1, 0) \in Nat
    BY DEF providerHealth, AtMost, AtLeast
  <2> QED BY <2>1 DEF Aged, providerHealth
<1>4. ASSUME NEW k \in providerHealth PROVE Counted(k) \in providerHealth
  <2>1. AtMost(k.consecutiveFailures + 1, BreakerThreshold) \in 0..BreakerThreshold
    BY DEF providerHealth, AtMost
  <2>2. 0 \in 0..BreakerCooldown
    OBVIOUS
  <2> QED BY <2>1, <2>2 DEF Counted, providerHealth
<1>5. ASSUME NEW class \in ErrorClass, NEW wait \in Nat
      PROVE  RecordFailure(h, class, wait) \in providerHealth
  <2>1. cooldownFor(class, wait) \in Nat
    BY DEF cooldownFor, AtLeast
  <2>2. AtLeast(h.pause, cooldownFor(class, wait)) \in Nat
    BY <2>1 DEF AtLeast, providerHealth
  <2>3. Parked(h, class, wait) \in providerHealth
    BY <2>2 DEF Parked, providerHealth
  <2> QED BY <1>4, <2>3 DEF RecordFailure
<1> QED BY <1>1, <1>2, <1>3, <1>5

-----------------------------------------------------------------------------
(* Types *)

\* The strategies order what is available into sequences of providers.
LEMMA OrdersTypes ==
  ASSUME NEW avail \in Seq(Providers), avail # <<>>, NEW chain \in Routes,
         calls[chain] \in Nat, NEW o \in orders(avail, chain)
  PROVE  o \in Seq(Providers)
<1>1. Len(avail) \in Nat /\ Len(avail) > 0
  BY EmptySeq, LenProperties
<1>2. CASE Strategy[chain] = "priority"
  BY <1>2 DEF orders
<1>3. CASE Strategy[chain] = "round_robin"
  <2>1. \A i \in 1..Len(avail) : ((calls[chain] + i - 1) % Len(avail)) + 1 \in 1..Len(avail)
    BY <1>1
  <2>2. \A i \in 1..Len(avail) : avail[((calls[chain] + i - 1) % Len(avail)) + 1] \in Providers
    BY <2>1, ElementOfSeq
  <2>3. rotated(avail, calls[chain]) \in [1..Len(avail) -> Providers]
    BY <2>2 DEF rotated
  <2>4. o = rotated(avail, calls[chain])
    BY <1>3 DEF orders
  <2>5. \A f \in [1..Len(avail) -> Providers] : f \in Seq(Providers)
    BY <1>1
  <2> QED BY <2>3, <2>4, <2>5
<1>4. CASE Strategy[chain] = "least_latency"
  <2>1. ToSet(avail) \subseteq Providers
    BY ElementOfSeq, <1>1 DEF ToSet
  <2>2. o \in [1..Len(avail) -> ToSet(avail)]
    BY <1>4 DEF orders
  <2> QED BY <1>1, <2>1, <2>2
<1> QED BY <1>2, <1>3, <1>4, RouterAssumption

\* A request that ends leaves well formed fields behind.
LEMMA EndedTypes ==
  ASSUME TypeOK, NEW r \in Requests, Ended(r)
  PROVE  /\ pc' \in [Requests -> {"idle", "asking", "trying", "calling", "opened",
                                  "streaming", "broken"}]
         /\ route' \in [Requests -> Routes]
         /\ order' \in [Requests -> Seq(Providers)]
         /\ at' \in [Requests -> Nat \ {0}]
         /\ used' \in [Requests -> 0..MaxAttempts]
         /\ ctx' \in [Requests -> {"live", "canceled", "expired"}]
         /\ tried' \in [Requests -> SUBSET Providers]
<1>1. <<>> \in Seq(Providers) /\ 1 \in Nat \ {0} /\ 0 \in 0..MaxAttempts
  BY EmptySeq
<1> QED BY <1>1 DEF TypeOK, Ended

\* The position of a request that asks or calls is within its chain.
InChain ==
    \A r \in Requests :
        /\ pc[r] = "asking" => at[r] <= Len(route[r]) + 1
        /\ pc[r] \in {"calling", "opened", "streaming", "broken"} =>
              at[r] <= Len(order[r]) /\ used[r] <= MaxAttempts
        /\ pc[r] = "calling" => used[r] < MaxAttempts

\* The provider a request asks the tracker about is a provider.
LEMMA AskedIsProvider ==
  ASSUME TypeOK, NEW r \in Requests, at[r] <= Len(route[r])
  PROVE  route[r][at[r]] \in Providers
<1>1. route[r] \in Seq(Providers) /\ at[r] \in Nat \ {0}
  BY DEF TypeOK
<1>2. at[r] \in 1..Len(route[r])
  BY <1>1, LenProperties
<1> QED BY <1>1, <1>2, ElementOfSeq

\* The provider a calling request is at is a provider.
LEMMA CurrentIsProvider ==
  ASSUME TypeOK, InChain, NEW r \in Requests,
         pc[r] \in {"calling", "opened", "streaming", "broken"}
  PROVE  current(r) \in Providers
<1>1. order[r] \in Seq(Providers) /\ at[r] \in 1..Len(order[r])
  <2>1. order[r] \in Seq(Providers) /\ at[r] \in Nat \ {0} /\ at[r] <= Len(order[r])
    BY DEF TypeOK, InChain
  <2>2. Len(order[r]) \in Nat
    BY <2>1, LenProperties
  <2> QED BY <2>1, <2>2
<1> QED BY <1>1, ElementOfSeq DEF current

\* Every field of the router keeps its type, and no request makes more upstream
\* calls than the attempt budget allows.
THEOREM RouterTypeCorrect == Spec => [](TypeOK /\ InChain)
<1>1. Init => TypeOK /\ InChain
  <2> SUFFICES ASSUME Init PROVE TypeOK /\ InChain
    OBVIOUS
  <2>1. NewProvider \in providerHealth
    <3>1. 0 \in 0..BreakerThreshold /\ 0 \in 0..BreakerCooldown /\ 0 \in 0..ProbeStallTimeout
      OBVIOUS
    <3> QED BY <3>1 DEF NewProvider, providerHealth
  <2>2. <<>> \in Seq(Providers) /\ 1 \in Nat \ {0} /\ 0 \in 0..MaxAttempts
        /\ 0 \in 0..(RotationPeriod - 1)
    BY EmptySeq
  <2>3. TypeOK
    BY <2>1, <2>2 DEF Init, TypeOK
  <2>4. InChain
    BY DEF Init, InChain
  <2> QED BY <2>3, <2>4
<1>2. TypeOK /\ InChain /\ [Next]_vars => TypeOK' /\ InChain'
  <2> SUFFICES ASSUME TypeOK, InChain, [Next]_vars PROVE TypeOK' /\ InChain'
    OBVIOUS
  <2>1. ASSUME NEW r \in Requests, Ended(r), health' \in [Providers -> providerHealth],
               asked' \in [Providers -> Nat], calls' = calls
        PROVE  TypeOK' /\ InChain'
    <3>1. TypeOK'
      BY <2>1, EndedTypes DEF TypeOK
    <3>2. pc'[r] = "idle" /\ \A q \in Requests \ {r} :
             /\ pc'[q] = pc[q] /\ route'[q] = route[q] /\ order'[q] = order[q]
             /\ at'[q] = at[q] /\ used'[q] = used[q]
      BY <2>1 DEF Ended, TypeOK
    <3>3. InChain'
      BY <3>2 DEF InChain
    <3> QED BY <3>1, <3>3
  <2>2. ASSUME NEW r \in Requests, NEW chain \in Routes, Begin(r, chain)
        PROVE  TypeOK' /\ InChain'
    <3>1. <<>> \in Seq(Providers) /\ 1 \in Nat \ {0} /\ 0 \in 0..MaxAttempts
      BY EmptySeq
    <3>2. TypeOK'
      BY <2>2, <3>1 DEF TypeOK, Begin
    <3>3. pc'[r] = "asking" /\ at'[r] = 1 /\ route'[r] = chain
          /\ \A q \in Requests \ {r} :
             /\ pc'[q] = pc[q] /\ route'[q] = route[q] /\ order'[q] = order[q]
             /\ at'[q] = at[q] /\ used'[q] = used[q]
      BY <2>2 DEF Begin, TypeOK
    <3>4. Len(chain) \in Nat
      BY LenProperties
    <3>5. InChain'
      BY <3>3, <3>4 DEF InChain
    <3> QED BY <3>2, <3>5
  <2>3. ASSUME NEW r \in Requests, Ask(r) PROVE TypeOK' /\ InChain'
    <3> DEFINE p == route[r][at[r]]
    <3>1. route[r] \in Seq(Providers) /\ at[r] \in 1..Len(route[r])
      <4>1. route[r] \in Seq(Providers) /\ at[r] \in Nat \ {0} /\ at[r] <= Len(route[r])
        BY <2>3 DEF TypeOK, Ask
      <4> QED BY <4>1, LenProperties
    <3>2. p \in Providers
      BY <3>1, ElementOfSeq
    <3>3. Append(order[r], p) \in Seq(Providers) /\ order[r] \in Seq(Providers)
      BY <3>2, AppendProperties DEF TypeOK
    <3>4. Asked(health[p]) \in providerHealth
      BY <3>2, HealthTypes DEF TypeOK
    <3>5. at[r] + 1 \in Nat \ {0}
      BY <3>1
    <3> HIDE DEF p
    <3>6. /\ order' = [order EXCEPT ![r] = IF Available(health[p])
                                           THEN Append(order[r], p) ELSE order[r]]
          /\ health' = [health EXCEPT ![p] = Asked(health[p])]
          /\ at' = [at EXCEPT ![r] = at[r] + 1]
          /\ UNCHANGED <<calls, pc, route, used, ctx, tried, asked>>
          /\ pc[r] = "asking" /\ at[r] <= Len(route[r])
      BY <2>3 DEF Ask, p
    <3>7. TypeOK'
      BY <3>2, <3>3, <3>4, <3>5, <3>6 DEF TypeOK
    <3>8. at'[r] = at[r] + 1 /\ \A q \in Requests \ {r} : at'[q] = at[q] /\ order'[q] = order[q]
      BY <3>6 DEF TypeOK
    <3>9. at[r] + 1 <= Len(route[r]) + 1
      BY <3>1, LenProperties
    <3>10. InChain'
      BY <3>6, <3>8, <3>9 DEF InChain
    <3> QED BY <3>7, <3>10
  <2>4. ASSUME NEW r \in Requests, Order(r) PROVE TypeOK' /\ InChain'
    <3>1. PICK o \in orders(order[r], route[r]) : order' = [order EXCEPT ![r] = o]
      BY <2>4 DEF Order
    <3>2. o \in Seq(Providers)
      <4>1. route[r] \in Routes /\ calls[route[r]] \in Nat /\ order[r] \in Seq(Providers)
        BY DEF TypeOK
      <4> QED BY <2>4, <3>1, <4>1, OrdersTypes DEF Order
    <3>3. calls' \in [Routes -> 0..(RotationPeriod - 1)]
      <4>1. calls \in [Routes -> 0..(RotationPeriod - 1)] /\ route[r] \in Routes
        BY DEF TypeOK
      <4>2. (calls[route[r]] + 1) % RotationPeriod \in 0..(RotationPeriod - 1)
        BY <4>1, RouterAssumption
      <4> QED BY <2>4, <4>1, <4>2 DEF Order
    <3>4. TypeOK'
      <4>1. /\ order' \in [Requests -> Seq(Providers)]
            /\ pc' \in [Requests -> {"idle", "asking", "trying", "calling", "opened",
                                     "streaming", "broken"}]
            /\ at' \in [Requests -> Nat \ {0}]
        BY <2>4, <3>1, <3>2, SMTT(30) DEF Order, TypeOK
      <4>2. UNCHANGED <<health, route, used, ctx, tried, asked>>
        BY <2>4 DEF Order
      <4> QED BY <3>3, <4>1, <4>2 DEF TypeOK
    <3>5. pc'[r] = "trying" /\ \A q \in Requests \ {r} :
             /\ pc'[q] = pc[q] /\ route'[q] = route[q] /\ order'[q] = order[q]
             /\ at'[q] = at[q] /\ used'[q] = used[q]
      BY <2>4, <3>1 DEF Order, TypeOK
    <3>6. InChain'
      BY <3>5 DEF InChain
    <3> QED BY <3>4, <3>6
  <2>5. ASSUME NEW r \in Requests, Call(r) PROVE TypeOK' /\ InChain'
    <3>1. order[r] \in Seq(Providers) /\ at[r] \in 1..Len(order[r]) /\ used[r] < MaxAttempts
      <4>1. /\ order[r] \in Seq(Providers) /\ at[r] \in Nat \ {0} /\ used[r] \in 0..MaxAttempts
            /\ ~(at[r] > Len(order[r])) /\ ~(used[r] >= MaxAttempts)
        BY <2>5 DEF TypeOK, Call, GivingUp
      <4>2. Len(order[r]) \in Nat
        BY <4>1, LenProperties
      <4> QED BY <4>1, <4>2
    <3>2. current(r) \in Providers
      BY <3>1, ElementOfSeq DEF current
    <3>3. TypeOK'
      BY <2>5, <3>2 DEF Call, TypeOK
    <3>4. pc'[r] = "calling" /\ \A q \in Requests \ {r} : pc'[q] = pc[q]
      BY <2>5 DEF Call, TypeOK
    <3>5. InChain'
      <4>1. UNCHANGED <<route, order, at, used>>
        BY <2>5 DEF Call
      <4>2. at[r] <= Len(order[r]) /\ used[r] <= MaxAttempts
        BY <3>1, LenProperties DEF TypeOK
      <4> QED BY <3>1, <3>4, <4>1, <4>2 DEF InChain
    <3> QED BY <3>3, <3>5
  <2>6. ASSUME NEW r \in Requests, ChatAnswers(r) PROVE TypeOK' /\ InChain'
    <3>1. current(r) \in Providers
      BY <2>6, CurrentIsProvider DEF ChatAnswers
    <3>2. health' \in [Providers -> providerHealth]
      BY <2>6, <3>1, HealthTypes DEF ChatAnswers, TypeOK
    <3> QED BY <2>1, <2>6, <3>2 DEF ChatAnswers, TypeOK
  <2>7. ASSUME NEW r \in Requests, StreamOpens(r) PROVE TypeOK' /\ InChain'
    <3>1. used[r] + 1 \in 0..MaxAttempts
      BY <2>7 DEF StreamOpens, InChain, TypeOK
    <3>2. TypeOK'
      BY <2>7, <3>1 DEF StreamOpens, TypeOK, attempted
    <3>3. pc'[r] = "opened" /\ used'[r] = used[r] + 1
          /\ \A q \in Requests \ {r} : pc'[q] = pc[q] /\ used'[q] = used[q]
      BY <2>7 DEF StreamOpens, TypeOK, attempted
    <3>4. InChain'
      BY <2>7, <3>1, <3>3 DEF StreamOpens, InChain
    <3> QED BY <3>2, <3>4
  <2>8. ASSUME NEW r \in Requests, NEW class \in Outcomes, NEW wait \in RetryAfters,
               Fails(r, class, wait)
        PROVE  TypeOK' /\ InChain'
    <3> DEFINE p == current(r)
    <3>1. p \in Providers /\ class \in ErrorClass /\ wait \in Nat
      BY <2>8, CurrentIsProvider DEF Fails
    <3>2. RecordFailure(health[p], class, 0) \in providerHealth /\ health[p] \in providerHealth
      BY <3>1, HealthTypes DEF TypeOK
    <3>3. AtLeast(asked[p], cooldownFor(class, wait)) \in Nat
      BY <3>1 DEF cooldownFor, AtLeast, TypeOK
    <3>4. health' \in [Providers -> providerHealth] /\ asked' \in [Providers -> Nat]
      <4> HIDE DEF p
      <4>1. /\ health' = [health EXCEPT ![p] = IF countsAgainstHealth(class)
                             THEN RecordFailure(health[p], class, 0) ELSE health[p]]
            /\ asked' = [asked EXCEPT ![p] = AtLeast(asked[p], cooldownFor(class, wait))]
        BY <2>8 DEF Fails, p
      <4> QED BY <3>1, <3>2, <3>3, <4>1 DEF TypeOK
    <3>5. CASE classDisposition(class) = "fail"
      BY <2>1, <2>8, <3>4, <3>5 DEF Fails
    <3>6. CASE classDisposition(class) # "fail"
      <4> DEFINE k == IF classDisposition(class) = "retry" /\ roomToRetry(r)
                      THEN at[r] ELSE at[r] + 1
      <4>1. /\ pc' = [pc EXCEPT ![r] = "trying"]
            /\ used' = [used EXCEPT ![r] = used[r] + 1]
            /\ at' = [at EXCEPT ![r] = k]
            /\ UNCHANGED <<route, order, ctx, tried, calls>>
        BY <2>8, <3>6 DEF Fails, attempted
      <4>2. k \in Nat \ {0}
        BY DEF TypeOK
      <4>3. used[r] + 1 \in 0..MaxAttempts
        BY <2>8 DEF Fails, InChain, TypeOK
      <4> HIDE DEF k
      <4>4. TypeOK'
        BY <3>4, <4>1, <4>2, <4>3 DEF TypeOK
      <4>5. pc'[r] = "trying" /\ \A q \in Requests \ {r} :
               /\ pc'[q] = pc[q] /\ at'[q] = at[q] /\ used'[q] = used[q]
        BY <4>1 DEF TypeOK
      <4>6. InChain'
        BY <4>1, <4>5 DEF InChain
      <4> QED BY <4>4, <4>6
    <3> QED BY <3>5, <3>6
  <2>9. ASSUME NEW r \in Requests, FirstChunk(r) PROVE TypeOK' /\ InChain'
    <3>1. current(r) \in Providers
      BY <2>9, CurrentIsProvider DEF FirstChunk
    <3>2. health' \in [Providers -> providerHealth]
      BY <2>9, <3>1, HealthTypes DEF FirstChunk, TypeOK
    <3>3. TypeOK'
      BY <2>9, <3>2 DEF FirstChunk, TypeOK
    <3>4. InChain'
      BY <2>9 DEF FirstChunk, InChain, TypeOK
    <3> QED BY <3>3, <3>4
  <2>10. ASSUME NEW r \in Requests, StreamBreaks(r) PROVE TypeOK' /\ InChain'
    BY <2>10 DEF StreamBreaks, TypeOK, InChain
  <2>11. ASSUME NEW r \in Requests, NEW how \in {"canceled", "expired"}, Hangup(r, how)
         PROVE  TypeOK' /\ InChain'
    BY <2>11 DEF Hangup, TypeOK, InChain
  <2>12. ASSUME Tick PROVE TypeOK' /\ InChain'
    <3>1. \A q \in Providers : Aged(health[q]) \in providerHealth
      BY HealthTypes DEF TypeOK
    <3>2. \A q \in Providers : AtLeast(asked[q] - 1, 0) \in Nat
      BY DEF TypeOK, AtLeast
    <3>3. TypeOK'
      BY <2>12, <3>1, <3>2 DEF Tick, request, TypeOK
    <3> QED BY <2>12, <3>3 DEF Tick, request, InChain
  <2>13. CASE UNCHANGED vars
    BY <2>13 DEF vars, request, TypeOK, InChain
  <2>14. ASSUME NEW r \in Requests,
                NoneAvailable(r) \/ Exhausted(r) \/ Abandoned(r) \/ StreamCloses(r)
         PROVE  TypeOK' /\ InChain'
    BY <2>1, <2>14, ZenonT(40) DEF NoneAvailable, Exhausted, Abandoned, StreamCloses, TypeOK
  <2> QED
    BY <2>2, <2>3, <2>4, <2>5, <2>6, <2>7, <2>8, <2>9, <2>10, <2>11, <2>12, <2>13, <2>14
       DEF Next, Proceed, Upstream
<1> QED BY <1>1, <1>2, PTL DEF Spec

-----------------------------------------------------------------------------
(* The attempt budget reaches every peer *)

\* The first n providers of request r's order.
Upto(r, n) == {order[r][i] : i \in 1..n}

\* Nothing was retried, or an attempt is still left for every provider from the
\* current one on.
Afforded(r) ==
    \/ used[r] = at[r] - 1
    \/ used[r] + (Len(order[r]) - at[r]) + 1 <= MaxAttempts

\* At a provider it has not called yet, or back at one to retry it with an
\* attempt to spare.
AtNext(r) ==
    /\ at[r] <= Len(order[r]) + 1
    /\ tried[r] = Upto(r, at[r] - 1)
    /\ used[r] >= at[r] - 1
    /\ Afforded(r)
AtRetry(r) ==
    /\ at[r] <= Len(order[r])
    /\ tried[r] = Upto(r, at[r])
    /\ used[r] >= at[r]
    /\ used[r] + (Len(order[r]) - at[r]) < MaxAttempts

BudgetInv ==
    \A r \in Requests :
        /\ pc[r] = "asking" => used[r] = 0 /\ tried[r] = {}
        /\ pc[r] = "trying" => AtNext(r) \/ AtRetry(r)
        /\ pc[r] = "calling" => /\ tried[r] = Upto(r, at[r])
                                /\ used[r] >= at[r] - 1
                                /\ Afforded(r)

\* The numbers the budget compares.
LEMMA BudgetTypes ==
  ASSUME TypeOK, NEW r \in Requests
  PROVE  /\ Len(order[r]) \in Nat /\ at[r] \in Nat /\ at[r] > 0
         /\ used[r] \in Nat /\ used[r] <= MaxAttempts /\ MaxAttempts \in Nat
<1>1. order[r] \in Seq(Providers)
  BY DEF TypeOK
<1> QED BY <1>1, LenProperties DEF TypeOK

\* A step of request r that leaves the other requests alone.
LEMMA OthersKept ==
  ASSUME BudgetInv, NEW r \in Requests,
         \A q \in Requests \ {r} :
            /\ pc'[q] = pc[q] /\ order'[q] = order[q] /\ at'[q] = at[q]
            /\ used'[q] = used[q] /\ tried'[q] = tried[q],
         pc'[r] = "asking" => used'[r] = 0 /\ tried'[r] = {},
         pc'[r] = "trying" => AtNext(r)' \/ AtRetry(r)',
         pc'[r] = "calling" => tried'[r] = Upto(r, at[r])' /\ used'[r] >= at'[r] - 1
                               /\ Afforded(r)'
  PROVE  BudgetInv'
<1> DEFINE Part(q) == /\ pc[q] = "asking" => used[q] = 0 /\ tried[q] = {}
                      /\ pc[q] = "trying" => AtNext(q) \/ AtRetry(q)
                      /\ pc[q] = "calling" => /\ tried[q] = Upto(q, at[q])
                                              /\ used[q] >= at[q] - 1
                                              /\ Afforded(q)
<1>1. ASSUME NEW q \in Requests \ {r} PROVE Part(q)'
  <2>1. Part(q)
    BY DEF BudgetInv
  <2>2. /\ pc'[q] = pc[q] /\ order'[q] = order[q] /\ at'[q] = at[q]
        /\ used'[q] = used[q] /\ tried'[q] = tried[q]
    OBVIOUS
  <2>3. /\ AtNext(q)' <=> AtNext(q)
        /\ AtRetry(q)' <=> AtRetry(q)
        /\ Afforded(q)' <=> Afforded(q)
        /\ Upto(q, at[q])' = Upto(q, at[q])
    BY <2>2 DEF AtNext, AtRetry, Afforded, Upto
  <2> QED BY <2>1, <2>2, <2>3
<1>2. Part(r)'
  OBVIOUS
<1> QED BY <1>1, <1>2 DEF BudgetInv

\* A request that gives up has called each of the providers its budget could
\* reach, in a chain of any length and with any budget.
THEOREM EveryPeerReached == Spec => []PeersReached
<1>1. Init => BudgetInv
  BY DEF Init, BudgetInv
<1>2. TypeOK /\ TypeOK' /\ InChain /\ BudgetInv /\ [Next]_vars => BudgetInv'
  <2> SUFFICES ASSUME TypeOK, TypeOK', InChain, BudgetInv, [Next]_vars PROVE BudgetInv'
    OBVIOUS
  <2>1. ASSUME NEW r \in Requests, Ended(r) PROVE BudgetInv'
    <3>1. pc'[r] = "idle" /\ \A q \in Requests \ {r} :
             /\ pc'[q] = pc[q] /\ order'[q] = order[q] /\ at'[q] = at[q]
             /\ used'[q] = used[q] /\ tried'[q] = tried[q]
      BY <2>1 DEF Ended, TypeOK
    <3> QED BY <3>1, OthersKept
  <2>2. ASSUME NEW r \in Requests, NEW chain \in Routes, Begin(r, chain) PROVE BudgetInv'
    <3>1. /\ pc'[r] = "asking" /\ used'[r] = 0 /\ tried'[r] = {}
          /\ \A q \in Requests \ {r} :
             /\ pc'[q] = pc[q] /\ order'[q] = order[q] /\ at'[q] = at[q]
             /\ used'[q] = used[q] /\ tried'[q] = tried[q]
      BY <2>2 DEF Begin, TypeOK
    <3> QED BY <3>1, OthersKept
  <2>3. ASSUME NEW r \in Requests, Ask(r) PROVE BudgetInv'
    <3>1. /\ pc[r] = "asking" /\ UNCHANGED <<pc, used, tried>>
          /\ \A q \in Requests \ {r} : order'[q] = order[q] /\ at'[q] = at[q]
      BY <2>3 DEF Ask, TypeOK
    <3>2. used[r] = 0 /\ tried[r] = {}
      BY <3>1 DEF BudgetInv
    <3> QED BY <3>1, <3>2, OthersKept
  <2>4. ASSUME NEW r \in Requests, Order(r) PROVE BudgetInv'
    <3>1. /\ pc[r] = "asking" /\ pc'[r] = "trying" /\ at'[r] = 1
          /\ UNCHANGED <<used, tried>>
          /\ \A q \in Requests \ {r} :
             pc'[q] = pc[q] /\ order'[q] = order[q] /\ at'[q] = at[q]
      BY <2>4 DEF Order, TypeOK
    <3>2. used'[r] = 0 /\ tried'[r] = {}
      BY <3>1 DEF BudgetInv
    <3>3. Upto(r, at[r] - 1)' = {}
      BY <3>1 DEF Upto
    <3>4. Len(order'[r]) \in Nat
      BY LenProperties DEF TypeOK
    <3>5. AtNext(r)'
      BY <3>1, <3>2, <3>3, <3>4 DEF AtNext, Afforded
    <3> QED BY <3>1, <3>5, OthersKept
  <2>5. ASSUME NEW r \in Requests, Call(r) PROVE BudgetInv'
    <3>1. /\ pc[r] = "trying" /\ at[r] <= Len(order[r]) /\ used[r] < MaxAttempts
          /\ pc'[r] = "calling" /\ tried'[r] = tried[r] \cup {current(r)}
          /\ UNCHANGED <<order, at, used>>
          /\ \A q \in Requests \ {r} : pc'[q] = pc[q] /\ tried'[q] = tried[q]
      <4>1. ~(at[r] > Len(order[r])) /\ ~(used[r] >= MaxAttempts)
        BY <2>5 DEF Call, GivingUp
      <4> QED BY <2>5, <4>1, BudgetTypes DEF Call, TypeOK
    <3>2. AtNext(r) \/ AtRetry(r)
      BY <3>1 DEF BudgetInv
    <3>3. tried'[r] = Upto(r, at[r])
      <4>1. current(r) \in Upto(r, at[r])
        BY BudgetTypes DEF current, Upto
      <4>2. Upto(r, at[r]) = Upto(r, at[r] - 1) \cup {current(r)}
        BY BudgetTypes DEF current, Upto
      <4> QED BY <3>1, <3>2, <4>1, <4>2 DEF AtNext, AtRetry
    <3>4. used[r] >= at[r] - 1 /\ Afforded(r)
      BY <3>2, BudgetTypes DEF AtNext, AtRetry, Afforded
    <3>5. Upto(r, at[r])' = Upto(r, at[r]) /\ (Afforded(r)' <=> Afforded(r))
      BY <3>1 DEF Upto, Afforded
    <3> QED BY <3>1, <3>3, <3>4, <3>5, OthersKept
  <2>6. ASSUME NEW r \in Requests, NEW class \in Outcomes, NEW wait \in RetryAfters,
               Fails(r, class, wait)
        PROVE  BudgetInv'
    <3>1. CASE classDisposition(class) = "fail"
      BY <2>1, <2>6, <3>1 DEF Fails
    <3>2. CASE classDisposition(class) # "fail"
      <4>1. /\ pc[r] = "calling" /\ pc'[r] = "trying" /\ used'[r] = used[r] + 1
            /\ UNCHANGED <<order, tried>>
            /\ \/ at'[r] = at[r] /\ used[r] + 1 + (Len(order[r]) - at[r]) < MaxAttempts
               \/ at'[r] = at[r] + 1
            /\ \A q \in Requests \ {r} :
               pc'[q] = pc[q] /\ at'[q] = at[q] /\ used'[q] = used[q]
        BY <2>6, <3>2 DEF Fails, attempted, roomToRetry, TypeOK
      <4>2. tried[r] = Upto(r, at[r]) /\ used[r] >= at[r] - 1 /\ Afforded(r)
            /\ at[r] <= Len(order[r])
        BY <4>1 DEF BudgetInv, InChain
      <4>3. CASE at'[r] = at[r] /\ used[r] + 1 + (Len(order[r]) - at[r]) < MaxAttempts
        <5>1. Upto(r, at[r])' = Upto(r, at[r])
          BY <4>1, <4>3 DEF Upto
        <5>2. AtRetry(r)'
          BY <4>1, <4>2, <4>3, <5>1, BudgetTypes DEF AtRetry
        <5> QED BY <4>1, <5>2, OthersKept
      <4>4. CASE at'[r] = at[r] + 1
        <5>1. Upto(r, at[r] - 1)' = Upto(r, at[r])
          BY <4>1, <4>4, BudgetTypes DEF Upto
        <5>2. Afforded(r)'
          <6>1. order'[r] = order[r] /\ used'[r] = used[r] + 1
            BY <4>1
          <6>2. CASE used[r] = at[r] - 1
            BY <4>4, <6>1, <6>2, BudgetTypes DEF Afforded
          <6>3. CASE used[r] + (Len(order[r]) - at[r]) + 1 <= MaxAttempts
            <7> DEFINE n == Len(order[r])
                       a == at[r]
                       u == used[r]
            <7>1. u + (n - a) + 1 <= MaxAttempts /\ n \in Nat /\ a \in Nat /\ u \in Nat
                  /\ MaxAttempts \in Nat
              BY <6>3, BudgetTypes
            <7>2. at'[r] = a + 1 /\ used'[r] = u + 1 /\ Len(order'[r]) = n
              BY <4>4, <6>1
            <7> HIDE DEF n, a, u
            <7>3. (u + 1) + (n - (a + 1)) + 1 <= MaxAttempts
              BY <7>1
            <7> QED BY <7>2, <7>3 DEF Afforded
          <6> QED BY <4>2, <6>2, <6>3 DEF Afforded
        <5>3. AtNext(r)'
          BY <4>1, <4>2, <4>4, <5>1, <5>2, BudgetTypes DEF AtNext
        <5> QED BY <4>1, <5>3, OthersKept
      <4> QED BY <4>1, <4>3, <4>4
    <3> QED BY <3>1, <3>2
  <2>7. ASSUME NEW r \in Requests, StreamOpens(r) \/ FirstChunk(r) \/ StreamBreaks(r)
        PROVE  BudgetInv'
    <3>1. /\ pc'[r] \in {"opened", "streaming", "broken"}
          /\ UNCHANGED <<order, at, tried>>
          /\ \A q \in Requests \ {r} : pc'[q] = pc[q] /\ used'[q] = used[q]
      BY <2>7, SMTT(30) DEF StreamOpens, FirstChunk, StreamBreaks, TypeOK
    <3> QED BY <3>1, OthersKept
  <2>8. ASSUME UNCHANGED <<pc, order, at, used, tried>> PROVE BudgetInv'
    BY <2>8 DEF BudgetInv, AtNext, AtRetry, Afforded, Upto
  <2>9. ASSUME NEW r \in Requests, Proceed(r) PROVE BudgetInv'
    BY <2>1, <2>3, <2>4, <2>5, <2>9 DEF Proceed, NoneAvailable, Exhausted, Abandoned
  <2>10. ASSUME NEW r \in Requests, Upstream(r) PROVE BudgetInv'
    BY <2>1, <2>6, <2>7, <2>10 DEF Upstream, ChatAnswers, StreamCloses
  <2>11. ASSUME NEW r \in Requests, NEW how \in {"canceled", "expired"}, Hangup(r, how)
         PROVE  BudgetInv'
    BY <2>8, <2>11 DEF Hangup
  <2>12. ASSUME Tick \/ UNCHANGED vars PROVE BudgetInv'
    BY <2>8, <2>12 DEF Tick, vars, request
  <2> QED BY <2>2, <2>9, <2>10, <2>11, <2>12 DEF Next
<1>3. TypeOK /\ BudgetInv => PeersReached
  <2> SUFFICES ASSUME TypeOK, BudgetInv, NEW r \in Requests, GivingUp(r)
               PROVE  tried[r] = Upto(r, AtMost(MaxAttempts, Len(order[r])))
    BY DEF PeersReached, Upto
  <2>1. /\ AtNext(r) \/ AtRetry(r)
        /\ at[r] > Len(order[r]) \/ used[r] >= MaxAttempts
    BY DEF BudgetInv, GivingUp
  <2>2. ~AtRetry(r)
    BY <2>1, BudgetTypes DEF AtRetry
  <2>3. at[r] - 1 = AtMost(MaxAttempts, Len(order[r]))
    BY <2>1, <2>2, BudgetTypes, SMTT(30) DEF AtNext, Afforded, AtMost
  <2> QED BY <2>1, <2>2, <2>3 DEF AtNext
<1> QED BY <1>1, <1>2, <1>3, RouterTypeCorrect, PTL DEF Spec

-----------------------------------------------------------------------------
(* The breaker's outage *)

\* What a question, a report or a tick leaves of an outage that goes on.
OutageKept(h, k) ==
    h.breaker = "open" /\ k.breaker = "open" => k.sinceOpened >= h.sinceOpened

\* No question, report or tick sets an outage back.
LEMMA OutageSteps ==
  ASSUME NEW h \in providerHealth
  PROVE  /\ OutageKept(h, h)
         /\ OutageKept(h, Asked(h))
         /\ OutageKept(h, RecordSuccess(h))
         /\ OutageKept(h, Aged(h))
         /\ \A class \in ErrorClass, wait \in Nat : OutageKept(h, RecordFailure(h, class, wait))
<1>1. h.sinceOpened \in Nat /\ h.sinceOpened <= BreakerCooldown
  BY DEF providerHealth
<1>2. OutageKept(h, h)
  BY <1>1 DEF OutageKept
<1>3. OutageKept(h, Asked(h))
  BY <1>1 DEF OutageKept, Asked, providerHealth
<1>4. OutageKept(h, RecordSuccess(h))
  BY DEF OutageKept, RecordSuccess, providerHealth
<1>5. OutageKept(h, Aged(h))
  <2>1. Aged(h).sinceOpened = AtMost(h.sinceOpened + 1, BreakerCooldown)
    BY DEF Aged, providerHealth
  <2> QED BY <1>1, <2>1 DEF OutageKept, AtMost
<1>6. ASSUME NEW class \in ErrorClass, NEW wait \in Nat, h.breaker = "open"
      PROVE  RecordFailure(h, class, wait).sinceOpened = h.sinceOpened
  <2> DEFINE k == Parked(h, class, wait)
  <2>1. k.breaker = "open" /\ k.sinceOpened = h.sinceOpened
    BY <1>6 DEF Parked, providerHealth
  <2>2. Counted(k).sinceOpened = k.sinceOpened
    <3>1. Counted(k) = [k EXCEPT !.consecutiveFailures =
                              AtMost(k.consecutiveFailures + 1, BreakerThreshold)]
      BY <2>1 DEF Counted
    <3>2. k \in [{"breaker", "consecutiveFailures", "sinceOpened", "probeInFlight",
                  "sinceProbe", "pause"} -> {k[f] : f \in DOMAIN k}]
      BY DEF Parked, providerHealth
    <3> QED BY <3>1, <3>2
  <2> QED BY <2>1, <2>2 DEF RecordFailure
<1>7. ASSUME NEW class \in ErrorClass, NEW wait \in Nat
      PROVE  OutageKept(h, RecordFailure(h, class, wait))
  BY <1>1, <1>6 DEF OutageKept
<1> QED BY <1>2, <1>3, <1>4, <1>5, <1>7

\* Only its own cooldown ends an outage: no failure that is reported late, in
\* whatever order the calls in flight come back, starts the cooldown over.
THEOREM OutageEndsOnTime == Spec => OutageNotExtended
<1> DEFINE Kept == \A p \in Providers : OutageKept(health[p], health'[p])
<1>1. TypeOK /\ InChain /\ [Next]_vars => [Kept]_vars
  <2> SUFFICES ASSUME TypeOK, InChain, Next PROVE Kept
    OBVIOUS
  <2>1. ASSUME health' = health PROVE Kept
    BY <2>1, OutageSteps DEF TypeOK
  <2>2. ASSUME NEW p \in Providers, NEW k, health' = [health EXCEPT ![p] = k],
               OutageKept(health[p], k)
        PROVE  Kept
    BY <2>2, OutageSteps DEF TypeOK
  <2>3. ASSUME NEW r \in Requests, Ask(r) PROVE Kept
    <3> DEFINE p == route[r][at[r]]
    <3>1. p \in Providers
      BY <2>3, AskedIsProvider DEF Ask
    <3>2. OutageKept(health[p], Asked(health[p]))
      BY <3>1, OutageSteps DEF TypeOK
    <3> HIDE DEF p
    <3>3. health' = [health EXCEPT ![p] = Asked(health[p])]
      BY <2>3 DEF Ask, p
    <3> QED BY <2>2, <3>1, <3>2, <3>3
  <2>4. ASSUME NEW r \in Requests, ChatAnswers(r) \/ FirstChunk(r) PROVE Kept
    <3>1. current(r) \in Providers
      BY <2>4, CurrentIsProvider DEF ChatAnswers, FirstChunk
    <3>2. OutageKept(health[current(r)], RecordSuccess(health[current(r)]))
      BY <3>1, OutageSteps DEF TypeOK
    <3> QED BY <2>2, <2>4, <3>1, <3>2 DEF ChatAnswers, FirstChunk
  <2>5. ASSUME NEW r \in Requests, NEW class \in Outcomes, NEW wait \in RetryAfters,
               Fails(r, class, wait)
        PROVE  Kept
    <3>1. current(r) \in Providers /\ class \in ErrorClass
      BY <2>5, CurrentIsProvider DEF Fails
    <3>2. /\ OutageKept(health[current(r)], RecordFailure(health[current(r)], class, 0))
          /\ OutageKept(health[current(r)], health[current(r)])
      BY <3>1, OutageSteps DEF TypeOK
    <3>3. health' = [health EXCEPT ![current(r)] = IF countsAgainstHealth(class)
                        THEN RecordFailure(health[current(r)], class, 0)
                        ELSE health[current(r)]]
      BY <2>5 DEF Fails
    <3> QED BY <2>2, <3>1, <3>2, <3>3
  <2>6. ASSUME Tick PROVE Kept
    BY <2>6, OutageSteps DEF Tick, TypeOK
  <2>7. ASSUME NEW r \in Requests, Proceed(r) PROVE Kept
    BY <2>1, <2>3, <2>7
       DEF Proceed, NoneAvailable, Order, Exhausted, Abandoned, Call
  <2>8. ASSUME NEW r \in Requests, Upstream(r) PROVE Kept
    BY <2>1, <2>4, <2>5, <2>8 DEF Upstream, StreamOpens, StreamBreaks, StreamCloses
  <2>9. ASSUME NEW r \in Requests, NEW chain \in Routes, Begin(r, chain) PROVE Kept
    BY <2>1, <2>9 DEF Begin
  <2>10. ASSUME NEW r \in Requests, NEW how \in {"canceled", "expired"}, Hangup(r, how)
         PROVE  Kept
    BY <2>1, <2>10 DEF Hangup
  <2> QED BY <2>6, <2>7, <2>8, <2>9, <2>10 DEF Next
<1>2. [Kept]_vars => [\A p \in Providers :
          (health[p].breaker = "open" /\ health'[p].breaker = "open")
          => health'[p].sinceOpened >= health[p].sinceOpened]_vars
  BY DEF OutageKept
<1> QED BY <1>1, <1>2, RouterTypeCorrect, PTL DEF Spec, OutageNotExtended

-----------------------------------------------------------------------------
(* The wait a provider asks for *)

\* Every Retry-After is covered by the tracker's default pauses.  The router drops
\* the header's value, so this is what its promise depends on.
WaitsWithinDefaults ==
    \A wait \in RetryAfters : wait <= RateLimitCooldown /\ wait <= PaymentRequiredCooldown

\* A provider is paused for at least as long as it still asks to be left alone.
PauseCovers == \A p \in Providers : asked[p] <= health[p].pause

\* What the tracker's operations do to a pause.
LEMMA PauseSteps ==
  ASSUME NEW h \in providerHealth
  PROVE  /\ h.pause \in Nat
         /\ Asked(h).pause = h.pause
         /\ RecordSuccess(h).pause = h.pause
         /\ Aged(h).pause = AtLeast(h.pause - 1, 0)
         /\ \A class \in ErrorClass, wait \in Nat :
               RecordFailure(h, class, wait).pause = AtLeast(h.pause, cooldownFor(class, wait))
         /\ Available(h) => h.pause = 0
<1>1. h.pause \in Nat /\ Asked(h).pause = h.pause /\ RecordSuccess(h).pause = h.pause
      /\ Aged(h).pause = AtLeast(h.pause - 1, 0)
  BY DEF providerHealth, Asked, RecordSuccess, Aged
<1>2. ASSUME NEW class \in ErrorClass, NEW wait \in Nat
      PROVE  RecordFailure(h, class, wait).pause = AtLeast(h.pause, cooldownFor(class, wait))
  <2> DEFINE k == Parked(h, class, wait)
  <2>1. k.pause = AtLeast(h.pause, cooldownFor(class, wait))
    BY DEF Parked, providerHealth
  <2>2. Counted(k).pause = k.pause
    <3>1. k \in [{"breaker", "consecutiveFailures", "sinceOpened", "probeInFlight",
                  "sinceProbe", "pause"} -> {k[f] : f \in DOMAIN k}]
      BY DEF Parked, providerHealth
    <3> HIDE DEF k
    <3> QED BY <3>1 DEF Counted
  <2> QED BY <2>1, <2>2 DEF RecordFailure
<1>3. Available(h) => h.pause = 0
  BY DEF Available, Probing
<1> QED BY <1>1, <1>2, <1>3
\* A failure pauses its provider for no less than it asked for.
LEMMA PauseAtLeastAsked ==
  ASSUME WaitsWithinDefaults, NEW class \in ErrorClass, NEW wait \in RetryAfters,
         NEW a \in Nat, NEW h \in providerHealth, a <= h.pause
  PROVE  AtLeast(a, cooldownFor(class, wait)) <=
            (IF countsAgainstHealth(class) THEN RecordFailure(h, class, 0) ELSE h).pause
<1>1. wait \in Nat /\ wait <= RateLimitCooldown /\ wait <= PaymentRequiredCooldown /\ 0 \in Nat
  BY DEF WaitsWithinDefaults
<1>2. cooldownFor(class, wait) \in Nat /\ cooldownFor(class, 0) \in Nat
      /\ cooldownFor(class, wait) <= cooldownFor(class, 0)
  BY <1>1 DEF cooldownFor, AtLeast
<1>3. CASE countsAgainstHealth(class)
  <2>1. RecordFailure(h, class, 0).pause = AtLeast(h.pause, cooldownFor(class, 0)) /\ h.pause \in Nat
    BY <1>1, PauseSteps
  <2> QED BY <1>2, <1>3, <2>1 DEF AtLeast
<1>4. CASE ~countsAgainstHealth(class)
  <2>1. cooldownFor(class, wait) = 0 /\ h.pause \in Nat
    BY <1>4, PauseSteps DEF countsAgainstHealth, cooldownFor
  <2> QED BY <1>4, <2>1 DEF AtLeast
<1> QED BY <1>3, <1>4

\* No request is offered a provider that asked to be left alone, as long as no
\* provider asks for more than the tracker's default: the successes and failures of
\* other calls, reported in any order, never shorten a pause.
THEOREM WaitsAreHonoured ==
  ASSUME WaitsWithinDefaults
  PROVE  Spec => WaitHonoured
<1>1. Init => PauseCovers
  BY DEF Init, PauseCovers, NewProvider
<1>2. TypeOK /\ InChain /\ PauseCovers /\ [Next]_vars => PauseCovers'
  <2> SUFFICES ASSUME TypeOK, InChain, PauseCovers, [Next]_vars PROVE PauseCovers'
    OBVIOUS
  <2>1. ASSUME UNCHANGED <<health, asked>> PROVE PauseCovers'
    BY <2>1 DEF PauseCovers
  <2>2. ASSUME NEW p \in Providers, NEW k, health' = [health EXCEPT ![p] = k],
               k.pause = health[p].pause, asked' = asked
        PROVE  PauseCovers'
    BY <2>2 DEF TypeOK, PauseCovers
  <2>3. ASSUME NEW r \in Requests, Ask(r) PROVE PauseCovers'
    <3> DEFINE p == route[r][at[r]]
    <3>1. p \in Providers
      BY <2>3, AskedIsProvider DEF Ask
    <3>2. Asked(health[p]).pause = health[p].pause
      BY <3>1, PauseSteps DEF TypeOK
    <3> HIDE DEF p
    <3>3. health' = [health EXCEPT ![p] = Asked(health[p])] /\ asked' = asked
      BY <2>3 DEF Ask, p
    <3> QED BY <2>2, <3>1, <3>2, <3>3
  <2>4. ASSUME NEW r \in Requests, ChatAnswers(r) \/ FirstChunk(r) PROVE PauseCovers'
    <3>1. current(r) \in Providers
      BY <2>4, CurrentIsProvider DEF ChatAnswers, FirstChunk
    <3>2. RecordSuccess(health[current(r)]).pause = health[current(r)].pause
      BY <3>1, PauseSteps DEF TypeOK
    <3> QED BY <2>2, <2>4, <3>1, <3>2 DEF ChatAnswers, FirstChunk
  <2>5. ASSUME NEW r \in Requests, NEW class \in Outcomes, NEW wait \in RetryAfters,
               Fails(r, class, wait)
        PROVE  PauseCovers'
    <3> DEFINE p == current(r)
               k == IF countsAgainstHealth(class) THEN RecordFailure(health[p], class, 0)
                    ELSE health[p]
               a == AtLeast(asked[p], cooldownFor(class, wait))
    <3>1. p \in Providers /\ class \in ErrorClass
      BY <2>5, CurrentIsProvider DEF Fails
    <3>2. a <= k.pause
      BY <3>1, PauseAtLeastAsked DEF TypeOK, PauseCovers
    <3>3. health' = [health EXCEPT ![p] = k] /\ asked' = [asked EXCEPT ![p] = a]
      BY <2>5 DEF Fails
    <3> HIDE DEF p, k, a
    <3> QED BY <3>1, <3>2, <3>3 DEF TypeOK, PauseCovers
  <2>6. ASSUME Tick PROVE PauseCovers'
    <3>1. ASSUME NEW p \in Providers PROVE asked'[p] <= health'[p].pause
      <4>1. asked[p] \in Nat /\ health[p].pause \in Nat /\ asked[p] <= health[p].pause
            /\ Aged(health[p]).pause = AtLeast(health[p].pause - 1, 0)
        BY PauseSteps DEF TypeOK, PauseCovers
      <4>2. health'[p] = Aged(health[p]) /\ asked'[p] = AtLeast(asked[p] - 1, 0)
        BY <2>6 DEF Tick
      <4> QED BY <4>1, <4>2 DEF AtLeast
    <3> QED BY <3>1 DEF PauseCovers
  <2>7. ASSUME NEW r \in Requests, Proceed(r) PROVE PauseCovers'
    BY <2>1, <2>3, <2>7
       DEF Proceed, NoneAvailable, Order, Exhausted, Abandoned, Call
  <2>8. ASSUME NEW r \in Requests, Upstream(r) PROVE PauseCovers'
    BY <2>1, <2>4, <2>5, <2>8 DEF Upstream, StreamOpens, StreamBreaks, StreamCloses
  <2>9. ASSUME NEW r \in Requests, NEW chain \in Routes, Begin(r, chain) PROVE PauseCovers'
    BY <2>1, <2>9 DEF Begin
  <2>10. ASSUME NEW r \in Requests, NEW how \in {"canceled", "expired"}, Hangup(r, how)
         PROVE  PauseCovers'
    BY <2>1, <2>10 DEF Hangup
  <2>11. CASE UNCHANGED vars
    BY <2>1, <2>11 DEF vars
  <2> QED BY <2>6, <2>7, <2>8, <2>9, <2>10, <2>11 DEF Next
<1> DEFINE Honoured == \A r \in Requests, p \in Providers :
              (pc[r] = "asking" /\ order'[r] = Append(order[r], p)) => asked[p] = 0
<1>3. TypeOK /\ TypeOK' /\ InChain /\ PauseCovers /\ [Next]_vars => [Honoured]_vars
  <2> SUFFICES ASSUME TypeOK, TypeOK', PauseCovers, Next,
                      NEW r \in Requests, NEW p \in Providers,
                      pc[r] = "asking", order'[r] = Append(order[r], p)
               PROVE  asked[p] = 0
    OBVIOUS
  <2>1. order[r] \in Seq(Providers) /\ Len(order'[r]) = Len(order[r]) + 1
        /\ order'[r][Len(order[r]) + 1] = p
    BY AppendProperties DEF TypeOK
  <2>2. order'[r] # order[r] /\ order'[r] # <<>>
    BY <2>1, LenProperties, EmptySeq
  <2>3. ~Order(r)
    <3> SUFFICES ASSUME Order(r) PROVE FALSE
      OBVIOUS
    <3>1. PICK o \in orders(order[r], route[r]) : order' = [order EXCEPT ![r] = o]
      BY DEF Order
    <3>2. Len(o) = Len(order[r])
      <4>1. Len(order[r]) \in Nat /\ route[r] \in Routes
        BY <2>1, LenProperties DEF TypeOK
      <4>2. o = order[r] \/ DOMAIN o = 1..Len(order[r])
        BY <4>1, RouterAssumption DEF orders, rotated
      <4>3. o \in Seq(Providers)
        BY <3>1 DEF TypeOK
      <4> QED BY <4>1, <4>2, <4>3, LenProperties
    <3> QED BY <2>1, <3>1, <3>2, LenProperties DEF TypeOK
  <2>4. Ask(r)
    <3>1. order' # order
      BY <2>2
    <3>2. ASSUME NEW q \in Requests, NEW o, order' = [order EXCEPT ![q] = o]
          PROVE  q = r /\ o # <<>>
      BY <2>2, <3>2 DEF TypeOK
    <3>3. \A q \in Requests : ~Ended(q)
      BY <3>2 DEF Ended
    <3>4. \A q \in Requests, chain \in Routes : ~Begin(q, chain)
      BY <3>2 DEF Begin
    <3>5. ASSUME NEW q \in Requests, Ask(q) PROVE q = r
      BY <3>2, <3>5 DEF Ask
    <3>6. ASSUME NEW q \in Requests, Order(q) PROVE q = r
      BY <3>2, <3>6 DEF Order
    <3>7. ASSUME NEW q \in Requests, Proceed(q) PROVE Ask(r)
      BY <2>3, <3>1, <3>3, <3>5, <3>6, <3>7
         DEF Proceed, NoneAvailable, Exhausted, Abandoned, Call
    <3>8. ASSUME NEW q \in Requests, Upstream(q) PROVE FALSE
      BY <3>1, <3>3, <3>8
         DEF Upstream, ChatAnswers, StreamOpens, Fails, FirstChunk, StreamBreaks, StreamCloses
    <3>9. ~Tick /\ \A q \in Requests, how \in {"canceled", "expired"} : ~Hangup(q, how)
      BY <3>1 DEF Tick, Hangup, request
    <3> QED BY <3>4, <3>7, <3>8, <3>9 DEF Next
  <2>5. asked[p] \in Nat /\ health[p] \in providerHealth /\ asked[p] <= health[p].pause
    BY DEF TypeOK, PauseCovers
  <2>6. Available(health[p])
    BY <2>1, <2>2, <2>4, AppendProperties, SMTT(30) DEF Ask, TypeOK
  <2> QED BY <2>5, <2>6, PauseSteps
<1> QED BY <1>1, <1>2, <1>3, RouterTypeCorrect, PTL DEF Spec, WaitHonoured
=============================================================================
