--------------------------- MODULE EnforcerProofs ---------------------------
(***************************************************************************)
(* The enforcer's invariants for every configuration: any tenants, limits, *)
(* estimates, costs and window lengths, any number of reservations,        *)
(* crashes and failed writes.  First the reservations, the window starts   *)
(* and the store; then what the enforcer does with a tenant's money and    *)
(* rate: the overshoot bound of internal/budget/types.go, the account of   *)
(* what was spent, the request rate, and the refinement of the account     *)
(* that the package promises.  Each part strengthens its property to an    *)
(* inductive one and says above it what the property alone lacks.          *)
(***************************************************************************)
EXTENDS EnforcerAccount, SumsProofs, SequenceTheorems, FiniteSetTheorems

USE ConstantsAssumption

\* What stateFor returns: counters whose budget windows have not expired, that
\* differ from the stored ones only by windows that were cleared, and that hold
\* the same committed amount.
LEMMA StateForFacts ==
  ASSUME TypeOK, NEW t \in Tenants
  PROVE  /\ stateFor(t) \in TenantState
         /\ stateFor(t).committed = CommittedOf(t)
<1>1. CASE state[t] = Absent
  BY <1>1 DEF TypeOK, stateFor, FreshState, CommittedOf, TenantState, Window
<1>2. CASE state[t] # Absent
  <2>1. state[t] \in TenantState
    BY <1>2 DEF TypeOK
  <2>2. Rolled(state[t]) \in TenantState
    BY <2>1 DEF TypeOK, Rolled, TenantState, expired, Window
  <2>3. Rolled(state[t]).committed = state[t].committed
    BY DEF Rolled
  <2> QED BY <1>2, <2>2, <2>3 DEF stateFor, CommittedOf
<1> QED BY <1>1, <1>2

\* An issued reservation is one, and its tenant is a tenant.
LEMMA IssuedFacts ==
  ASSUME TypeOK, NEW id \in 1..Len(issued)
  PROVE  /\ issued[id] \in Reservation
         /\ issued[id].tenant \in Tenants
         /\ issued[id].usd \in Nat
         /\ issued[id].tokens \in Nat
<1>1. issued[id] \in Reservation
  BY DEF TypeOK
<1> QED BY <1>1 DEF Reservation

\* What Settle does to a tenant's counters.
LEMMA SettledFacts ==
  ASSUME NEW st \in TenantState, NEW r \in Reservation, NEW use \in Amount
  PROVE  LET new == Settled(st, r, use)
         IN  /\ new \in TenantState
             /\ new.committed = monus(st.committed, r.usd)
             /\ new.spent = [w \in Window |-> st.spent[w] + use.usd]
             /\ new.start = st.start
<1> DEFINE new == Settled(st, r, use)
<1>1. /\ new.committed = monus(st.committed, r.usd)
      /\ new.spent = [w \in Window |-> st.spent[w] + use.usd]
      /\ new.start = st.start
      /\ new.tokens = monus(st.tokens + use.tokens, r.tokens)
      /\ new.requests = st.requests
      /\ new.requestsAt = st.requestsAt
      /\ new.tokensAt = st.tokensAt
  BY DEF Settled, TenantState
<1>2. monus(st.committed, r.usd) \in Nat /\ monus(st.tokens + use.tokens, r.tokens) \in Nat
  BY DEF monus, TenantState, Reservation, Amount
<1>3. [w \in Window |-> st.spent[w] + use.usd] \in [Window -> Nat]
  BY DEF TenantState, Amount
<1>4. new = [st EXCEPT !.committed = monus(st.committed, r.usd),
                       !.spent     = [w \in Window |-> st.spent[w] + use.usd],
                       !.tokens    = monus(st.tokens + use.tokens, r.tokens)]
  BY DEF Settled
<1>5. new \in TenantState
  BY <1>2, <1>3, <1>4 DEF TenantState
<1> QED BY <1>1, <1>5

-----------------------------------------------------------------------------
(* Type correctness *)

\* Every counter, sequence number and row keeps its type: in particular no
\* counter the code clamps at zero ever needs a negative value.
THEOREM TypeCorrect == Spec => []TypeOK
<1>1. Init => TypeOK
  BY DEF Init, TypeOK
<1>2. TypeOK /\ [Next]_vars => TypeOK'
  <2> SUFFICES ASSUME TypeOK, [Next]_vars PROVE TypeOK'
    OBVIOUS
  <2>1. CASE UNCHANGED vars
    BY <2>1 DEF vars, memory, writing, history, TypeOK
  <2>2. ASSUME NEW t \in Tenants, ReserveBlind(t) PROVE TypeOK'
    BY <2>2 DEF ReserveBlind, vars, memory, writing, history, TypeOK
  <2>3. ASSUME NEW t \in Tenants, NEW est \in Estimates, ReserveDenied(t, est)
        PROVE TypeOK'
    BY <2>3, StateForFacts DEF ReserveDenied, writing, history, TypeOK
  <2>4. ASSUME NEW t \in Tenants, NEW est \in Estimates, ReserveAdmitted(t, est)
        PROVE TypeOK'
    <3> DEFINE st == stateFor(t)
               r  == [tenant |-> t, usd |-> est.usd, tokens |-> est.tokens,
                      issuedAt |-> clock]
    <3>1. st \in TenantState /\ est \in Amount /\ clock \in Nat
      BY StateForFacts DEF TypeOK
    <3>2. [st EXCEPT !.committed = st.committed + est.usd,
                     !.requests  = st.requests + 1,
                     !.tokens    = st.tokens + est.tokens] \in TenantState
      <4> HIDE DEF st
      <4>1. est.usd \in Nat /\ est.tokens \in Nat
        BY <3>1 DEF Amount
      <4>2. /\ st.committed + est.usd \in Nat
            /\ st.requests + 1 \in Nat
            /\ st.tokens + est.tokens \in Nat
        BY <3>1, <4>1 DEF TenantState
      <4> QED BY <3>1, <4>2 DEF TenantState
    <3>3. state' \in [Tenants -> TenantState \cup {Absent}]
      BY <2>4, <3>2 DEF ReserveAdmitted, TypeOK
    <3>4. r \in Reservation
      BY <3>1 DEF Reservation, Amount
    <3>5. issued' = Append(issued, r)
      BY <2>4 DEF ReserveAdmitted
    <3>6. issued' \in Seq(Reservation) /\ Len(issued') = Len(issued) + 1
      BY <3>4, <3>5, AppendProperties DEF TypeOK
    <3>7. done' \in SUBSET (1..Len(issued'))
      BY <2>4, <3>6, LenProperties DEF ReserveAdmitted, TypeOK
    <3>8. over' \in [Tenants -> Int]
      BY <2>4 DEF ReserveAdmitted, TypeOK
    <3> QED BY <2>4, <3>3, <3>6, <3>7, <3>8 DEF ReserveAdmitted, writing, TypeOK
  <2>5. ASSUME NEW t \in Tenants, Read(t) PROVE TypeOK'
    BY <2>5, StateForFacts DEF Read, writing, history, TypeOK
  <2>6. ASSUME NEW id \in 1..Len(issued), NEW use \in Usages, Settle(id, use)
        PROVE TypeOK'
    <3> DEFINE r   == issued[id]
               st0 == stateFor(r.tenant)
               st  == Settled(st0, r, use)
               b   == [id |-> id, tenant |-> r.tenant, usd |-> use.usd,
                       tokens |-> use.tokens, at |-> clock, start |-> st.start]
    <3>1. r \in Reservation /\ use \in Amount /\ r.tenant \in Tenants
      BY IssuedFacts
    <3>2. st0 \in TenantState
      BY <3>1, StateForFacts
    <3>3. /\ st \in TenantState
          /\ [spent |-> st.spent, start |-> st.start] \in Row
      <4>1. st \in TenantState
        BY <3>1, <3>2, SettledFacts
      <4> HIDE DEF st
      <4> QED BY <4>1 DEF TenantState, Row
    <3>4. state' \in [Tenants -> TenantState \cup {Absent}]
      BY <2>6, <3>3 DEF Settle, TypeOK
    <3>5. seq' \in [Tenants -> Nat] /\ pending' \in SUBSET Snapshot
      <4>1. CASE HasStore
        <5> DEFINE row == [spent |-> st.spent, start |-> st.start]
                   p   == [tenant |-> r.tenant, seq |-> seq[r.tenant] + 1, row |-> row]
        <5>1. /\ seq' = [seq EXCEPT ![r.tenant] = seq[r.tenant] + 1]
              /\ pending' = pending \cup {p}
          BY <2>6, <4>1 DEF Settle
        <5> HIDE DEF st, r, row
        <5>2. seq[r.tenant] + 1 \in Nat
          BY <3>1 DEF TypeOK
        <5>3. p \in Snapshot
          BY <3>1, <3>3, <5>2 DEF Snapshot, row
        <5> QED BY <5>1, <5>2, <5>3 DEF TypeOK
      <4>2. CASE ~HasStore
        BY <2>6, <4>2 DEF Settle, TypeOK
      <4> QED BY <4>1, <4>2
    <3>6. over' \in [Tenants -> Int]
      <4>1. use.usd \in Nat /\ r.usd \in Nat /\ over[r.tenant] \in Int
        BY <3>1, IssuedFacts DEF Amount, TypeOK
      <4>2. over' = [over EXCEPT ![r.tenant] = over[r.tenant] + use.usd - r.usd]
        BY <2>6 DEF Settle
      <4>3. over \in [Tenants -> Int] /\ r.tenant \in Tenants
        BY <3>1 DEF TypeOK
      <4> HIDE DEF r
      <4> QED BY <4>1, <4>2, <4>3
    <3>7. bills' \in Seq(Bill)
      <4>1. b \in Bill
        <5>1. st.start \in [Window -> Nat]
          BY <3>3 DEF Row
        <5> HIDE DEF st
        <5> QED BY <3>1, <5>1 DEF Bill, Amount, TypeOK
      <4>2. bills' = Append(bills, b)
        BY <2>6 DEF Settle
      <4> QED BY <4>1, <4>2, AppendProperties DEF TypeOK
    <3>8. done' \in SUBSET (1..Len(issued')) /\ issued' = issued
      BY <2>6 DEF Settle, TypeOK
    <3> QED BY <2>6, <3>4, <3>5, <3>6, <3>7, <3>8 DEF Settle, TypeOK
  <2>7. ASSUME NEW id \in 1..Len(issued), Release(id) PROVE TypeOK'
    <3> DEFINE r  == issued[id]
               st == stateFor(r.tenant)
    <3>1. r \in Reservation /\ r.tenant \in Tenants
      BY IssuedFacts
    <3>2. st \in TenantState
      BY <3>1, StateForFacts
    <3>3. [st EXCEPT !.committed = monus(st.committed, r.usd)] \in TenantState
      <4>1. r.usd \in Nat
        BY IssuedFacts
      <4> HIDE DEF st, r
      <4>2. monus(st.committed, r.usd) \in Nat
        BY <3>2, <4>1 DEF TenantState, monus
      <4> QED BY <3>2, <4>2 DEF TenantState
    <3>4. state' \in [Tenants -> TenantState \cup {Absent}]
      BY <2>7, <3>3 DEF Release, TypeOK
    <3> QED BY <2>7, <3>4 DEF Release, writing, history, TypeOK
  <2>8. ASSUME NEW id \in 1..Len(issued), CloseAgain(id) PROVE TypeOK'
    BY <2>8 DEF CloseAgain, vars, memory, writing, history, TypeOK
  <2>9. ASSUME NEW p \in pending, PersistStale(p) PROVE TypeOK'
    BY <2>9 DEF PersistStale, memory, history, TypeOK
  <2>10. ASSUME NEW p \in pending, PersistSaved(p) PROVE TypeOK'
    <3>1. p \in Snapshot
      BY DEF TypeOK
    <3> QED BY <2>10, <3>1 DEF PersistSaved, memory, history, TypeOK, Snapshot
  <2>11. ASSUME NEW p \in pending, PersistFailed(p) PROVE TypeOK'
    BY <2>11 DEF PersistFailed, memory, history, TypeOK
  <2>12. ASSUME setStoreHealthy PROVE TypeOK'
    BY <2>12 DEF setStoreHealthy, memory, history, TypeOK
  <2>13. ASSUME Tick PROVE TypeOK'
    BY <2>13 DEF Tick, memory, writing, history, TypeOK
  <2>14. ASSUME NEW conf \in SUBSET Tenants, Restart(conf) PROVE TypeOK'
    <3>1. ASSUME NEW t \in Tenants
          PROVE  RestoredState(t, conf) \in TenantState \cup {Absent}
      BY DEF RestoredState, TypeOK, TenantState, Row
    <3>2. state' \in [Tenants -> TenantState \cup {Absent}]
      BY <2>14, <3>1 DEF Restart
    <3> QED BY <2>14, <3>2 DEF Restart, TypeOK
  <2> QED
    BY <2>1, <2>2, <2>3, <2>4, <2>5, <2>6, <2>7, <2>8, <2>9, <2>10, <2>11, <2>12,
       <2>13, <2>14 DEF Next, Reserve, Close, Persist
<1> QED BY <1>1, <1>2, PTL DEF Spec

-----------------------------------------------------------------------------
(* The committed amount is the open claims *)

\* The open claims are naturals, so each is at most their sum.
LEMMA OpenClaimsFacts ==
  ASSUME TypeOK, NEW t \in Tenants
  PROVE  /\ Len(issued) \in Nat
         /\ OpenClaims(t) \in [1..Len(issued) -> Nat]
         /\ OpenClaims(t) \in [1..Len(issued) -> Int]
         /\ \A i \in 1..Len(issued) :
               OpenClaims(t)[i] = IF issued[i].tenant = t /\ i \notin done
                                  THEN issued[i].usd ELSE 0
<1>1. Len(issued) \in Nat
  BY LenProperties DEF TypeOK
<1>2. \A i \in 1..Len(issued) : issued[i].usd \in Nat
  BY IssuedFacts
<1> QED BY <1>1, <1>2 DEF OpenClaims

\* A step that leaves the reservations and every committed amount alone.
LEMMA CommittedKept ==
  ASSUME CommittedIsOpenClaims, UNCHANGED <<issued, done>>,
         \A t \in Tenants : CommittedOf(t)' = CommittedOf(t)
  PROVE  CommittedIsOpenClaims'
BY DEF CommittedIsOpenClaims, OpenClaims

\* A step that closes one open reservation and gives its claim back.
LEMMA CommittedClosed ==
  ASSUME TypeOK, CommittedIsOpenClaims,
         NEW id \in 1..Len(issued), id \notin done,
         done' = done \cup {id}, issued' = issued,
         NEW new \in TenantState,
         state' = [state EXCEPT ![issued[id].tenant] = new],
         new.committed = monus(CommittedOf(issued[id].tenant), issued[id].usd)
  PROVE  /\ CommittedIsOpenClaims'
         /\ issued[id].usd <= CommittedOf(issued[id].tenant)
<1> DEFINE n == Len(issued)
           u == issued[id].tenant
<1>1. u \in Tenants /\ issued[id].usd \in Nat /\ n \in Nat
  BY IssuedFacts, OpenClaimsFacts
<1>2. /\ OpenClaims(u)[id] = issued[id].usd
      /\ CommittedOf(u) = SumTo(OpenClaims(u), n)
      /\ issued[id].usd <= CommittedOf(u)
      /\ CommittedOf(u) \in Nat
  <2>1. OpenClaims(u) \in [1..n -> Nat] /\ OpenClaims(u)[id] = issued[id].usd
    BY <1>1, OpenClaimsFacts
  <2>2. CommittedOf(u) = SumTo(OpenClaims(u), n)
    BY <1>1 DEF CommittedIsOpenClaims
  <2> HIDE DEF n, u
  <2>3. id \in 1..n
    BY DEF n
  <2> QED BY <1>1, <2>1, <2>2, <2>3, SumOfNaturals
<1>3. ASSUME NEW t \in Tenants
      PROVE  /\ OpenClaims(t)' \in [1..n -> Int]
             /\ \A i \in 1..n : i # id => OpenClaims(t)'[i] = OpenClaims(t)[i]
             /\ t # u => OpenClaims(t)'[id] = OpenClaims(t)[id]
             /\ OpenClaims(u)'[id] = 0
  <2>1. \A i \in 1..Len(issued) : issued[i].usd \in Nat
    BY IssuedFacts
  <2> QED BY <2>1 DEF OpenClaims
<1>4. ASSUME NEW t \in Tenants PROVE CommittedOf(t)' = SumTo(OpenClaims(t)', n)
  <2>1. CASE t = u
    <3> DEFINE f == OpenClaims(u)
               g == OpenClaims(u)'
    <3>1. /\ f \in [1..n -> Int] /\ g \in [1..n -> Int]
          /\ \A i \in 1..n : i # id => g[i] = f[i]
          /\ g[id] = 0 /\ f[id] = issued[id].usd /\ id \in 1..n
      BY <1>1, <1>2, <1>3, OpenClaimsFacts
    <3>2. SumTo(g, n) = SumTo(f, n) + g[id] - f[id]
      <4>1. n \in Nat /\ id \in 1..n
        BY <1>1
      <4> HIDE DEF f, g, n, u
      <4> QED BY ONLY <4>1, <3>1, SumUpdate
    <3>3. CommittedOf(u)' = new.committed
      BY <1>1 DEF CommittedOf, TypeOK
    <3>4. new.committed = CommittedOf(u) - issued[id].usd
      BY <1>1, <1>2 DEF monus
    <3>5. SumTo(g, n) = CommittedOf(u) - issued[id].usd
      <4> HIDE DEF f, g, n, u
      <4>1. CommittedOf(u) = SumTo(f, n)
        BY <1>2 DEF f, n
      <4> QED BY <3>1, <3>2, <4>1, <1>1, <1>2
    <3> QED BY <2>1, <3>3, <3>4, <3>5
  <2>2. CASE t # u
    <3>1. CommittedOf(t)' = CommittedOf(t)
      BY <1>1, <2>2 DEF CommittedOf, TypeOK
    <3>2. CommittedOf(t) = SumTo(OpenClaims(t), n)
      BY DEF CommittedIsOpenClaims
    <3> DEFINE f == OpenClaims(t)
               g == OpenClaims(t)'
    <3>3. f \in [1..n -> Int] /\ g \in [1..n -> Int] /\ \A i \in 1..n : g[i] = f[i]
      BY <1>3, <2>2, OpenClaimsFacts
    <3>4. SumTo(g, n) = SumTo(f, n)
      <4> HIDE DEF f, g, n
      <4> QED BY <1>1, <3>3, SumEqual
    <3> QED BY <3>1, <3>2, <3>4
  <2> QED BY <2>1, <2>2
<1> QED BY <1>2, <1>4 DEF CommittedIsOpenClaims

\* The committed amount of every tenant is, in every reachable state, exactly
\* the sum of the estimates of its open reservations.
THEOREM CommittedCorrect == Spec => []CommittedIsOpenClaims
<1>1. Init => CommittedIsOpenClaims
  <2> SUFFICES ASSUME Init, NEW t \in Tenants
               PROVE  CommittedOf(t) = SumTo(OpenClaims(t), Len(issued))
    BY DEF CommittedIsOpenClaims
  <2>1. CommittedOf(t) = 0 /\ Len(issued) = 0
    BY DEF Init, CommittedOf
  <2> QED BY <2>1, SumOfNone
<1>2. TypeOK /\ TypeOK' /\ CommittedIsOpenClaims /\ [Next]_vars => CommittedIsOpenClaims'
  <2> SUFFICES ASSUME TypeOK, TypeOK', CommittedIsOpenClaims, [Next]_vars
               PROVE  CommittedIsOpenClaims'
    OBVIOUS
  <2>1. ASSUME UNCHANGED <<state, issued, done>> PROVE CommittedIsOpenClaims'
    BY <2>1, CommittedKept DEF CommittedOf
  <2>2. ASSUME NEW t \in Tenants, state' = [state EXCEPT ![t] = stateFor(t)],
               UNCHANGED <<issued, done>>
        PROVE  CommittedIsOpenClaims'
    <3>1. \A v \in Tenants : CommittedOf(v)' = CommittedOf(v)
      <4>1. stateFor(t) # Absent /\ stateFor(t).committed = CommittedOf(t)
        BY StateForFacts
      <4> QED BY <2>2, <4>1 DEF CommittedOf, TypeOK
    <3> QED BY <2>2, <3>1, CommittedKept
  <2>3. ASSUME NEW t \in Tenants, NEW est \in Estimates, ReserveAdmitted(t, est)
        PROVE  CommittedIsOpenClaims'
    <3> DEFINE n   == Len(issued)
               st  == stateFor(t)
               r   == [tenant |-> t, usd |-> est.usd, tokens |-> est.tokens,
                       issuedAt |-> clock]
               new == [st EXCEPT !.committed = st.committed + est.usd,
                                 !.requests  = st.requests + 1,
                                 !.tokens    = st.tokens + est.tokens]
    <3>1. n \in Nat /\ est.usd \in Nat /\ st \in TenantState
          /\ st.committed = CommittedOf(t)
      BY OpenClaimsFacts, StateForFacts DEF Amount
    <3>2. new.committed = CommittedOf(t) + est.usd /\ new # Absent
      <4>1. new.committed = st.committed + est.usd
        <5> HIDE DEF st
        <5> QED BY <3>1 DEF TenantState
      <4>2. new # Absent
        <5>1. state'[t] = new
          BY <2>3 DEF ReserveAdmitted, TypeOK
        <5> HIDE DEF st
        <5>2. new \in TenantState
          <6>1. /\ st.committed + est.usd \in Nat
                /\ st.requests + 1 \in Nat
                /\ st.tokens + est.tokens \in Nat
            BY <3>1, SMTT(30) DEF TenantState, Amount
          <6> QED BY <3>1, <6>1 DEF TenantState
        <5> QED BY <5>2
      <4> QED BY <3>1, <4>1, <4>2
    <3>3. issued' = Append(issued, r) /\ state' = [state EXCEPT ![t] = new] /\ done' = done
      BY <2>3 DEF ReserveAdmitted
    <3>4. /\ Len(issued') = n + 1
          /\ \A i \in 1..n : issued'[i] = issued[i]
          /\ issued'[n+1] = r
      BY <3>3 DEF TypeOK
    <3>5. n + 1 \notin done
      BY <3>1 DEF TypeOK
    <3>6. ASSUME NEW v \in Tenants
          PROVE  CommittedOf(v)' = SumTo(OpenClaims(v)', n + 1)
      <4> DEFINE f == OpenClaims(v)
                 g == OpenClaims(v)'
      <4>1. f \in [1..n -> Int] /\ CommittedOf(v) = SumTo(f, n)
        BY OpenClaimsFacts DEF CommittedIsOpenClaims
      <4>2. g \in [1..(n+1) -> Int] /\ \A i \in 1..n : g[i] = f[i]
        <5>1. \A i \in 1..(n+1) : issued'[i].usd \in Int
          BY <3>1, <3>4, IssuedFacts
        <5> QED BY <5>1, <3>3, <3>4 DEF OpenClaims
      <4>3. g[n+1] = IF v = t THEN est.usd ELSE 0
        BY <3>1, <3>3, <3>4, <3>5 DEF OpenClaims
      <4>4. SumTo(g, n+1) = SumTo(f, n) + g[n+1]
        <5> HIDE DEF f, g, n
        <5> QED BY <3>1, <4>1, <4>2, SumExtend
      <4>5. CommittedOf(v)' = CommittedOf(v) + (IF v = t THEN est.usd ELSE 0)
        <5>1. CASE v = t
          BY <5>1, <3>2, <3>3 DEF CommittedOf, TypeOK
        <5>2. CASE v # t
          <6>1. CommittedOf(v)' = CommittedOf(v)
            BY <5>2, <3>3 DEF CommittedOf, TypeOK
          <6>2. CommittedOf(v) \in Nat
            BY StateForFacts DEF TenantState
          <6> QED BY <5>2, <6>1, <6>2
        <5> QED BY <5>1, <5>2
      <4> QED BY <4>1, <4>3, <4>4, <4>5
    <3> QED BY <3>4, <3>6 DEF CommittedIsOpenClaims
  <2>4. ASSUME NEW id \in 1..Len(issued), NEW use \in Usages, Settle(id, use)
        PROVE  CommittedIsOpenClaims'
    <3> DEFINE r   == issued[id]
               new == Settled(stateFor(r.tenant), r, use)
    <3>1. r \in Reservation /\ r.tenant \in Tenants /\ use \in Amount
      BY IssuedFacts
    <3>2. new \in TenantState /\ new.committed = monus(CommittedOf(r.tenant), r.usd)
      <4>1. stateFor(r.tenant) \in TenantState
            /\ stateFor(r.tenant).committed = CommittedOf(r.tenant)
        BY <3>1, StateForFacts
      <4>2. new \in TenantState
            /\ new.committed = monus(stateFor(r.tenant).committed, r.usd)
        BY <3>1, <4>1, SettledFacts
      <4> QED BY <4>1, <4>2
    <3>3. /\ id \notin done /\ done' = done \cup {id} /\ issued' = issued
          /\ state' = [state EXCEPT ![issued[id].tenant] = new]
      BY <2>4 DEF Settle, Open
    <3> HIDE DEF new
    <3> QED BY <3>2, <3>3, CommittedClosed
  <2>5. ASSUME NEW id \in 1..Len(issued), Release(id) PROVE CommittedIsOpenClaims'
    <3> DEFINE r   == issued[id]
               st  == stateFor(r.tenant)
               new == [st EXCEPT !.committed = monus(st.committed, r.usd)]
    <3>1. r.tenant \in Tenants /\ r.usd \in Nat
      BY IssuedFacts
    <3>2. st \in TenantState /\ st.committed = CommittedOf(r.tenant)
      BY <3>1, StateForFacts
    <3>3. new \in TenantState /\ new.committed = monus(CommittedOf(r.tenant), r.usd)
      <4> HIDE DEF st, r
      <4>1. monus(st.committed, r.usd) \in Nat
        BY <3>1, <3>2 DEF TenantState, monus
      <4> QED BY <3>2, <4>1 DEF TenantState
    <3>4. /\ id \notin done /\ done' = done \cup {id} /\ issued' = issued
          /\ state' = [state EXCEPT ![issued[id].tenant] = new]
      BY <2>5 DEF Release, Open
    <3> HIDE DEF new
    <3> QED BY <3>3, <3>4, CommittedClosed
  <2>6. ASSUME NEW conf \in SUBSET Tenants, Restart(conf) PROVE CommittedIsOpenClaims'
    <3> SUFFICES ASSUME NEW t \in Tenants
                 PROVE  CommittedOf(t)' = SumTo(OpenClaims(t)', Len(issued'))
      BY DEF CommittedIsOpenClaims
    <3>1. Len(issued') = 0
      BY <2>6 DEF Restart
    <3>2. CommittedOf(t)' = 0
      BY <2>6 DEF Restart, RestoredState, CommittedOf
    <3> QED BY <3>1, <3>2, SumOfNone
  <2>7. CASE UNCHANGED vars
    BY <2>1, <2>7 DEF vars, memory
  <2>8. ASSUME NEW t \in Tenants, Reserve(t) \/ Read(t) PROVE CommittedIsOpenClaims'
    BY <2>1, <2>2, <2>3, <2>8
       DEF Reserve, ReserveBlind, ReserveDenied, Read, vars, memory
  <2>9. ASSUME NEW id \in 1..Len(issued), Close(id) PROVE CommittedIsOpenClaims'
    BY <2>1, <2>4, <2>5, <2>9 DEF Close, CloseAgain, vars, memory
  <2>10. ASSUME NEW p \in pending, Persist(p) PROVE CommittedIsOpenClaims'
    BY <2>1, <2>10 DEF Persist, PersistStale, PersistSaved, PersistFailed, memory
  <2>11. ASSUME setStoreHealthy \/ Tick PROVE CommittedIsOpenClaims'
    BY <2>1, <2>11 DEF setStoreHealthy, Tick, memory
  <2> QED BY <2>6, <2>7, <2>8, <2>9, <2>10, <2>11 DEF Next
<1> QED BY <1>1, <1>2, TypeCorrect, PTL DEF Spec

-----------------------------------------------------------------------------
(* Rows only move forward *)

\* a is an earlier view of the totals b: of an earlier window, that had ended
\* when b's began, or of the same one with no more in it.
Before(a, b) ==
    \A w \in Window : \/ a.start[w] + WindowLength[w] <= b.start[w]
                      \/ a.start[w] = b.start[w] /\ a.spent[w] <= b.spent[w]

IsRow(a) == a.spent \in [Window -> Nat] /\ a.start \in [Window -> Nat]

IssuedConfigured == \A i \in 1..Len(issued) : issued[i].tenant \in configured

StartsInPast ==
    /\ \A t \in Tenants, w \in Window : state[t] # Absent => state[t].start[w] <= clock
    /\ \A t \in Tenants, w \in Window : store[t] # Absent => store[t].start[w] <= clock

\* A snapshot on its way to the store, and the row in the store, are earlier
\* views of the counters in memory.
RowsBeforeMemory ==
    /\ \A p \in pending : /\ HasStore
                          /\ p.tenant \in configured
                          /\ state[p.tenant] # Absent
                          /\ Before(p.row, state[p.tenant])
                          /\ p.seq <= seq[p.tenant]
    /\ \A t \in Tenants : store[t] # Absent => HasStore
    /\ \A t \in configured : store[t] # Absent =>
          state[t] # Absent /\ Before(store[t], state[t])

\* Snapshots of one tenant are ordered by their sequence numbers, and the ones
\* persist will not drop are later views than the row in the store.
RowsInSequence ==
    /\ \A p, q \in pending : (p.tenant = q.tenant /\ p.seq < q.seq) => Before(p.row, q.row)
    /\ \A p \in pending : (p.seq > written[p.tenant] /\ store[p.tenant] # Absent)
                             => Before(store[p.tenant], p.row)

StoreInv == IssuedConfigured /\ StartsInPast /\ RowsBeforeMemory /\ RowsInSequence

\* Rows, snapshots' rows and counters are all rows.
LEMMA RowTypes ==
  ASSUME TypeOK
  PROVE  /\ \A t \in Tenants : state[t] # Absent => IsRow(state[t])
         /\ \A t \in Tenants : store[t] # Absent => IsRow(store[t])
         /\ \A p \in pending : IsRow(p.row) /\ p.tenant \in Tenants /\ p.seq \in Nat
         /\ \A t \in Tenants : IsRow(stateFor(t))
<1>1. \A t \in Tenants : state[t] # Absent => IsRow(state[t])
  BY DEF TypeOK, TenantState, IsRow
<1>2. \A t \in Tenants : store[t] # Absent => IsRow(store[t])
  BY DEF TypeOK, Row, IsRow
<1>3. \A p \in pending : IsRow(p.row) /\ p.tenant \in Tenants /\ p.seq \in Nat
  BY DEF TypeOK, Snapshot, Row, IsRow
<1>4. ASSUME NEW t \in Tenants PROVE IsRow(stateFor(t))
  <2>1. stateFor(t) \in TenantState
    BY StateForFacts
  <2> QED BY <2>1 DEF TenantState, IsRow
<1> QED BY <1>1, <1>2, <1>3, <1>4

\* What stateFor returns is current: its windows hold now, and each either is
\* the stored one, not expired, or has just been cleared.
LEMMA StateForCurrent ==
  ASSUME TypeOK, StartsInPast, NEW t \in Tenants, NEW w \in Window
  PROVE  /\ stateFor(t).start[w] <= clock
         /\ clock - stateFor(t).start[w] < WindowLength[w]
         /\ \/ stateFor(t).spent[w] = 0 /\ stateFor(t).start[w] = clock
            \/ /\ state[t] # Absent
               /\ ~expired(state[t].start[w], WindowLength[w])
               /\ stateFor(t).spent[w] = state[t].spent[w]
               /\ stateFor(t).start[w] = state[t].start[w]
         /\ state[t] # Absent =>
               \/ state[t].start[w] + WindowLength[w] <= stateFor(t).start[w]
               \/ /\ stateFor(t).spent[w] = state[t].spent[w]
                  /\ stateFor(t).start[w] = state[t].start[w]
<1>1. clock \in Nat /\ WindowLength[w] \in Nat /\ WindowLength[w] > 0
  BY DEF TypeOK
<1>2. CASE state[t] = Absent
  BY <1>1, <1>2 DEF stateFor, FreshState
<1>3. CASE state[t] # Absent
  <2>1. state[t].start[w] \in Nat /\ state[t].start[w] <= clock
    BY <1>3, RowTypes DEF IsRow, StartsInPast
  <2> QED BY <1>1, <1>3, <2>1 DEF stateFor, Rolled, expired
<1> QED BY <1>2, <1>3

\* Being an earlier view is transitive and survives an update of the counters.
LEMMA BeforeTrans ==
  ASSUME NEW a, NEW b, NEW c, IsRow(a), IsRow(b), IsRow(c), Before(a, b), Before(b, c)
  PROVE  Before(a, c)
<1>1. \A w \in Window : WindowLength[w] \in Nat
  OBVIOUS
<1>2. \A w \in Window : /\ a.start[w] \in Nat /\ b.start[w] \in Nat /\ c.start[w] \in Nat
                        /\ a.spent[w] \in Nat /\ b.spent[w] \in Nat /\ c.spent[w] \in Nat
  BY DEF IsRow
<1> QED BY <1>1, <1>2 DEF Before

\* Every update starts from stateFor and only adds to what was spent.
Advances(t, new) ==
    /\ new \in TenantState
    /\ new.start = stateFor(t).start
    /\ \A w \in Window : stateFor(t).spent[w] <= new.spent[w]

\* A row that was an earlier view of a tenant's counters stays one after an
\* update of them.
LEMMA BeforeUpdate ==
  ASSUME TypeOK, StartsInPast, NEW t \in Tenants, NEW new, Advances(t, new),
         NEW a, IsRow(a), state[t] # Absent, Before(a, state[t])
  PROVE  Before(a, new)
<1>1. IsRow(state[t]) /\ IsRow(new) /\ IsRow(stateFor(t))
  BY RowTypes DEF Advances, TenantState, IsRow
<1>2. Before(state[t], new)
  <2> SUFFICES ASSUME NEW w \in Window
               PROVE  \/ state[t].start[w] + WindowLength[w] <= new.start[w]
                      \/ state[t].start[w] = new.start[w] /\ state[t].spent[w] <= new.spent[w]
    BY DEF Before
  <2> QED BY StateForCurrent DEF Advances
<1> QED BY <1>1, <1>2, BeforeTrans

\* An update of one tenant's counters that leaves the writers alone.
LEMMA UpdateKeepsRows ==
  ASSUME TypeOK, StoreInv, NEW t \in Tenants, NEW new, Advances(t, new),
         state' = [state EXCEPT ![t] = new],
         UNCHANGED <<clock, configured, seq, written, pending, store>>
  PROVE  StartsInPast' /\ RowsBeforeMemory' /\ RowsInSequence'
<1>1. new # Absent /\ IsRow(new)
  BY DEF Advances, TenantState, IsRow
<1>2. /\ \A v \in Tenants : v # t => state'[v] = state[v]
      /\ state'[t] = new
  BY DEF TypeOK
<1>3. \A w \in Window : new.start[w] <= clock
  BY StateForCurrent DEF Advances, StoreInv
<1>4. StartsInPast'
  BY <1>2, <1>3 DEF StoreInv, StartsInPast
<1>5. RowsBeforeMemory'
  <2>1. ASSUME NEW p \in pending
        PROVE  state'[p.tenant] # Absent /\ Before(p.row, state'[p.tenant])
    <3>1. /\ p.tenant \in Tenants /\ IsRow(p.row)
          /\ state[p.tenant] # Absent /\ Before(p.row, state[p.tenant])
      BY RowTypes DEF StoreInv, RowsBeforeMemory
    <3>2. CASE p.tenant = t
      BY <3>1, <3>2, <1>1, <1>2, BeforeUpdate DEF StoreInv
    <3>3. CASE p.tenant # t
      BY <3>1, <3>3, <1>2
    <3> QED BY <3>2, <3>3
  <2>2. ASSUME NEW v \in configured, store[v] # Absent
        PROVE  state'[v] # Absent /\ Before(store[v], state'[v])
    <3>1. /\ v \in Tenants /\ IsRow(store[v])
          /\ state[v] # Absent /\ Before(store[v], state[v])
      BY <2>2, RowTypes DEF StoreInv, RowsBeforeMemory, TypeOK
    <3>2. CASE v = t
      BY <3>1, <3>2, <1>1, <1>2, BeforeUpdate DEF StoreInv
    <3>3. CASE v # t
      BY <3>1, <3>3, <1>2
    <3> QED BY <3>2, <3>3
  <2> QED BY <2>1, <2>2 DEF StoreInv, RowsBeforeMemory, Before
<1>6. RowsInSequence'
  BY DEF StoreInv, RowsInSequence, Before
<1> QED BY <1>4, <1>5, <1>6

\* A step that leaves the counters and the rows alone.
LEMMA RowsKept ==
  ASSUME StoreInv, UNCHANGED <<clock, configured, state, seq, written, store, issued>>,
         pending' \subseteq pending
  PROVE  StoreInv'
BY DEF StoreInv, IssuedConfigured, StartsInPast, RowsBeforeMemory, RowsInSequence, Before

\* The counters each handler leaves behind advance from stateFor.
LEMMA UpdatesAdvance ==
  ASSUME TypeOK, NEW t \in Tenants
  PROVE  /\ Advances(t, stateFor(t))
         /\ \A est \in Estimates :
              LET st == stateFor(t) IN
              Advances(t, [st EXCEPT !.committed = st.committed + est.usd,
                                     !.requests  = st.requests + 1,
                                     !.tokens    = st.tokens + est.tokens])
         /\ \A c \in Nat : Advances(t, [stateFor(t) EXCEPT !.committed = c])
         /\ \A r \in Reservation, use \in Amount : Advances(t, Settled(stateFor(t), r, use))
<1> DEFINE st == stateFor(t)
<1>1. st \in TenantState /\ st = stateFor(t)
  BY StateForFacts
<1> HIDE DEF st
<1>2. \A w \in Window : st.spent[w] \in Nat
  BY <1>1 DEF TenantState
<1>3. Advances(t, st)
  BY <1>1, <1>2 DEF Advances
<1>4. ASSUME NEW est \in Estimates
      PROVE  Advances(t, [st EXCEPT !.committed = st.committed + est.usd,
                                    !.requests  = st.requests + 1,
                                    !.tokens    = st.tokens + est.tokens])
  <2> DEFINE new == [st EXCEPT !.committed = st.committed + est.usd,
                               !.requests  = st.requests + 1,
                               !.tokens    = st.tokens + est.tokens]
  <2>1. /\ st.committed + est.usd \in Nat
        /\ st.requests + 1 \in Nat
        /\ st.tokens + est.tokens \in Nat
    BY <1>1 DEF TenantState, Amount
  <2>2. new \in TenantState /\ new.start = st.start /\ new.spent = st.spent
    BY <1>1, <2>1 DEF TenantState
  <2> QED BY <1>1, <1>2, <2>2 DEF Advances
<1>5. ASSUME NEW c \in Nat PROVE Advances(t, [st EXCEPT !.committed = c])
  <2> DEFINE new == [st EXCEPT !.committed = c]
  <2>1. new \in TenantState /\ new.start = st.start /\ new.spent = st.spent
    BY <1>1 DEF TenantState
  <2> QED BY <1>1, <1>2, <2>1 DEF Advances
<1>6. ASSUME NEW r \in Reservation, NEW use \in Amount PROVE Advances(t, Settled(st, r, use))
  <2> DEFINE new == Settled(st, r, use)
  <2>1. /\ new \in TenantState /\ new.start = st.start
        /\ new.spent = [w \in Window |-> st.spent[w] + use.usd]
    BY <1>1, SettledFacts
  <2>2. \A w \in Window : st.spent[w] <= st.spent[w] + use.usd
    BY <1>2 DEF Amount
  <2> HIDE DEF new
  <2>3. Advances(t, new)
    BY <1>1, <2>1, <2>2 DEF Advances
  <2> QED BY <2>3 DEF new
<1> QED BY <1>1, <1>3, <1>4, <1>5, <1>6

\* Settle hands persist a snapshot that is later than every earlier one.
LEMMA SettleKeepsRows ==
  ASSUME TypeOK, StoreInv, NEW id \in 1..Len(issued), NEW use \in Usages, Settle(id, use)
  PROVE  StoreInv'
<1> DEFINE r   == issued[id]
           t   == r.tenant
           new == Settled(stateFor(t), r, use)
           row == [spent |-> new.spent, start |-> new.start]
           p0  == [tenant |-> t, seq |-> seq[t] + 1, row |-> row]
<1>1. r \in Reservation /\ t \in Tenants /\ use \in Amount /\ t \in configured
  BY IssuedFacts DEF StoreInv, IssuedConfigured
<1>2. Advances(t, new)
  BY <1>1, UpdatesAdvance
<1>3. /\ state' = [state EXCEPT ![t] = new]
      /\ UNCHANGED <<clock, configured, issued, written, store>>
  BY DEF Settle
<1> HIDE DEF new
<1>4. new \in TenantState /\ new # Absent /\ IsRow(new) /\ IsRow(row)
  BY <1>2 DEF Advances, TenantState, IsRow
<1>5. /\ \A v \in Tenants : v # t => state'[v] = state[v]
      /\ state'[t] = new
  BY <1>1, <1>3 DEF TypeOK
<1>6. \A a : Before(a, row) <=> Before(a, new)
  BY DEF Before
<1>7. \A w \in Window : new.start[w] <= clock
  BY <1>1, <1>2, StateForCurrent DEF Advances, StoreInv
<1>8. StartsInPast'
  BY <1>3, <1>5, <1>7 DEF StoreInv, StartsInPast
<1>9. ASSUME NEW p \in pending
      PROVE  state'[p.tenant] # Absent /\ Before(p.row, state'[p.tenant])
  <2>1. /\ p.tenant \in Tenants /\ IsRow(p.row)
        /\ state[p.tenant] # Absent /\ Before(p.row, state[p.tenant])
    BY RowTypes DEF StoreInv, RowsBeforeMemory
  <2>2. CASE p.tenant = t
    BY <2>1, <2>2, <1>1, <1>2, <1>4, <1>5, BeforeUpdate DEF StoreInv
  <2>3. CASE p.tenant # t
    BY <2>1, <2>3, <1>5
  <2> QED BY <2>2, <2>3
<1>10. ASSUME NEW v \in configured, store[v] # Absent
       PROVE  HasStore /\ state'[v] # Absent /\ Before(store[v], state'[v])
  <2>1. /\ v \in Tenants /\ IsRow(store[v]) /\ HasStore
        /\ state[v] # Absent /\ Before(store[v], state[v])
    BY <1>10, RowTypes DEF StoreInv, RowsBeforeMemory, TypeOK
  <2>2. CASE v = t
    BY <2>1, <2>2, <1>2, <1>4, <1>5, BeforeUpdate DEF StoreInv
  <2>3. CASE v # t
    BY <2>1, <2>3, <1>5
  <2> QED BY <2>1, <2>2, <2>3
<1>11. CASE ~HasStore
  <2>1. UNCHANGED <<seq, pending>>
    BY <1>11 DEF Settle
  <2>2. RowsBeforeMemory'
    BY <1>3, <1>9, <1>10, <2>1 DEF StoreInv, RowsBeforeMemory, Before
  <2>3. RowsInSequence' /\ IssuedConfigured'
    BY <1>3, <2>1 DEF StoreInv, RowsInSequence, IssuedConfigured, Before
  <2> QED BY <1>8, <2>2, <2>3 DEF StoreInv
<1>12. CASE HasStore
  <2>1. /\ seq' = [seq EXCEPT ![t] = seq[t] + 1]
        /\ pending' = pending \cup {p0}
    BY <1>12 DEF Settle, new
  <2>2. /\ \A v \in Tenants : seq[v] \in Nat /\ seq[v] <= seq'[v]
        /\ seq'[t] = seq[t] + 1
    BY <1>1, <2>1 DEF TypeOK
  <2>3. p0.tenant = t /\ p0.seq = seq[t] + 1 /\ p0.row = row
    OBVIOUS
  <2>4. Before(row, new)
    <3>1. \A w \in Window : new.spent[w] \in Nat
      BY <1>4 DEF IsRow
    <3> QED BY <3>1 DEF Before
  <2> HIDE DEF p0
  <2>5. \A p \in pending' : /\ p.tenant \in configured
                            /\ state'[p.tenant] # Absent
                            /\ Before(p.row, state'[p.tenant])
                            /\ p.seq <= seq'[p.tenant]
    <3>1. ASSUME NEW p \in pending
          PROVE  p.tenant \in configured /\ p.seq <= seq'[p.tenant]
      <4>1. /\ p.tenant \in Tenants /\ p.seq \in Nat
            /\ p.tenant \in configured /\ p.seq <= seq[p.tenant]
        BY RowTypes DEF StoreInv, RowsBeforeMemory
      <4>2. seq'[p.tenant] \in Nat
        BY <4>1, <1>1, <2>1 DEF TypeOK
      <4> QED BY <4>1, <4>2, <2>2
    <3>2. /\ p0.tenant \in configured /\ state'[p0.tenant] # Absent
          /\ Before(p0.row, state'[p0.tenant]) /\ p0.seq <= seq'[p0.tenant]
      BY <1>1, <1>4, <1>5, <2>2, <2>3, <2>4
    <3> QED BY <1>9, <2>1, <3>1, <3>2
  <2>6. RowsBeforeMemory'
    BY <1>3, <1>10, <1>12, <2>5 DEF StoreInv, RowsBeforeMemory, Before
  <2>7. RowsInSequence'
    <3>1. ASSUME NEW p \in pending, p.tenant = t PROVE Before(p.row, row)
      BY <1>5, <1>6, <1>9, <3>1
    <3>2. ASSUME NEW p \in pending, p.tenant = t PROVE ~(p0.seq < p.seq)
      <4>1. p.seq \in Nat /\ p.seq <= seq[t] /\ seq[t] \in Nat
        BY <1>1, <2>2, <3>2, RowTypes DEF StoreInv, RowsBeforeMemory
      <4> QED BY <2>3, <4>1
    <3>3. ~(p0.seq < p0.seq)
      BY <1>1, <2>2, <2>3
    <3>4. \A p, q \in pending' : (p.tenant = q.tenant /\ p.seq < q.seq)
                                 => Before(p.row, q.row)
      BY <2>1, <2>3, <3>1, <3>2, <3>3 DEF StoreInv, RowsInSequence
    <3>5. store[t] # Absent => Before(store[t], row)
      BY <1>1, <1>5, <1>6, <1>10
    <3>6. \A p \in pending' : (p.seq > written[p.tenant] /\ store[p.tenant] # Absent)
                                 => Before(store[p.tenant], p.row)
      BY <2>1, <2>3, <3>5 DEF StoreInv, RowsInSequence
    <3> QED BY <1>3, <3>4, <3>6 DEF RowsInSequence, Before
  <2>8. IssuedConfigured'
    BY <1>3 DEF StoreInv, IssuedConfigured
  <2> QED BY <1>8, <2>6, <2>7, <2>8 DEF StoreInv
<1> QED BY <1>11, <1>12

\* The order of the rows and snapshots is kept by every step.
THEOREM RowsOrdered == Spec => []StoreInv
<1>1. Init => StoreInv
  BY DEF Init, StoreInv, IssuedConfigured, StartsInPast, RowsBeforeMemory, RowsInSequence
<1>2. TypeOK /\ TypeOK' /\ StoreInv /\ [Next]_vars => StoreInv'
  <2> SUFFICES ASSUME TypeOK, TypeOK', StoreInv, [Next]_vars PROVE StoreInv'
    OBVIOUS
  <2>1. ASSUME UNCHANGED vars PROVE StoreInv'
    BY <2>1, RowsKept DEF vars, memory, writing
  <2>2. ASSUME NEW t \in Tenants, NEW est \in Estimates, ReserveDenied(t, est)
        PROVE  StoreInv'
    <3>1. StartsInPast' /\ RowsBeforeMemory' /\ RowsInSequence'
      BY <2>2, UpdatesAdvance, UpdateKeepsRows DEF ReserveDenied, writing
    <3>2. IssuedConfigured'
      BY <2>2 DEF ReserveDenied, StoreInv, IssuedConfigured
    <3> QED BY <3>1, <3>2 DEF StoreInv
  <2>3. ASSUME NEW t \in Tenants, NEW est \in Estimates, ReserveAdmitted(t, est)
        PROVE  StoreInv'
    <3> DEFINE st  == stateFor(t)
               new == [st EXCEPT !.committed = st.committed + est.usd,
                                 !.requests  = st.requests + 1,
                                 !.tokens    = st.tokens + est.tokens]
    <3>1. Advances(t, new)
      BY UpdatesAdvance
    <3>2. /\ state' = [state EXCEPT ![t] = new]
          /\ UNCHANGED <<clock, configured, seq, written, pending, store>>
      BY <2>3 DEF ReserveAdmitted, writing
    <3> HIDE DEF new
    <3>3. StartsInPast' /\ RowsBeforeMemory' /\ RowsInSequence'
      BY <3>1, <3>2, UpdateKeepsRows
    <3>4. IssuedConfigured'
      <4>1. /\ Len(issued') = Len(issued) + 1
            /\ \A i \in 1..Len(issued) : issued'[i] = issued[i]
            /\ issued'[Len(issued) + 1].tenant = t
            /\ t \in configured
        BY <2>3 DEF ReserveAdmitted, Sighted, TypeOK
      <4>2. Len(issued) \in Nat
        BY OpenClaimsFacts
      <4> QED BY <3>2, <4>1, <4>2 DEF StoreInv, IssuedConfigured
    <3> QED BY <3>3, <3>4 DEF StoreInv
  <2>4. ASSUME NEW t \in Tenants, Read(t) PROVE StoreInv'
    <3>1. StartsInPast' /\ RowsBeforeMemory' /\ RowsInSequence'
      BY <2>4, UpdatesAdvance, UpdateKeepsRows DEF Read, writing
    <3>2. IssuedConfigured'
      BY <2>4 DEF Read, StoreInv, IssuedConfigured
    <3> QED BY <3>1, <3>2 DEF StoreInv
  <2>5. ASSUME NEW id \in 1..Len(issued), NEW use \in Usages, Settle(id, use)
        PROVE  StoreInv'
    BY <2>5, SettleKeepsRows
  <2>6. ASSUME NEW id \in 1..Len(issued), Release(id) PROVE StoreInv'
    <3> DEFINE r   == issued[id]
               st  == stateFor(r.tenant)
               new == [st EXCEPT !.committed = monus(st.committed, r.usd)]
    <3>1. r.tenant \in Tenants /\ r.usd \in Nat
      BY IssuedFacts
    <3>2. monus(st.committed, r.usd) \in Nat
      <4>1. st.committed \in Nat
        BY <3>1, StateForFacts DEF TenantState
      <4> HIDE DEF st, r
      <4> QED BY <3>1, <4>1 DEF monus
    <3>3. Advances(r.tenant, new)
      BY <3>1, <3>2, UpdatesAdvance
    <3>4. /\ state' = [state EXCEPT ![r.tenant] = new]
          /\ UNCHANGED <<clock, configured, seq, written, pending, store, issued>>
      BY <2>6 DEF Release, writing
    <3> HIDE DEF new, r
    <3>5. StartsInPast' /\ RowsBeforeMemory' /\ RowsInSequence'
      BY <3>1, <3>3, <3>4, UpdateKeepsRows
    <3>6. IssuedConfigured'
      BY <3>4 DEF StoreInv, IssuedConfigured
    <3> QED BY <3>5, <3>6 DEF StoreInv
  <2>7. ASSUME NEW p \in pending, PersistStale(p) \/ PersistFailed(p) PROVE StoreInv'
    BY <2>7, RowsKept DEF PersistStale, PersistFailed, memory
  <2>8. ASSUME NEW p \in pending, PersistSaved(p) PROVE StoreInv'
    <3>1. /\ p.tenant \in Tenants /\ p.seq \in Nat /\ IsRow(p.row)
          /\ HasStore /\ p.tenant \in configured
          /\ state[p.tenant] # Absent /\ Before(p.row, state[p.tenant])
      BY RowTypes DEF StoreInv, RowsBeforeMemory
    <3>2. /\ pending' \subseteq pending
          /\ UNCHANGED <<clock, configured, state, issued, seq>>
          /\ store' = [store EXCEPT ![p.tenant] = p.row]
          /\ written' = [written EXCEPT ![p.tenant] = p.seq]
      BY <2>8 DEF PersistSaved, memory
    <3>3. /\ store'[p.tenant] = p.row /\ written'[p.tenant] = p.seq
          /\ \A t \in Tenants : t # p.tenant => store'[t] = store[t] /\ written'[t] = written[t]
      BY <3>1, <3>2 DEF TypeOK
    <3>4. IssuedConfigured'
      BY <3>2 DEF StoreInv, IssuedConfigured
    <3>5. StartsInPast'
      <4>1. \A w \in Window : p.row.start[w] <= clock
        <5> SUFFICES ASSUME NEW w \in Window PROVE p.row.start[w] <= clock
          OBVIOUS
        <5>1. state[p.tenant].start[w] <= clock /\ clock \in Nat
              /\ state[p.tenant].start[w] \in Nat /\ p.row.start[w] \in Nat
              /\ WindowLength[w] \in Nat
          BY <3>1, RowTypes DEF StoreInv, StartsInPast, TypeOK, IsRow
        <5> QED BY <3>1, <5>1 DEF Before
      <4> QED BY <3>2, <3>3, <4>1 DEF StoreInv, StartsInPast
    <3>6. RowsBeforeMemory'
      <4>1. \A q \in pending' : /\ HasStore /\ q.tenant \in configured
                                /\ state[q.tenant] # Absent
                                /\ Before(q.row, state[q.tenant]) /\ q.seq <= seq[q.tenant]
        BY <3>2 DEF StoreInv, RowsBeforeMemory
      <4>2. \A t \in Tenants : store'[t] # Absent => HasStore
        BY <3>1, <3>3 DEF StoreInv, RowsBeforeMemory
      <4>3. \A t \in configured : store'[t] # Absent =>
               state[t] # Absent /\ Before(store'[t], state[t])
        BY <3>1, <3>3 DEF StoreInv, RowsBeforeMemory, TypeOK
      <4> QED BY <3>2, <4>1, <4>2, <4>3 DEF RowsBeforeMemory, Before
    <3>7. RowsInSequence'
      <4>1. ASSUME NEW q \in pending, q.seq > written'[q.tenant], store'[q.tenant] # Absent
            PROVE  Before(store'[q.tenant], q.row)
        <5>1. CASE q.tenant = p.tenant
          <6>1. q.seq > p.seq
            BY <4>1, <5>1, <3>3
          <6>2. p.seq < q.seq
            BY <6>1, <3>1, RowTypes
          <6> QED BY <5>1, <6>2, <3>3 DEF StoreInv, RowsInSequence
        <5>2. CASE q.tenant # p.tenant
          <6>1. q.tenant \in Tenants
            BY RowTypes
          <6> QED BY <4>1, <5>2, <6>1, <3>3 DEF StoreInv, RowsInSequence
        <5> QED BY <5>1, <5>2
      <4>2. \A q, s \in pending' : (q.tenant = s.tenant /\ q.seq < s.seq) => Before(q.row, s.row)
        BY <3>2 DEF StoreInv, RowsInSequence
      <4> QED BY <3>2, <4>1, <4>2 DEF RowsInSequence, Before
    <3> QED BY <3>4, <3>5, <3>6, <3>7 DEF StoreInv
  <2>9. ASSUME setStoreHealthy PROVE StoreInv'
    BY <2>9, RowsKept DEF setStoreHealthy, memory
  <2>10. ASSUME Tick PROVE StoreInv'
    <3>1. clock' = clock + 1 /\ clock \in Nat
          /\ UNCHANGED <<configured, state, issued, seq, written, pending, store>>
      BY <2>10 DEF Tick, memory, writing, TypeOK
    <3>2. StartsInPast'
      <4>1. \A t \in Tenants, w \in Window :
               /\ state[t] # Absent => state[t].start[w] \in Nat
               /\ store[t] # Absent => store[t].start[w] \in Nat
        BY RowTypes DEF IsRow
      <4> QED BY <3>1, <4>1 DEF StoreInv, StartsInPast
    <3>3. IssuedConfigured' /\ RowsBeforeMemory' /\ RowsInSequence'
      BY <3>1 DEF StoreInv, IssuedConfigured, RowsBeforeMemory, RowsInSequence, Before
    <3> QED BY <3>2, <3>3 DEF StoreInv
  <2>11. ASSUME NEW conf \in SUBSET Tenants, Restart(conf) PROVE StoreInv'
    <3>1. /\ clock' = clock /\ store' = store /\ configured' = conf
          /\ pending' = {} /\ Len(issued') = 0
          /\ state' = [t \in Tenants |-> RestoredState(t, conf)]
      BY <2>11 DEF Restart
    <3>2. \A t \in Tenants : state'[t] # Absent =>
             /\ store[t] # Absent /\ state'[t].start = store[t].start
             /\ state'[t].spent = store[t].spent
      BY <3>1 DEF RestoredState
    <3>3. \A t \in conf : store[t] # Absent => state'[t] # Absent
      <4> SUFFICES ASSUME NEW t \in conf, store[t] # Absent PROVE state'[t] # Absent
        OBVIOUS
      <4>1. HasStore /\ store[t] \in Row /\ clock \in Nat
        BY DEF StoreInv, RowsBeforeMemory, TypeOK
      <4>2. state'[t] = [spent |-> store[t].spent, start |-> store[t].start,
                         committed |-> 0, requests |-> 0, requestsAt |-> clock,
                         tokens |-> 0, tokensAt |-> clock]
        BY <3>1, <4>1 DEF RestoredState
      <4>3. state'[t] \in TenantState
        BY <4>1, <4>2 DEF TenantState, Row
      <4> QED BY <4>3
    <3>4. StartsInPast'
      BY <3>1, <3>2 DEF StoreInv, StartsInPast
    <3>5. RowsBeforeMemory'
      <4>1. \A t \in conf : store[t] # Absent => Before(store[t], state'[t])
        <5> SUFFICES ASSUME NEW t \in conf, store[t] # Absent PROVE Before(store[t], state'[t])
          OBVIOUS
        <5>1. \A w \in Window : store[t].spent[w] \in Nat
          BY RowTypes DEF IsRow
        <5> QED BY <3>2, <3>3, <5>1 DEF Before
      <4> QED BY <3>1, <3>3, <4>1, ZenonT(40) DEF StoreInv, RowsBeforeMemory, Before
    <3>6. RowsInSequence' /\ IssuedConfigured'
      BY <3>1 DEF RowsInSequence, IssuedConfigured
    <3> QED BY <3>4, <3>5, <3>6 DEF StoreInv
  <2> QED
    BY <2>1, <2>2, <2>3, <2>4, <2>5, <2>6, <2>7, <2>8, <2>9, <2>10, <2>11
       DEF Next, Reserve, ReserveBlind, Close, CloseAgain, Persist
<1> QED BY <1>1, <1>2, TypeCorrect, PTL DEF Spec

\* The row of a tenant in the store is never erased and never moves backwards,
\* in whatever order the settlements reach persist and whichever writes fail.
THEOREM StoreMonotonic == Spec => StoreNeverMovesBackwards
<1> DEFINE Forward == \A t \in Tenants : store[t] # Absent =>
                          store'[t] # Absent /\ RowLeq(store[t], store'[t])
<1>1. TypeOK /\ StoreInv /\ [Next]_vars => [Forward]_vars
  <2> SUFFICES ASSUME TypeOK, StoreInv, Next PROVE Forward
    OBVIOUS
  <2>1. ASSUME store' = store PROVE Forward
    <3>1. \A t \in Tenants : store[t] # Absent => \A w \in Window : store[t].spent[w] \in Nat
      BY RowTypes DEF IsRow
    <3> QED BY <2>1, <3>1 DEF RowLeq
  <2>2. ASSUME NEW p \in pending, PersistSaved(p) PROVE Forward
    <3>1. /\ p.tenant \in Tenants /\ IsRow(p.row) /\ p.seq > written[p.tenant]
          /\ store' = [store EXCEPT ![p.tenant] = p.row] /\ p.row \in Row
      BY <2>2, RowTypes DEF PersistSaved, Fresh, TypeOK, Snapshot
    <3>2. ASSUME NEW t \in Tenants, store[t] # Absent
          PROVE  store'[t] # Absent /\ RowLeq(store[t], store'[t])
      <4>1. CASE t = p.tenant
        <5>1. Before(store[t], p.row) /\ store'[t] = p.row
          BY <3>1, <3>2, <4>1 DEF StoreInv, RowsInSequence, TypeOK
        <5>2. \A w \in Window : /\ store[t].start[w] \in Nat /\ p.row.start[w] \in Nat
                                /\ WindowLength[w] \in Nat /\ WindowLength[w] > 0
          BY <3>1, <3>2, RowTypes DEF IsRow
        <5> QED BY <3>1, <5>1, <5>2 DEF Before, RowLeq
      <4>2. CASE t # p.tenant
        <5>1. store'[t] = store[t]
          BY <3>1, <4>2 DEF TypeOK
        <5>2. \A w \in Window : store[t].spent[w] \in Nat
          BY <3>2, RowTypes DEF IsRow
        <5> QED BY <3>2, <5>1, <5>2 DEF RowLeq
      <4> QED BY <4>1, <4>2
    <3> QED BY <3>2
  <2> QED
    BY <2>1, <2>2 DEF Next, Reserve, ReserveBlind, ReserveDenied, ReserveAdmitted, Read,
       Close, Settle, Release, CloseAgain, Persist, PersistStale, PersistFailed,
       setStoreHealthy, Tick, Restart, vars, writing
<1> QED BY <1>1, TypeCorrect, RowsOrdered, PTL DEF Spec, StoreNeverMovesBackwards

-----------------------------------------------------------------------------
(* The newest settlement is in the store, or on its way *)

\* Nothing was spent in the windows of b that the row a does not hold.
Same(a, b) == \A w \in Window : b.start[w] = a.start[w] => b.spent[w] = a.spent[w]

\* A tenant's newest snapshot has landed, or waits, unless its save failed; and
\* whichever of the two it is, it holds everything settled in its windows.
QuietInv ==
    /\ \A t \in Tenants : written[t] <= seq[t]
    /\ \A t \in Tenants : seq[t] > 0 => HasStore /\ t \in configured /\ state[t] # Absent
    /\ \A p \in pending : p.seq = seq[p.tenant] => Same(p.row, state[p.tenant])
    /\ \A t \in Tenants : (seq[t] > 0 /\ written[t] = seq[t])
                             => store[t] # Absent /\ Same(store[t], state[t])
    /\ \A t \in Tenants : (failures = 0 /\ seq[t] > 0 /\ written[t] # seq[t])
                             => \E p \in pending : p.tenant = t /\ p.seq = seq[t]

\* A step of tenant t's counters that settles nothing: windows may roll, and
\* claims and rates may change.
Touches(t) ==
    \E new \in TenantState :
        /\ new.start = stateFor(t).start /\ new.spent = stateFor(t).spent
        /\ state' = [state EXCEPT ![t] = new]
        /\ UNCHANGED <<clock, configured, seq, healthy, written, pending, storeMu, store,
                       failures, bills, restored>>

\* Reserve, Release, Spent and Committed are such steps.
LEMMA TouchingSteps ==
  ASSUME TypeOK
  PROVE  /\ \A t \in Tenants, est \in Estimates : ReserveDenied(t, est) => Touches(t)
         /\ \A t \in Tenants, est \in Estimates : ReserveAdmitted(t, est) => Touches(t)
         /\ \A t \in Tenants : Read(t) => Touches(t)
         /\ \A id \in 1..Len(issued) : Release(id) => Touches(issued[id].tenant)
<1>1. ASSUME NEW t \in Tenants, NEW est \in Estimates, ReserveDenied(t, est) PROVE Touches(t)
  BY <1>1, StateForFacts DEF ReserveDenied, Touches, writing, history
<1>2. ASSUME NEW t \in Tenants, NEW est \in Estimates, ReserveAdmitted(t, est) PROVE Touches(t)
  <2> DEFINE st  == stateFor(t)
             new == [st EXCEPT !.committed = st.committed + est.usd,
                               !.requests  = st.requests + 1,
                               !.tokens    = st.tokens + est.tokens]
  <2>1. /\ state' = [state EXCEPT ![t] = new]
        /\ UNCHANGED <<clock, configured, seq, healthy, written, pending, storeMu, store,
                       failures, bills, restored>>
    BY <1>2 DEF ReserveAdmitted, writing
  <2>2. new \in TenantState
    BY UpdatesAdvance DEF Advances
  <2>3. new.start = st.start /\ new.spent = st.spent
    <3>1. st \in TenantState
      BY StateForFacts
    <3> HIDE DEF st
    <3> QED BY <3>1 DEF TenantState
  <2> HIDE DEF new
  <2> QED BY <2>1, <2>2, <2>3 DEF Touches
<1>3. ASSUME NEW t \in Tenants, Read(t) PROVE Touches(t)
  BY <1>3, StateForFacts DEF Read, Touches, writing, history
<1>4. ASSUME NEW id \in 1..Len(issued), Release(id) PROVE Touches(issued[id].tenant)
  <2> DEFINE r   == issued[id]
             st  == stateFor(r.tenant)
             c   == monus(st.committed, r.usd)
             new == [st EXCEPT !.committed = c]
  <2>1. /\ state' = [state EXCEPT ![r.tenant] = new]
        /\ UNCHANGED <<clock, configured, seq, healthy, written, pending, storeMu, store,
                       failures, bills, restored>>
    BY <1>4 DEF Release, writing, history
  <2>2. r.tenant \in Tenants /\ r.usd \in Nat /\ st \in TenantState
    BY IssuedFacts, StateForFacts
  <2> HIDE DEF st, r
  <2>3. c \in Nat
    <3>1. st.committed \in Nat
      BY <2>2 DEF TenantState
    <3> QED BY <2>2, <3>1 DEF monus
  <2> HIDE DEF c
  <2>4. new \in TenantState /\ new.start = st.start /\ new.spent = st.spent
    BY <2>2, <2>3 DEF TenantState
  <2> HIDE DEF new
  <2> QED BY <2>1, <2>4 DEF Touches, st, r
<1> QED BY <1>1, <1>2, <1>3, <1>4

\* A row that holds everything settled in its windows still does when nothing is
\* settled: a window that rolls is no longer the row's.
LEMMA SameKept ==
  ASSUME TypeOK, StartsInPast, NEW t \in Tenants, state[t] # Absent, NEW new \in TenantState,
         new.start = stateFor(t).start, new.spent = stateFor(t).spent,
         NEW a, IsRow(a), Before(a, state[t]), Same(a, state[t])
  PROVE  Same(a, new)
<1> SUFFICES ASSUME NEW w \in Window, new.start[w] = a.start[w] PROVE new.spent[w] = a.spent[w]
  BY DEF Same
<1>1. /\ a.start[w] \in Nat /\ state[t].start[w] \in Nat
      /\ WindowLength[w] \in Nat /\ WindowLength[w] > 0 /\ new.start[w] \in Nat
  <2>1. IsRow(state[t]) /\ new.start \in [Window -> Nat]
    BY RowTypes DEF TenantState
  <2> QED BY <2>1 DEF IsRow
<1>2. \/ state[t].start[w] + WindowLength[w] <= new.start[w]
      \/ new.spent[w] = state[t].spent[w] /\ new.start[w] = state[t].start[w]
  BY StateForCurrent
<1>3. a.start[w] <= state[t].start[w]
  BY <1>1 DEF Before
<1>4. new.spent[w] = state[t].spent[w] /\ new.start[w] = state[t].start[w]
  BY <1>1, <1>2, <1>3
<1> QED BY <1>4 DEF Same

\* A step that settles nothing, and writes nothing.
LEMMA QuietTouched ==
  ASSUME TypeOK, StoreInv, QuietInv, NEW t \in Tenants, Touches(t)
  PROVE  QuietInv'
<1>1. PICK new \in TenantState :
        /\ new.start = stateFor(t).start /\ new.spent = stateFor(t).spent
        /\ state' = [state EXCEPT ![t] = new]
        /\ UNCHANGED <<clock, configured, seq, written, pending, store, failures>>
  BY DEF Touches
<1>2. /\ state'[t] = new /\ new # Absent
      /\ \A v \in Tenants : v # t => state'[v] = state[v]
  BY <1>1 DEF TypeOK
<1>3. \A v \in Tenants : state[v] # Absent => state'[v] # Absent
  BY <1>2
<1>4. ASSUME NEW v \in Tenants, state[v] # Absent, NEW a, IsRow(a), Before(a, state[v]), Same(a, state[v])
      PROVE  Same(a, state'[v])
  BY <1>1, <1>2, <1>4, SameKept DEF StoreInv
<1>5. ASSUME NEW p \in pending, p.seq = seq[p.tenant] PROVE Same(p.row, state'[p.tenant])
  BY <1>4, <1>5, RowTypes DEF StoreInv, RowsBeforeMemory, QuietInv
<1>6. ASSUME NEW v \in Tenants, seq[v] > 0, written[v] = seq[v]
      PROVE  store[v] # Absent /\ Same(store[v], state'[v])
  <2>1. /\ store[v] # Absent /\ Same(store[v], state[v]) /\ v \in configured
    BY <1>6 DEF QuietInv
  <2>2. state[v] # Absent /\ Before(store[v], state[v]) /\ IsRow(store[v])
    BY <2>1, RowTypes DEF StoreInv, RowsBeforeMemory
  <2> QED BY <1>4, <2>1, <2>2
<1> QED BY <1>1, <1>3, <1>5, <1>6 DEF QuietInv

\* A settlement: its snapshot is the newest, and waits.
LEMMA QuietSettled ==
  ASSUME TypeOK, StoreInv, QuietInv, NEW id \in 1..Len(issued), NEW use \in Usages, Settle(id, use)
  PROVE  QuietInv'
<1> DEFINE r   == issued[id]
           t   == r.tenant
           new == Settled(stateFor(t), r, use)
           row == [spent |-> new.spent, start |-> new.start]
           p0  == [tenant |-> t, seq |-> seq[t] + 1, row |-> row]
<1>1. r \in Reservation /\ t \in Tenants /\ use \in Amount /\ t \in configured
  BY IssuedFacts DEF StoreInv, IssuedConfigured
<1>2. new \in TenantState /\ new # Absent
  <2>1. Advances(t, new)
    BY <1>1, UpdatesAdvance
  <2> QED BY <2>1 DEF Advances
<1>3. /\ state' = [state EXCEPT ![t] = new]
      /\ UNCHANGED <<clock, configured, written, store, failures>>
  BY DEF Settle
<1>4. IF HasStore THEN seq' = [seq EXCEPT ![t] = seq[t] + 1] /\ pending' = pending \cup {p0}
      ELSE UNCHANGED <<seq, pending>>
  BY DEF Settle
<1>5. Same(row, new) /\ p0.tenant = t /\ p0.seq = seq[t] + 1 /\ p0.row = row
  BY DEF Same
<1> HIDE DEF new, row, p0, t, r
<1>6. /\ state'[t] = new /\ \A v \in Tenants : v # t => state'[v] = state[v]
  BY <1>1, <1>3 DEF TypeOK
<1>7. /\ \A p \in pending : p.tenant \in Tenants /\ p.seq \in Nat /\ p.seq <= seq[p.tenant] /\ HasStore
      /\ \A v \in Tenants : seq[v] \in Nat /\ written[v] \in Nat /\ written[v] <= seq[v]
  BY RowTypes DEF StoreInv, RowsBeforeMemory, QuietInv, TypeOK
<1>8. CASE HasStore
  <2>1. /\ seq'[t] = seq[t] + 1 /\ seq' \in [Tenants -> Nat]
        /\ \A v \in Tenants : v # t => seq'[v] = seq[v]
    BY <1>1, <1>4, <1>7, <1>8 DEF TypeOK
  <2>2. \A v \in Tenants : written'[v] <= seq'[v] /\ (v = t => written'[v] # seq'[v])
    BY <1>3, <1>7, <2>1
  <2>3. \A v \in Tenants : seq'[v] > 0 => HasStore /\ v \in configured' /\ state'[v] # Absent
    BY <1>8, <1>1, <1>2, <1>3, <1>6, <2>1 DEF QuietInv
  <2>4. \A p \in pending : p.tenant = t => p.seq # seq'[t]
    BY <1>7, <2>1
  <2>5. \A p \in pending' : p.seq = seq'[p.tenant] => Same(p.row, state'[p.tenant])
    <3>1. ASSUME NEW p \in pending, p.seq = seq'[p.tenant] PROVE Same(p.row, state'[p.tenant])
      <4>1. p.tenant \in Tenants /\ p.tenant # t
        BY <1>7, <2>4, <3>1
      <4> QED BY <1>6, <2>1, <3>1, <4>1 DEF QuietInv
    <3> QED BY <1>4, <1>5, <1>6, <1>8, <3>1
  <2>6. \A v \in Tenants : (seq'[v] > 0 /\ written'[v] = seq'[v])
                             => store'[v] # Absent /\ Same(store'[v], state'[v])
    BY <1>3, <1>6, <2>1, <2>2 DEF QuietInv
  <2>7. \A v \in Tenants : (failures' = 0 /\ seq'[v] > 0 /\ written'[v] # seq'[v])
                             => \E p \in pending' : p.tenant = v /\ p.seq = seq'[v]
    BY <1>3, <1>4, <1>5, <1>8, <2>1 DEF QuietInv
  <2> QED BY <2>2, <2>3, <2>5, <2>6, <2>7 DEF QuietInv, Same
<1>9. CASE ~HasStore
  <2>1. pending = {} /\ UNCHANGED <<seq, pending>>
    BY <1>4, <1>7, <1>9
  <2>2. \A v \in Tenants : seq[v] = 0
    BY <1>7, <1>9 DEF QuietInv
  <2> QED BY <1>3, <2>1, <2>2 DEF QuietInv
<1> QED BY <1>8, <1>9

\* persist stores a snapshot that is not older than the row in the store.
LEMMA QuietSaved ==
  ASSUME TypeOK, StoreInv, QuietInv, NEW p \in pending, PersistSaved(p)
  PROVE  QuietInv'
<1>1. /\ p.tenant \in Tenants /\ p.seq \in Nat /\ p.row \in Row /\ p.row # Absent
      /\ p.seq <= seq[p.tenant] /\ p.seq > written[p.tenant] /\ seq[p.tenant] \in Nat
  BY RowTypes DEF StoreInv, RowsBeforeMemory, PersistSaved, Fresh, TypeOK, Snapshot
<1>2. /\ pending' = pending \ {p} /\ UNCHANGED <<configured, state, seq, failures>>
      /\ store' = [store EXCEPT ![p.tenant] = p.row]
      /\ written' = [written EXCEPT ![p.tenant] = p.seq]
  BY DEF PersistSaved, memory
<1>3. /\ store'[p.tenant] = p.row /\ written'[p.tenant] = p.seq
      /\ \A t \in Tenants : t # p.tenant => store'[t] = store[t] /\ written'[t] = written[t]
  BY <1>1, <1>2 DEF TypeOK
<1>4. \A t \in Tenants : written'[t] <= seq'[t]
  BY <1>1, <1>2, <1>3 DEF QuietInv
<1>5. \A t \in Tenants : (seq'[t] > 0 /\ written'[t] = seq'[t])
                            => store'[t] # Absent /\ Same(store'[t], state'[t])
  BY <1>1, <1>2, <1>3 DEF QuietInv
<1>6. \A t \in Tenants : (failures' = 0 /\ seq'[t] > 0 /\ written'[t] # seq'[t])
                            => \E q \in pending' : q.tenant = t /\ q.seq = seq'[t]
  <2> SUFFICES ASSUME NEW t \in Tenants, failures = 0, seq[t] > 0, written'[t] # seq[t]
               PROVE  \E q \in pending' : q.tenant = t /\ q.seq = seq[t]
    BY <1>2
  <2>1. written[t] # seq[t]
    <3>1. CASE t = p.tenant
      BY <1>1, <3>1 DEF TypeOK
    <3>2. CASE t # p.tenant
      BY <1>3, <3>2
    <3> QED BY <3>1, <3>2
  <2>2. PICK q \in pending : q.tenant = t /\ q.seq = seq[t]
    BY <2>1 DEF QuietInv
  <2>3. q # p
    BY <1>3, <2>2
  <2> QED BY <1>2, <2>2, <2>3
<1> QED BY <1>2, <1>4, <1>5, <1>6 DEF QuietInv, Same

\* A snapshot that persist drops is not the newest, unless the newest has landed.
LEMMA QuietDropped ==
  ASSUME TypeOK, StoreInv, QuietInv, NEW p \in pending, PersistStale(p)
  PROVE  QuietInv'
<1>1. /\ p.tenant \in Tenants /\ p.seq \in Nat /\ p.seq <= seq[p.tenant] /\ ~(p.seq > written[p.tenant])
      /\ seq[p.tenant] \in Nat /\ written[p.tenant] \in Nat /\ written[p.tenant] <= seq[p.tenant]
  BY RowTypes DEF StoreInv, RowsBeforeMemory, PersistStale, Fresh, TypeOK, QuietInv
<1>2. pending' = pending \ {p} /\ UNCHANGED <<configured, state, seq, failures, store, written>>
  BY DEF PersistStale, memory
<1>3. ASSUME NEW t \in Tenants, failures = 0, seq[t] > 0, written[t] # seq[t]
      PROVE  \E q \in pending' : q.tenant = t /\ q.seq = seq[t]
  <2>1. PICK q \in pending : q.tenant = t /\ q.seq = seq[t]
    BY <1>3 DEF QuietInv
  <2>2. q # p
    BY <1>1, <1>3, <2>1
  <2> QED BY <1>2, <2>1, <2>2
<1> QED BY <1>2, <1>3 DEF QuietInv, Same

\* The newest settlement of every tenant is in the store or on its way there.
THEOREM NewestIsKept == Spec => []QuietInv
<1>1. Init => QuietInv
  BY DEF Init, QuietInv
<1>2. TypeOK /\ StoreInv /\ QuietInv /\ [Next]_vars => QuietInv'
  <2> SUFFICES ASSUME TypeOK, StoreInv, QuietInv, [Next]_vars PROVE QuietInv'
    OBVIOUS
  <2>1. ASSUME UNCHANGED <<configured, state, seq, written, pending, store, failures>> PROVE QuietInv'
    BY <2>1 DEF QuietInv, Same
  <2>2. ASSUME UNCHANGED vars PROVE QuietInv'
    BY <2>1, <2>2 DEF vars, memory, writing
  <2>3. ASSUME NEW t \in Tenants, Reserve(t) \/ Read(t) PROVE QuietInv'
    BY <2>2, <2>3, TouchingSteps, QuietTouched DEF Reserve, ReserveBlind
  <2>4. ASSUME NEW id \in 1..Len(issued), Close(id) PROVE QuietInv'
    <3>1. issued[id].tenant \in Tenants
      BY IssuedFacts
    <3> QED BY <2>2, <2>4, <3>1, TouchingSteps, QuietTouched, QuietSettled DEF Close, CloseAgain
  <2>5. ASSUME NEW p \in pending, PersistFailed(p) PROVE QuietInv'
    <3>1. /\ failures' # 0 /\ pending' \subseteq pending
          /\ UNCHANGED <<configured, state, seq, written, store>>
      BY <2>5 DEF PersistFailed, memory, TypeOK
    <3> QED BY <3>1 DEF QuietInv, Same
  <2>6. ASSUME NEW p \in pending, Persist(p) PROVE QuietInv'
    BY <2>5, <2>6, QuietSaved, QuietDropped DEF Persist
  <2>7. ASSUME setStoreHealthy \/ Tick PROVE QuietInv'
    BY <2>1, <2>7 DEF setStoreHealthy, Tick, memory, writing
  <2>8. ASSUME NEW conf \in SUBSET Tenants, Restart(conf) PROVE QuietInv'
    <3>1. /\ seq' = [t \in Tenants |-> 0] /\ written' = [t \in Tenants |-> 0] /\ pending' = {}
      BY <2>8 DEF Restart
    <3> QED BY <3>1 DEF QuietInv
  <2> QED BY <2>2, <2>3, <2>4, <2>6, <2>7, <2>8 DEF Next
<1> QED BY <1>1, <1>2, TypeCorrect, RowsOrdered, PTL DEF Spec

\* Once no write of a tenant is in flight, and none failed, the store holds what
\* was settled in its windows, in whatever order the writes were made.
THEOREM DurableWhenQuiet == Spec => []DurableOnceQuiet
<1>1. TypeOK /\ StoreInv /\ QuietInv => DurableOnceQuiet
  <2> SUFFICES ASSUME TypeOK, StoreInv, QuietInv, failures = 0, NEW t \in Tenants, seq[t] > 0,
                      \A p \in pending : p.tenant # t
               PROVE  /\ store[t] # Absent
                      /\ RowLeq(store[t], state[t])
                      /\ \A w \in Window : state[t].start[w] = store[t].start[w]
                                           => state[t].spent[w] = store[t].spent[w]
    BY DEF DurableOnceQuiet
  <2>1. written[t] = seq[t] /\ t \in configured
    BY DEF QuietInv
  <2>2. store[t] # Absent /\ Same(store[t], state[t])
    BY <2>1 DEF QuietInv
  <2>3. state[t] # Absent /\ Before(store[t], state[t])
    BY <2>1, <2>2 DEF StoreInv, RowsBeforeMemory
  <2>4. \A w \in Window : /\ store[t].start[w] \in Nat /\ state[t].start[w] \in Nat
                          /\ WindowLength[w] \in Nat /\ WindowLength[w] > 0
    BY <2>2, <2>3, RowTypes DEF IsRow
  <2>5. RowLeq(store[t], state[t])
    BY <2>3, <2>4 DEF Before, RowLeq
  <2> QED BY <2>2, <2>5 DEF Same
<1> QED BY <1>1, TypeCorrect, RowsOrdered, NewestIsKept, PTL
-----------------------------------------------------------------------------
(* The overshoot bound.  It is not inductive as it stands: a window that   *)
(* rolls over forgets what was spent in it and keeps the claims, and a     *)
(* restart forgets the claims and brings a stored total back.  So the      *)
(* invariant also bounds the claims alone, and the rows in the store of    *)
(* the tenants that the running process does not serve.                    *)

\* The claims of a tenant fit its budget on their own.
ClaimsBound ==
    \A t \in Tenants, w \in Window :
        Limits[t].usd[w] > 0 => CommittedOf(t) <= Limits[t].usd[w] + over[t]

\* A stored total that a later process may restore fits the budget.
RowsBound ==
    \A t \in Tenants \ configured, w \in Window :
        (/\ store[t] # Absent
         /\ Limits[t].usd[w] > 0
         /\ ~expired(store[t].start[w], WindowLength[w]))
        => store[t].spent[w] <= Limits[t].usd[w] + over[t]

OvershootInv == ClaimsBound /\ OvershootBound /\ RowsBound

\* The types of everything the bound compares.
LEMMA BoundTypes ==
  ASSUME TypeOK, NEW t \in Tenants, NEW w \in Window
  PROVE  /\ Limits[t].usd[w] \in Nat /\ WindowLength[w] \in Nat /\ over[t] \in Int
         /\ clock \in Nat /\ CommittedOf(t) \in Nat
         /\ stateFor(t).spent[w] \in Nat /\ stateFor(t).committed \in Nat
         /\ state[t] # Absent => /\ state[t].spent[w] \in Nat /\ state[t].committed \in Nat
                                 /\ state[t].start[w] \in Nat
         /\ store[t] # Absent => store[t].spent[w] \in Nat /\ store[t].start[w] \in Nat
<1>1. Limits[t] \in LimitRecord
  OBVIOUS
<1>2. Limits[t].usd[w] \in Nat /\ WindowLength[w] \in Nat /\ over[t] \in Int /\ clock \in Nat
  BY <1>1 DEF LimitRecord, TypeOK
<1>3. stateFor(t) \in TenantState /\ CommittedOf(t) = stateFor(t).committed
  BY StateForFacts
<1>4. stateFor(t).spent[w] \in Nat /\ stateFor(t).committed \in Nat
  BY <1>3 DEF TenantState
<1>5. state[t] # Absent => state[t] \in TenantState
  BY DEF TypeOK
<1>6. state[t] # Absent => /\ state[t].spent[w] \in Nat /\ state[t].committed \in Nat
                           /\ state[t].start[w] \in Nat
  BY <1>5 DEF TenantState
<1>7. store[t] # Absent => store[t].spent[w] \in Nat /\ store[t].start[w] \in Nat
  BY RowTypes DEF IsRow
<1> QED BY <1>2, <1>3, <1>4, <1>6, <1>7

\* An open claim is part of the committed amount, so giving it back never
\* reaches the clamp at zero.
LEMMA ClaimCovered ==
  ASSUME TypeOK, CommittedIsOpenClaims, NEW id \in 1..Len(issued), id \notin done
  PROVE  issued[id].usd <= CommittedOf(issued[id].tenant)
<1> DEFINE n == Len(issued)
           u == issued[id].tenant
<1>1. u \in Tenants /\ issued[id].usd \in Nat /\ n \in Nat
  BY IssuedFacts, OpenClaimsFacts
<1>2. OpenClaims(u) \in [1..n -> Nat] /\ OpenClaims(u)[id] = issued[id].usd
  BY <1>1, OpenClaimsFacts
<1>3. CommittedOf(u) = SumTo(OpenClaims(u), n)
  BY <1>1 DEF CommittedIsOpenClaims
<1>4. id \in 1..n
  OBVIOUS
<1> HIDE DEF n, u
<1> QED BY <1>1, <1>2, <1>3, <1>4, SumOfNaturals DEF u

\* Every handler starts from stateFor, whose counters keep the bound in every
\* window, the ones just cleared included.
LEMMA StateForBound ==
  ASSUME TypeOK, StoreInv, OvershootInv,
         NEW t \in Tenants, NEW w \in Window, Limits[t].usd[w] > 0
  PROVE  stateFor(t).spent[w] + CommittedOf(t) <= Limits[t].usd[w] + over[t]
<1>1. CommittedOf(t) <= Limits[t].usd[w] + over[t]
  BY DEF OvershootInv, ClaimsBound
<1>2. CASE stateFor(t).spent[w] = 0
  BY <1>1, <1>2, BoundTypes
<1>3. CASE /\ state[t] # Absent
           /\ ~expired(state[t].start[w], WindowLength[w])
           /\ stateFor(t).spent[w] = state[t].spent[w]
  BY <1>3 DEF OvershootInv, OvershootBound, CommittedOf
<1> QED BY <1>2, <1>3, StateForCurrent DEF StoreInv

\* An update of one tenant's counters that keeps the bound from stateFor on.
\* Only a tenant of the running process has its allowance changed.
LEMMA UpdateKeepsBound ==
  ASSUME TypeOK, TypeOK', StoreInv, OvershootInv, NEW t \in Tenants, NEW new \in TenantState,
         state' = [state EXCEPT ![t] = new],
         \A v \in Tenants : v # t => over'[v] = over[v],
         t \in configured \/ over'[t] = over[t],
         \A w \in Window : Limits[t].usd[w] > 0 =>
             new.spent[w] + new.committed <= Limits[t].usd[w] + over'[t],
         UNCHANGED <<clock, configured, store>>
  PROVE  OvershootInv'
<1>1. /\ \A v \in Tenants : v # t => state'[v] = state[v]
      /\ state'[t] = new /\ new # Absent
  BY DEF TypeOK
<1>2. \A w \in Window : new.spent[w] \in Nat /\ new.committed \in Nat
  BY DEF TenantState
<1>3. ClaimsBound'
  <2> SUFFICES ASSUME NEW v \in Tenants, NEW w \in Window, Limits[v].usd[w] > 0
               PROVE  CommittedOf(v)' <= Limits[v].usd[w] + over'[v]
    BY DEF ClaimsBound
  <2>1. CASE v = t
    <3>1. CommittedOf(t)' = new.committed
      BY <1>1 DEF CommittedOf
    <3>2. Limits[t].usd[w] \in Nat /\ over'[t] \in Int
      BY BoundTypes DEF TypeOK
    <3>3. new.spent[w] + new.committed <= Limits[t].usd[w] + over'[t]
      BY <2>1
    <3> QED BY <2>1, <3>1, <3>2, <3>3, <1>2
  <2>2. CASE v # t
    BY <1>1, <2>2 DEF CommittedOf, OvershootInv, ClaimsBound
  <2> QED BY <2>1, <2>2
<1>4. OvershootBound'
  <2> SUFFICES ASSUME NEW v \in Tenants, NEW w \in Window, state'[v] # Absent,
                      Limits[v].usd[w] > 0,
                      ~(clock - state'[v].start[w] >= WindowLength[w])
               PROVE  state'[v].spent[w] + state'[v].committed <= Limits[v].usd[w] + over'[v]
    BY DEF OvershootBound, expired
  <2>1. CASE v = t
    BY <1>1, <2>1
  <2>2. CASE v # t
    BY <1>1, <2>2 DEF OvershootInv, OvershootBound, expired
  <2> QED BY <2>1, <2>2
<1>5. RowsBound'
  <2>1. \A v \in Tenants \ configured : over'[v] = over[v]
    OBVIOUS
  <2> QED BY <2>1 DEF OvershootInv, RowsBound, expired
<1> QED BY <1>3, <1>4, <1>5 DEF OvershootInv

\* An unexpired row in the store fits the budget, whoever it belongs to: a
\* configured tenant's row is an earlier view of its counters.
LEMMA StoredRowBound ==
  ASSUME TypeOK, StoreInv, OvershootInv, NEW t \in Tenants, NEW w \in Window,
         store[t] # Absent, Limits[t].usd[w] > 0,
         ~expired(store[t].start[w], WindowLength[w])
  PROVE  store[t].spent[w] <= Limits[t].usd[w] + over[t]
<1>1. CASE t \notin configured
  BY <1>1 DEF OvershootInv, RowsBound
<1>2. CASE t \in configured
  <2>1. /\ state[t] # Absent
        /\ \/ store[t].start[w] + WindowLength[w] <= state[t].start[w]
           \/ store[t].start[w] = state[t].start[w] /\ store[t].spent[w] <= state[t].spent[w]
        /\ state[t].start[w] <= clock
    BY <1>2 DEF StoreInv, RowsBeforeMemory, Before, StartsInPast
  <2>2. store[t].start[w] = state[t].start[w] /\ store[t].spent[w] <= state[t].spent[w]
    BY <2>1, BoundTypes DEF expired
  <2>3. state[t].spent[w] + state[t].committed <= Limits[t].usd[w] + over[t]
    BY <2>1, <2>2 DEF OvershootInv, OvershootBound
  <2> QED BY <2>1, <2>2, <2>3, BoundTypes
<1> QED BY <1>1, <1>2

\* An admission leaves room in every budget it was checked against.
LEMMA AdmissionFits ==
  ASSUME NEW st, NEW lim, NEW est, checkBudgets(st, lim, est) = "none", NEW w \in Window
  PROVE  ~overBudget(st, lim, est, w)
<1>1. ~overBudget(st, lim, est, "daily") /\ ~overBudget(st, lim, est, "monthly")
  BY DEF checkBudgets
<1> QED BY <1>1 DEF Window

\* A step that leaves everything the bound is about alone.
LEMMA BoundKept ==
  ASSUME OvershootInv, UNCHANGED <<clock, configured, state, store, over>>
  PROVE  OvershootInv'
BY DEF OvershootInv, ClaimsBound, OvershootBound, RowsBound, CommittedOf, expired

\* A tenant is never over a budget by more than the requests settled since its
\* last admission cost over their estimates: the bound in types.go.
THEOREM OvershootBounded == Spec => []OvershootBound
<1>1. Init => OvershootInv
  <2> SUFFICES ASSUME Init PROVE OvershootInv
    OBVIOUS
  <2>1. \A t \in Tenants : CommittedOf(t) = 0 /\ state[t] = Absent /\ over[t] = 0
                           /\ store[t] = Absent
    BY DEF Init, CommittedOf
  <2>2. \A t \in Tenants, w \in Window : Limits[t].usd[w] \in Nat
    BY DEF LimitRecord
  <2> QED BY <2>1, <2>2 DEF OvershootInv, ClaimsBound, OvershootBound, RowsBound
<1>2. /\ TypeOK /\ TypeOK' /\ StoreInv /\ CommittedIsOpenClaims
      /\ OvershootInv /\ [Next]_vars
      => OvershootInv'
  <2> SUFFICES ASSUME TypeOK, TypeOK', StoreInv, CommittedIsOpenClaims, OvershootInv,
                      [Next]_vars
               PROVE  OvershootInv'
    OBVIOUS
  <2>1. ASSUME UNCHANGED vars PROVE OvershootInv'
    BY <2>1, BoundKept DEF vars, memory, writing, history
  <2>2. ASSUME NEW t \in Tenants, state' = [state EXCEPT ![t] = stateFor(t)],
               UNCHANGED <<clock, configured, store, over>>
        PROVE  OvershootInv'
    <3> DEFINE new == stateFor(t)
    <3>1. new \in TenantState /\ new.committed = CommittedOf(t)
      BY StateForFacts
    <3>2. \A w \in Window : Limits[t].usd[w] > 0 =>
             new.spent[w] + new.committed <= Limits[t].usd[w] + over'[t]
      BY <2>2, <3>1, StateForBound
    <3> HIDE DEF new
    <3> QED BY <2>2, <3>1, <3>2, UpdateKeepsBound DEF new
  <2>3. ASSUME NEW t \in Tenants, NEW est \in Estimates, ReserveAdmitted(t, est)
        PROVE  OvershootInv'
    <3> DEFINE st  == stateFor(t)
               new == [st EXCEPT !.committed = st.committed + est.usd,
                                 !.requests  = st.requests + 1,
                                 !.tokens    = st.tokens + est.tokens]
    <3>1. /\ state' = [state EXCEPT ![t] = new]
          /\ over' = [over EXCEPT ![t] = 0]
          /\ t \in configured
          /\ checkBudgets(st, Limits[t], est) = "none"
          /\ UNCHANGED <<clock, configured, store>>
      BY <2>3 DEF ReserveAdmitted, Sighted, writing
    <3>2. st \in TenantState /\ est \in Amount
      BY StateForFacts
    <3>3. Advances(t, new)
      BY UpdatesAdvance
    <3>4. new \in TenantState
      BY <3>3 DEF Advances
    <3> HIDE DEF st
    <3>5. new.spent = st.spent /\ new.committed = st.committed + est.usd
      BY <3>2 DEF TenantState
    <3> HIDE DEF new
    <3>6. over'[t] = 0 /\ \A v \in Tenants : v # t => over'[v] = over[v]
      BY <3>1 DEF TypeOK
    <3>7. ASSUME NEW w \in Window, Limits[t].usd[w] > 0
          PROVE  new.spent[w] + new.committed <= Limits[t].usd[w] + over'[t]
      <4>1. ~(st.spent[w] + st.committed + est.usd > Limits[t].usd[w])
        BY <3>1, <3>7, AdmissionFits DEF overBudget
      <4>2. /\ st.spent[w] \in Nat /\ st.committed \in Nat
            /\ est.usd \in Nat /\ Limits[t].usd[w] \in Nat
        BY <3>2, BoundTypes DEF TenantState, Amount
      <4> QED BY <3>5, <3>6, <4>1, <4>2
    <3> QED BY <3>1, <3>4, <3>6, <3>7, UpdateKeepsBound
  <2>4. ASSUME NEW id \in 1..Len(issued), NEW use \in Usages, Settle(id, use)
        PROVE  OvershootInv'
    <3> DEFINE r   == issued[id]
               t   == r.tenant
               st  == stateFor(t)
               new == Settled(st, r, use)
    <3>1. /\ id \notin done
          /\ state' = [state EXCEPT ![t] = new]
          /\ over' = [over EXCEPT ![t] = over[t] + use.usd - r.usd]
          /\ UNCHANGED <<clock, configured, store>>
      BY <2>4 DEF Settle, Open
    <3>2. r \in Reservation /\ t \in Tenants /\ r.usd \in Nat /\ use \in Amount
      BY IssuedFacts
    <3>3. t \in configured
      BY DEF StoreInv, IssuedConfigured
    <3>4. st \in TenantState /\ st.committed = CommittedOf(t)
      BY <3>2, StateForFacts
    <3>5. r.usd <= CommittedOf(t)
      BY <3>1, ClaimCovered
    <3>6. /\ new \in TenantState
          /\ new.committed = monus(st.committed, r.usd)
          /\ new.spent = [w \in Window |-> st.spent[w] + use.usd]
      BY <3>2, <3>4, SettledFacts
    <3>7. \A w \in Window : Limits[t].usd[w] > 0 =>
             st.spent[w] + CommittedOf(t) <= Limits[t].usd[w] + over[t]
      BY <3>2, StateForBound
    <3>8. \A w \in Window : Limits[t].usd[w] \in Nat /\ st.spent[w] \in Nat
                            /\ CommittedOf(t) \in Nat /\ over[t] \in Int
      BY <3>2, BoundTypes
    <3>9. use.usd \in Nat
      BY <3>2 DEF Amount
    <3> HIDE DEF new, st, t, r
    <3>10. over'[t] = over[t] + use.usd - r.usd
           /\ \A v \in Tenants : v # t => over'[v] = over[v]
      BY <3>1, <3>2 DEF TypeOK
    <3>11. new.committed = CommittedOf(t) - r.usd
      BY <3>2, <3>4, <3>5, <3>6, <3>8 DEF monus, Window
    <3>12. ASSUME NEW w \in Window, Limits[t].usd[w] > 0
           PROVE  new.spent[w] + new.committed <= Limits[t].usd[w] + over'[t]
      <4>1. new.spent[w] = st.spent[w] + use.usd
        BY <3>6
      <4>2. st.spent[w] + CommittedOf(t) <= Limits[t].usd[w] + over[t]
        BY <3>7, <3>12
      <4>3. /\ st.spent[w] \in Nat /\ CommittedOf(t) \in Nat /\ Limits[t].usd[w] \in Nat
            /\ over[t] \in Int /\ use.usd \in Nat /\ r.usd \in Nat
        BY <3>2, <3>8, <3>9
      <4>4. over'[t] = over[t] + use.usd - r.usd
        BY <3>10
      <4> DEFINE a == st.spent[w]
                 b == CommittedOf(t)
                 l == Limits[t].usd[w]
                 o == over[t]
                 u == use.usd
                 e == r.usd
      <4>5. a + b <= l + o /\ a \in Nat /\ b \in Nat /\ l \in Nat /\ o \in Int
            /\ u \in Nat /\ e \in Nat
        BY <4>2, <4>3
      <4>6. new.spent[w] = a + u /\ new.committed = b - e /\ over'[t] = o + u - e
        BY <3>11, <4>1, <4>4
      <4> HIDE DEF a, b, l, o, u, e
      <4>7. new.spent[w] + new.committed <= l + over'[t]
        BY <4>5, <4>6
      <4> QED BY <4>7 DEF l
    <3> QED BY <3>1, <3>2, <3>3, <3>6, <3>10, <3>12, UpdateKeepsBound
  <2>5. ASSUME NEW id \in 1..Len(issued), Release(id) PROVE OvershootInv'
    <3> DEFINE r   == issued[id]
               t   == r.tenant
               st  == stateFor(t)
               new == [st EXCEPT !.committed = monus(st.committed, r.usd)]
    <3>1. /\ state' = [state EXCEPT ![t] = new]
          /\ UNCHANGED <<clock, configured, store, over>>
      BY <2>5 DEF Release, writing, history
    <3>2. t \in Tenants /\ r.usd \in Nat
      BY IssuedFacts
    <3>3. st \in TenantState /\ st.committed = CommittedOf(t)
      BY <3>2, StateForFacts
    <3>4. \A w \in Window : Limits[t].usd[w] > 0 =>
             st.spent[w] + CommittedOf(t) <= Limits[t].usd[w] + over[t]
      BY <3>2, StateForBound
    <3>5. \A w \in Window : Limits[t].usd[w] \in Nat /\ st.spent[w] \in Nat
                            /\ CommittedOf(t) \in Nat /\ over[t] \in Int
      BY <3>2, BoundTypes
    <3> HIDE DEF st, t, r
    <3>6. monus(st.committed, r.usd) \in Nat /\ monus(st.committed, r.usd) <= st.committed
      BY <3>2, <3>3, <3>5 DEF monus, Window
    <3>7. /\ new \in TenantState /\ new.spent = st.spent
          /\ new.committed = monus(st.committed, r.usd)
      BY <3>3, <3>6 DEF TenantState
    <3> HIDE DEF new
    <3>8. \A w \in Window : Limits[t].usd[w] > 0 =>
             new.spent[w] + new.committed <= Limits[t].usd[w] + over'[t]
      BY <3>1, <3>3, <3>4, <3>5, <3>6, <3>7
    <3> QED BY <3>1, <3>2, <3>7, <3>8, UpdateKeepsBound
  <2>6. ASSUME NEW p \in pending, PersistStale(p) \/ PersistFailed(p) PROVE OvershootInv'
    BY <2>6, BoundKept DEF PersistStale, PersistFailed, memory, history
  <2>7. ASSUME NEW p \in pending, PersistSaved(p) PROVE OvershootInv'
    <3>1. /\ store' = [store EXCEPT ![p.tenant] = p.row]
          /\ UNCHANGED <<clock, configured, state, over>>
      BY <2>7 DEF PersistSaved, memory, history
    <3>2. p.tenant \in configured
      BY DEF StoreInv, RowsBeforeMemory
    <3>3. \A t \in Tenants \ configured : store'[t] = store[t]
      BY <3>1, <3>2 DEF TypeOK
    <3>4. RowsBound'
      BY <3>1, <3>3 DEF OvershootInv, RowsBound, expired
    <3> QED BY <3>1, <3>4
            DEF OvershootInv, ClaimsBound, OvershootBound, CommittedOf, expired
  <2>8. ASSUME setStoreHealthy PROVE OvershootInv'
    BY <2>8, BoundKept DEF setStoreHealthy, memory, history
  <2>9. ASSUME Tick PROVE OvershootInv'
    <3>1. clock' = clock + 1 /\ UNCHANGED <<configured, state, store, over>>
      BY <2>9 DEF Tick, memory, writing, history
    <3>2. \A t \in Tenants, w \in Window :
             /\ clock \in Nat /\ WindowLength[w] \in Nat
             /\ state[t] # Absent => state[t].start[w] \in Nat
             /\ store[t] # Absent => store[t].start[w] \in Nat
      BY BoundTypes
    <3>3. ClaimsBound'
      BY <3>1 DEF OvershootInv, ClaimsBound, CommittedOf
    <3>4. OvershootBound'
      BY <3>1, <3>2 DEF OvershootInv, OvershootBound, expired
    <3>5. RowsBound'
      BY <3>1, <3>2 DEF OvershootInv, RowsBound, expired
    <3> QED BY <3>3, <3>4, <3>5 DEF OvershootInv
  <2>10. ASSUME NEW conf \in SUBSET Tenants, Restart(conf) PROVE OvershootInv'
    <3>1. /\ state' = [t \in Tenants |-> RestoredState(t, conf)]
          /\ UNCHANGED <<clock, store, over>>
      BY <2>10 DEF Restart
    <3>2. \A t \in Tenants : CommittedOf(t)' = 0
      BY <3>1 DEF CommittedOf, RestoredState
    <3>3. \A t \in Tenants : state'[t] # Absent =>
             /\ store[t] # Absent /\ state'[t].start = store[t].start
             /\ state'[t].spent = store[t].spent /\ state'[t].committed = 0
      BY <3>1 DEF RestoredState
    <3>4. \A t \in Tenants, w \in Window : Limits[t].usd[w] > 0 =>
             0 <= Limits[t].usd[w] + over[t]
      BY BoundTypes DEF OvershootInv, ClaimsBound
    <3>5. ClaimsBound'
      BY <3>1, <3>2, <3>4 DEF ClaimsBound
    <3>6. OvershootBound'
      <4> SUFFICES ASSUME NEW t \in Tenants, NEW w \in Window, state'[t] # Absent,
                          Limits[t].usd[w] > 0,
                          ~(clock - state'[t].start[w] >= WindowLength[w])
                   PROVE  state'[t].spent[w] + state'[t].committed <= Limits[t].usd[w] + over[t]
        BY <3>1 DEF OvershootBound, expired
      <4>1. store[t].spent[w] <= Limits[t].usd[w] + over[t]
        BY <3>3, StoredRowBound DEF expired
      <4> QED BY <3>3, <4>1, BoundTypes
    <3>7. RowsBound'
      BY <3>1, StoredRowBound DEF RowsBound, expired
    <3> QED BY <3>5, <3>6, <3>7 DEF OvershootInv
  <2>11. ASSUME NEW t \in Tenants, Reserve(t) \/ Read(t) PROVE OvershootInv'
    <3>1. CASE ReserveBlind(t)
      BY <2>1, <3>1 DEF ReserveBlind
    <3>2. CASE \E est \in Estimates : ReserveDenied(t, est)
      BY <2>2, <3>2 DEF ReserveDenied, writing, history
    <3>3. CASE \E est \in Estimates : ReserveAdmitted(t, est)
      BY <2>3, <3>3
    <3>4. CASE Read(t)
      BY <2>2, <3>4 DEF Read, writing, history
    <3> QED BY <2>11, <3>1, <3>2, <3>3, <3>4 DEF Reserve
  <2>12. ASSUME NEW id \in 1..Len(issued), Close(id) PROVE OvershootInv'
    BY <2>1, <2>4, <2>5, <2>12 DEF Close, CloseAgain
  <2> QED
    BY <2>1, <2>6, <2>7, <2>8, <2>9, <2>10, <2>11, <2>12 DEF Next, Persist
<1>3. OvershootInv => OvershootBound
  BY DEF OvershootInv
<1> QED BY <1>1, <1>2, <1>3, TypeCorrect, RowsOrdered, CommittedCorrect, PTL DEF Spec

-----------------------------------------------------------------------------
(* What was spent is what was settled *)

\* The row a process started from is behind the counters of a tenant it knows.
RestoredInPast ==
    \A t \in configured : restored[t] # Absent =>
        /\ state[t] # Absent
        /\ \A w \in Window : SameOrOver(w, restored[t].start[w], state[t].start[w])

\* A bill is of windows that were running, and that the counters are still of or that
\* have run their length.
Placed(b) ==
    \A w \in Window :
        /\ state[b.tenant] # Absent
        /\ b.at \in Span(w, b.start[w])
        /\ SameOrOver(w, b.start[w], state[b.tenant].start[w])

BilledInWindow == \A i \in 1..Len(bills) : Placed(bills[i])

\* The first part of what is to be shown: every counter is the sum it should be.
SpentSums ==
    \A t \in Tenants, w \in Window : state[t] # Absent =>
        state[t].spent[w] = Carried(restored, configured, t, w, state[t].start[w])
                            + SumTo(Charges(bills, t, w, state[t].start[w]), Len(bills))

SpentInv == RestoredInPast /\ BilledInWindow /\ SpentSums

\* A window that ended before another began ended before the ones after that.
LEMMA WindowsFollow ==
  ASSUME NEW w \in Window, NEW a \in Nat, NEW b \in Nat, NEW c \in Nat,
         SameOrOver(w, a, b), SameOrOver(w, b, c)
  PROVE  SameOrOver(w, a, c)
<1>1. WindowLength[w] \in Nat
  OBVIOUS
<1> QED BY <1>1 DEF SameOrOver

\* Bills, their sums and the rows a process started from have their types.
LEMMA BillFacts ==
  ASSUME TypeOK
  PROVE  /\ Len(bills) \in Nat
         /\ \A i \in 1..Len(bills) : bills[i].tenant \in Tenants /\ bills[i].at \in Nat /\ bills[i].usd \in Nat
                                       /\ bills[i].start \in [Window -> Nat]
         /\ \A t, w, from : Charges(bills, t, w, from) \in [1..Len(bills) -> Nat]
         /\ \A t \in Tenants : restored[t] # Absent => IsRow(restored[t])
         /\ \A t \in Tenants : \A w \in Window : \A from : Carried(restored, configured, t, w, from) \in Nat
<1>1. Len(bills) \in Nat /\ \A i \in 1..Len(bills) : bills[i] \in Bill
  BY LenProperties DEF TypeOK
<1>2. \A i \in 1..Len(bills) : bills[i].tenant \in Tenants /\ bills[i].at \in Nat /\ bills[i].usd \in Nat
                               /\ bills[i].start \in [Window -> Nat]
  BY <1>1 DEF Bill
<1>3. \A t, w, from : Charges(bills, t, w, from) \in [1..Len(bills) -> Nat]
  BY <1>1, <1>2 DEF Charges
<1>4. \A t \in Tenants : restored[t] # Absent => IsRow(restored[t])
  BY DEF TypeOK, Row, IsRow
<1>5. \A t \in Tenants : \A w \in Window : \A from : Carried(restored, configured, t, w, from) \in Nat
  BY <1>4 DEF Carried, IsRow
<1> QED BY <1>1, <1>2, <1>3, <1>4, <1>5

\* The totals stateFor returns are explained the same way: a window that has just
\* begun holds nothing, and nothing was billed in it.
LEMMA StateForSpent ==
  ASSUME TypeOK, StoreInv, SpentInv, NEW t \in Tenants, NEW w \in Window
  PROVE  /\ stateFor(t).spent[w] = Carried(restored, configured, t, w, stateFor(t).start[w])
                                   + SumTo(Charges(bills, t, w, stateFor(t).start[w]), Len(bills))
         /\ state[t] # Absent => SameOrOver(w, state[t].start[w], stateFor(t).start[w])
<1>1. /\ clock \in Nat /\ WindowLength[w] \in Nat /\ WindowLength[w] > 0
      /\ state[t] # Absent => state[t].start[w] \in Nat /\ state[t].start[w] <= clock
      /\ stateFor(t).start[w] \in Nat /\ stateFor(t).spent[w] \in Nat
  <2>1. IsRow(stateFor(t)) /\ (state[t] # Absent => IsRow(state[t]))
    BY RowTypes
  <2>2. clock \in Nat /\ WindowLength[w] \in Nat /\ WindowLength[w] > 0
    BY DEF TypeOK
  <2> QED BY <2>1, <2>2 DEF IsRow, StoreInv, StartsInPast
<1>2. CASE /\ state[t] # Absent
           /\ stateFor(t).spent[w] = state[t].spent[w]
           /\ stateFor(t).start[w] = state[t].start[w]
  BY <1>1, <1>2 DEF SpentInv, SpentSums, SameOrOver
<1>3. CASE /\ stateFor(t).spent[w] = 0 /\ stateFor(t).start[w] = clock
           /\ state[t] # Absent => state[t].start[w] + WindowLength[w] <= clock
  <2>1. ASSUME NEW i \in 1..Len(bills), bills[i].tenant = t
        PROVE  bills[i].at \notin Span(w, clock)
    <3>1. /\ state[t] # Absent /\ bills[i].at \in Span(w, bills[i].start[w])
          /\ SameOrOver(w, bills[i].start[w], state[t].start[w])
      BY <2>1 DEF SpentInv, BilledInWindow, Placed
    <3>2. bills[i].at \in Nat /\ bills[i].start[w] \in Nat
      BY BillFacts
    <3> QED BY <1>1, <1>3, <3>1, <3>2 DEF Span, SameOrOver
  <2>2. \A i \in 1..Len(bills) : Charges(bills, t, w, clock)[i] = 0
    BY <2>1 DEF Charges
  <2>3. SumTo(Charges(bills, t, w, clock), Len(bills)) = 0
    <3>1. Len(bills) \in Nat
      BY BillFacts
    <3> QED BY <2>2, <3>1, SumOfZeros
  <2>4. ASSUME restored[t] # Absent, restored[t].start[w] = clock PROVE t \notin configured
    <3>1. t \in configured => state[t] # Absent /\ SameOrOver(w, clock, state[t].start[w])
      BY <2>4 DEF SpentInv, RestoredInPast
    <3> QED BY <1>1, <1>3, <2>4, <3>1 DEF SameOrOver
  <2>5. Carried(restored, configured, t, w, clock) = 0
    BY <2>4 DEF Carried
  <2>6. state[t] # Absent => SameOrOver(w, state[t].start[w], clock)
    BY <1>3 DEF SameOrOver
  <2> QED BY <1>3, <2>3, <2>5, <2>6
<1>4. \/ /\ state[t] # Absent
         /\ stateFor(t).spent[w] = state[t].spent[w]
         /\ stateFor(t).start[w] = state[t].start[w]
      \/ /\ stateFor(t).spent[w] = 0 /\ stateFor(t).start[w] = clock
         /\ state[t] # Absent => state[t].start[w] + WindowLength[w] <= clock
  <2>1. \/ stateFor(t).spent[w] = 0 /\ stateFor(t).start[w] = clock
        \/ state[t] # Absent /\ stateFor(t).spent[w] = state[t].spent[w]
           /\ stateFor(t).start[w] = state[t].start[w]
    BY StateForCurrent DEF StoreInv
  <2>2. state[t] # Absent =>
          \/ state[t].start[w] + WindowLength[w] <= stateFor(t).start[w]
          \/ stateFor(t).spent[w] = state[t].spent[w] /\ stateFor(t).start[w] = state[t].start[w]
    BY StateForCurrent DEF StoreInv
  <2> QED BY <2>1, <2>2
<1> QED BY <1>2, <1>3, <1>4

\* A step that starts from stateFor keeps the rows and the bills where they were.
LEMMA WindowsKept ==
  ASSUME TypeOK, StoreInv, SpentInv, NEW t \in Tenants, NEW new \in TenantState,
         new.start = stateFor(t).start, state' = [state EXCEPT ![t] = new],
         UNCHANGED <<configured, restored>>
  PROVE  /\ RestoredInPast'
         /\ \A i \in 1..Len(bills) : \A w \in Window :
              /\ state'[bills[i].tenant] # Absent
              /\ bills[i].at \in Span(w, bills[i].start[w])
              /\ SameOrOver(w, bills[i].start[w], state'[bills[i].tenant].start[w])
<1>1. /\ state'[t] = new /\ new # Absent
      /\ \A v \in Tenants : v # t => state'[v] = state[v]
  BY DEF TypeOK
<1>2. ASSUME NEW v \in Tenants, state[v] # Absent, NEW w \in Window
      PROVE  state'[v] # Absent /\ SameOrOver(w, state[v].start[w], state'[v].start[w])
             /\ state[v].start[w] \in Nat /\ state'[v].start[w] \in Nat
  <2>1. IsRow(state[v]) /\ IsRow(stateFor(t))
    BY <1>2, RowTypes
  <2>2. state[v].start[w] \in Nat /\ stateFor(t).start[w] \in Nat
    BY <2>1 DEF IsRow
  <2>3. CASE v = t
    BY <1>1, <1>2, <2>2, <2>3, StateForSpent
  <2>4. CASE v # t
    BY <1>1, <1>2, <2>2, <2>4 DEF SameOrOver
  <2> QED BY <2>3, <2>4
<1>3. RestoredInPast'
  <2> SUFFICES ASSUME NEW v \in configured, restored[v] # Absent
               PROVE  /\ state'[v] # Absent
                      /\ \A w \in Window : SameOrOver(w, restored[v].start[w], state'[v].start[w])
    BY DEF RestoredInPast
  <2>1. /\ v \in Tenants /\ state[v] # Absent
        /\ \A w \in Window : SameOrOver(w, restored[v].start[w], state[v].start[w])
    BY DEF SpentInv, RestoredInPast, TypeOK
  <2>2. IsRow(restored[v])
    BY <2>1, BillFacts
  <2>3. \A w \in Window : restored[v].start[w] \in Nat
    BY <2>2 DEF IsRow
  <2>4. state'[v] # Absent
    BY <1>1, <2>1
  <2> QED BY <1>2, <2>1, <2>3, <2>4, WindowsFollow
<1>4. ASSUME NEW i \in 1..Len(bills), NEW w \in Window
      PROVE  /\ state'[bills[i].tenant] # Absent
             /\ bills[i].at \in Span(w, bills[i].start[w])
             /\ SameOrOver(w, bills[i].start[w], state'[bills[i].tenant].start[w])
  <2>1. /\ bills[i].tenant \in Tenants /\ bills[i].start[w] \in Nat
        /\ state[bills[i].tenant] # Absent
        /\ bills[i].at \in Span(w, bills[i].start[w])
        /\ SameOrOver(w, bills[i].start[w], state[bills[i].tenant].start[w])
    BY BillFacts DEF SpentInv, BilledInWindow, Placed
  <2> DEFINE v == bills[i].tenant
  <2>2. /\ state'[v] # Absent /\ SameOrOver(w, state[v].start[w], state'[v].start[w])
        /\ state[v].start[w] \in Nat /\ state'[v].start[w] \in Nat
    <3> HIDE DEF v
    <3> QED BY <1>2, <2>1 DEF v
  <2>3. SameOrOver(w, bills[i].start[w], state[v].start[w])
    BY <2>1
  <2> HIDE DEF v
  <2>4. SameOrOver(w, bills[i].start[w], state'[v].start[w])
    BY <2>1, <2>2, <2>3, WindowsFollow
  <2> QED BY <2>1, <2>2, <2>4 DEF v
<1> QED BY <1>3, <1>4

\* A step that settles nothing.
LEMMA SpentTouched ==
  ASSUME TypeOK, StoreInv, SpentInv, NEW t \in Tenants, Touches(t)
  PROVE  SpentInv'
<1>1. PICK new \in TenantState :
        /\ new.start = stateFor(t).start /\ new.spent = stateFor(t).spent
        /\ state' = [state EXCEPT ![t] = new]
        /\ UNCHANGED <<configured, bills, restored>>
  BY DEF Touches
<1>2. /\ state'[t] = new /\ \A v \in Tenants : v # t => state'[v] = state[v]
  BY <1>1 DEF TypeOK
<1>3. RestoredInPast' /\ BilledInWindow'
  BY <1>1, WindowsKept DEF BilledInWindow, Placed
<1>4. ASSUME NEW v \in Tenants, NEW w \in Window, state'[v] # Absent
      PROVE  state'[v].spent[w] = Carried(restored, configured, v, w, state'[v].start[w])
                                  + SumTo(Charges(bills, v, w, state'[v].start[w]), Len(bills))
  <2>1. CASE v = t
    BY <1>1, <1>2, <2>1, StateForSpent
  <2>2. CASE v # t
    BY <1>2, <1>4, <2>2 DEF SpentInv, SpentSums
  <2> QED BY <2>1, <2>2
<1>5. SpentSums'
  BY <1>1, <1>4 DEF SpentSums
<1> QED BY <1>3, <1>5 DEF SpentInv

\* A settlement is billed once, to the windows that hold now.
LEMMA SpentSettled ==
  ASSUME TypeOK, StoreInv, SpentInv, NEW id \in 1..Len(issued), NEW use \in Usages, Settle(id, use)
  PROVE  SpentInv'
<1> DEFINE r   == issued[id]
           t   == r.tenant
           st  == stateFor(t)
           new == Settled(st, r, use)
           b   == [id |-> id, tenant |-> t, usd |-> use.usd, tokens |-> use.tokens, at |-> clock,
                   start |-> new.start]
           n   == Len(bills)
<1>1. r \in Reservation /\ t \in Tenants /\ use \in Amount /\ st \in TenantState
  BY IssuedFacts, StateForFacts
<1>2. /\ new \in TenantState /\ new.start = st.start
      /\ new.spent = [w \in Window |-> st.spent[w] + use.usd]
  BY <1>1, SettledFacts
<1>3. /\ state' = [state EXCEPT ![t] = new] /\ bills' = Append(bills, b)
      /\ UNCHANGED <<clock, configured, restored>>
  BY DEF Settle
<1>4. /\ b.tenant = t /\ b.usd = use.usd /\ b.at = clock /\ b.start = st.start
      /\ use.usd \in Nat /\ clock \in Nat /\ b \in Bill
  <2>1. use.usd \in Nat /\ use.tokens \in Nat /\ clock \in Nat /\ id \in Nat
    BY <1>1, LenProperties DEF Amount, TypeOK
  <2>2. new.start = st.start /\ new.start \in [Window -> Nat]
    BY <1>2 DEF TenantState
  <2> HIDE DEF new, st
  <2> QED BY <1>1, <2>1, <2>2 DEF Bill
<1> HIDE DEF b, new
<1>5. /\ n \in Nat /\ Len(bills') = n + 1 /\ bills'[n + 1] = b
      /\ \A i \in 1..n : bills'[i] = bills[i]
  BY <1>3, <1>4, AppendProperties, LenProperties DEF TypeOK
<1>6. /\ state'[t] = new /\ new # Absent
      /\ \A v \in Tenants : v # t => state'[v] = state[v]
  BY <1>1, <1>2, <1>3 DEF TypeOK
<1>7. \A w \in Window : /\ st.start[w] <= clock /\ clock - st.start[w] < WindowLength[w]
                        /\ st.start[w] \in Nat /\ WindowLength[w] \in Nat /\ st.spent[w] \in Nat
  <2>1. IsRow(st)
    BY <1>1, RowTypes
  <2>2. \A w \in Window : st.start[w] <= clock /\ clock - st.start[w] < WindowLength[w]
    BY <1>1, StateForCurrent DEF StoreInv
  <2> QED BY <2>1, <2>2 DEF IsRow
<1>8. /\ \A v \in Tenants, w \in Window :
            /\ v = t \/ state[v] # Absent
            => Carried(restored, configured, v, w, (IF v = t THEN st ELSE state[v]).start[w])
               + SumTo(Charges(bills, v, w, (IF v = t THEN st ELSE state[v]).start[w]), n)
               = (IF v = t THEN st ELSE state[v]).spent[w]
  BY StateForSpent DEF SpentInv, SpentSums
<1>9. RestoredInPast' /\ \A i \in 1..n : \A w \in Window :
        /\ state'[bills[i].tenant] # Absent
        /\ bills[i].at \in Span(w, bills[i].start[w])
        /\ SameOrOver(w, bills[i].start[w], state'[bills[i].tenant].start[w])
  BY <1>1, <1>2, <1>3, WindowsKept
<1> HIDE DEF st, t, r
<1>10. BilledInWindow'
  <2> SUFFICES ASSUME NEW i \in 1..(n + 1), NEW w \in Window
               PROVE  /\ state'[bills'[i].tenant] # Absent
                      /\ bills'[i].at \in Span(w, bills'[i].start[w])
                      /\ SameOrOver(w, bills'[i].start[w], state'[bills'[i].tenant].start[w])
    BY <1>5 DEF BilledInWindow, Placed
  <2>1. CASE i = n + 1
    <3>1. clock \in Span(w, st.start[w])
      BY <1>4, <1>7 DEF Span
    <3>2. SameOrOver(w, st.start[w], new.start[w])
      BY <1>2 DEF SameOrOver
    <3> QED BY <1>2, <1>4, <1>5, <1>6, <2>1, <3>1, <3>2
  <2>2. CASE i # n + 1
    <3>1. i \in 1..n
      BY <1>5, <2>2
    <3> QED BY <1>5, <1>9, <3>1
  <2> QED BY <2>1, <2>2
<1>11. ASSUME NEW v \in Tenants, NEW w \in Window, state'[v] # Absent
       PROVE  state'[v].spent[w] = Carried(restored, configured, v, w, state'[v].start[w])
                                   + SumTo(Charges(bills', v, w, state'[v].start[w]), n + 1)
  <2> DEFINE from == state'[v].start[w]
             f    == Charges(bills, v, w, from)
             g    == [i \in 1..(n + 1) |-> IF bills'[i].tenant = v /\ bills'[i].at \in Span(w, from)
                                           THEN bills'[i].usd ELSE 0]
  <2>1. f \in [1..n -> Nat] /\ Carried(restored, configured, v, w, from) \in Nat
    BY BillFacts
  <2>2. \A i \in 1..n : g[i] = f[i]
    BY <1>5 DEF Charges
  <2>3. g[n + 1] = IF v = t /\ clock \in Span(w, from) THEN use.usd ELSE 0
    BY <1>4, <1>5
  <2>4. g \in [1..(n + 1) -> Nat]
    <3>1. ASSUME NEW i \in 1..(n + 1) PROVE g[i] \in Nat
      <4>1. CASE i = n + 1
        BY <1>4, <2>3, <4>1
      <4>2. CASE i # n + 1
        <5>1. i \in 1..n
          BY <1>5, <4>2
        <5> HIDE DEF f, g
        <5> QED BY <2>1, <2>2, <5>1
      <4> QED BY <4>1, <4>2
    <3> QED BY <3>1
  <2>5. Charges(bills', v, w, from) = g
    BY <1>5 DEF Charges
  <2> HIDE DEF f, g
  <2>6. SumTo(g, n + 1) = SumTo(f, n) + g[n + 1] /\ SumTo(f, n) \in Nat
    <3>1. f \in [1..n -> Int] /\ g \in [1..(n + 1) -> Int]
      BY <2>1, <2>4
    <3> HIDE DEF n
    <3> QED BY <1>5, <2>1, <2>2, <3>1, SumExtend, SumOfNaturals
  <2>7. CASE v = t
    <3>1. from = st.start[w] /\ state'[v].spent[w] = st.spent[w] + use.usd
      BY <1>2, <1>6, <2>7
    <3>2. st.spent[w] = Carried(restored, configured, v, w, from) + SumTo(f, n)
      BY <1>8, <2>7, <3>1 DEF f
    <3>3. g[n + 1] = use.usd
      BY <1>4, <1>7, <2>3, <2>7, <3>1 DEF Span
    <3> HIDE DEF from
    <3> QED BY <1>4, <2>1, <2>5, <2>6, <3>1, <3>2, <3>3 DEF from
  <2>8. CASE v # t
    <3>1. state[v] # Absent /\ from = state[v].start[w] /\ state'[v].spent[w] = state[v].spent[w]
      BY <1>6, <1>11, <2>8
    <3>2. state[v].spent[w] = Carried(restored, configured, v, w, from) + SumTo(f, n)
      BY <1>8, <2>8, <3>1 DEF f
    <3>3. g[n + 1] = 0
      BY <2>3, <2>8
    <3> HIDE DEF from
    <3> QED BY <2>1, <2>5, <2>6, <3>1, <3>2, <3>3 DEF from
  <2> QED BY <2>7, <2>8
<1>12. SpentSums'
  BY <1>3, <1>5, <1>11 DEF SpentSums
<1> QED BY <1>9, <1>10, <1>12 DEF SpentInv

\* What the counters hold is what was restored and what was settled between the
\* window's start and its end, and no window is left before it ended, for any
\* windows, limits, costs and crashes.
THEOREM SpentExplained == Spec => []SpentIsSettledCharges
<1>1. Init => SpentInv
  BY DEF Init, SpentInv, RestoredInPast, BilledInWindow, SpentSums
<1>2. TypeOK /\ StoreInv /\ SpentInv /\ [Next]_vars => SpentInv'
  <2> SUFFICES ASSUME TypeOK, StoreInv, SpentInv, [Next]_vars PROVE SpentInv'
    OBVIOUS
  <2>1. ASSUME UNCHANGED <<configured, state, bills, restored>> PROVE SpentInv'
    BY <2>1 DEF SpentInv, RestoredInPast, BilledInWindow, Placed, SpentSums
  <2>2. ASSUME UNCHANGED vars PROVE SpentInv'
    BY <2>1, <2>2 DEF vars, memory, history
  <2>3. ASSUME NEW t \in Tenants, Reserve(t) \/ Read(t) PROVE SpentInv'
    BY <2>2, <2>3, TouchingSteps, SpentTouched DEF Reserve, ReserveBlind
  <2>4. ASSUME NEW id \in 1..Len(issued), Close(id) PROVE SpentInv'
    <3>1. issued[id].tenant \in Tenants
      BY IssuedFacts
    <3> QED BY <2>2, <2>4, <3>1, TouchingSteps, SpentTouched, SpentSettled DEF Close, CloseAgain
  <2>5. ASSUME NEW p \in pending, Persist(p) PROVE SpentInv'
    BY <2>1, <2>5 DEF Persist, PersistStale, PersistSaved, PersistFailed, memory, history
  <2>6. ASSUME setStoreHealthy \/ Tick PROVE SpentInv'
    BY <2>1, <2>6 DEF setStoreHealthy, Tick, memory, history
  <2>7. ASSUME NEW conf \in SUBSET Tenants, Restart(conf) PROVE SpentInv'
    <3>1. /\ configured' = conf /\ bills' = <<>> /\ restored' = store
          /\ state' = [t \in Tenants |-> RestoredState(t, conf)]
      BY <2>7 DEF Restart
    <3>2. Len(bills') = 0 /\ \A f : SumTo(f, 0) = 0
      BY <3>1, SumOfNone
    <3>3. ASSUME NEW t \in Tenants, state'[t] # Absent
          PROVE  /\ t \in conf /\ store[t] # Absent
                 /\ state'[t].start = store[t].start /\ state'[t].spent = store[t].spent
      BY <3>1, <3>3 DEF RestoredState
    <3>4. ASSUME NEW t \in conf, store[t] # Absent PROVE state'[t] # Absent
      <4>1. HasStore /\ store[t] \in Row /\ clock \in Nat
        BY <3>4 DEF StoreInv, RowsBeforeMemory, TypeOK
      <4>2. state'[t] = [spent |-> store[t].spent, start |-> store[t].start,
                         committed |-> 0, requests |-> 0, requestsAt |-> clock,
                         tokens |-> 0, tokensAt |-> clock]
        BY <3>1, <3>4, <4>1 DEF RestoredState
      <4>3. state'[t] \in TenantState
        BY <4>1, <4>2 DEF TenantState, Row
      <4> QED BY <4>3
    <3>5. \A t \in Tenants : store[t] # Absent => \A w \in Window : store[t].start[w] \in Nat /\ store[t].spent[w] \in Nat
      BY RowTypes DEF IsRow
    <3>6. RestoredInPast'
      <4> SUFFICES ASSUME NEW t \in conf, store[t] # Absent
                   PROVE  /\ state'[t] # Absent
                          /\ \A w \in Window : SameOrOver(w, store[t].start[w], state'[t].start[w])
        BY <3>1 DEF RestoredInPast
      <4> QED BY <3>3, <3>4, <3>5 DEF SameOrOver
    <3>7. BilledInWindow'
      BY <3>2 DEF BilledInWindow
    <3>8. SpentSums'
      <4> SUFFICES ASSUME NEW t \in Tenants, NEW w \in Window, state'[t] # Absent
                   PROVE  state'[t].spent[w] = Carried(store, conf, t, w, state'[t].start[w]) + 0
        BY <3>1, <3>2 DEF SpentSums
      <4>1. Carried(store, conf, t, w, state'[t].start[w]) = store[t].spent[w]
        BY <3>3 DEF Carried
      <4> QED BY <3>3, <3>5, <4>1
    <3> QED BY <3>6, <3>7, <3>8 DEF SpentInv
  <2> QED BY <2>2, <2>3, <2>4, <2>5, <2>6, <2>7 DEF Next
<1>3. SpentInv => SpentIsSettledCharges
  BY DEF SpentInv, SpentSums, RestoredInPast, BilledInWindow, Placed, SpentIsSettledCharges
<1> QED BY <1>1, <1>2, <1>3, TypeCorrect, RowsOrdered, PTL DEF Spec

-----------------------------------------------------------------------------
(* The request rate *)

\* The reservations of tenant t, of the ones issued, from one moment up to another.
Within(is, t, from, to) ==
    {i \in 1..Len(is) : is[i].tenant = t /\ from <= is[i].issuedAt /\ is[i].issuedAt < to}

\* The window's count covers what was issued in it, nothing was issued after its
\* end, and what was issued in the stretch before it fits into one window.
Rated(is, t, at, requests) ==
    /\ \A i \in 1..Len(is) : is[i].tenant = t => is[i].issuedAt < at + RateWindow
    /\ Cardinality(Within(is, t, at, at + RateWindow)) <= requests
    /\ Limits[t].requests > 0 =>
          /\ requests <= Limits[t].requests
          /\ Cardinality(Within(is, t, at - RateWindow + 1, at)) <= Limits[t].requests

RateInv ==
    \A t \in Tenants :
        /\ state[t] = Absent => \A i \in 1..Len(issued) : issued[i].tenant # t
        /\ state[t] # Absent => /\ state[t].requestsAt <= clock
                                /\ Rated(issued, t, state[t].requestsAt, state[t].requests)
        /\ Limits[t].requests > 0 => \A from \in Nat :
              Cardinality(Within(issued, t, from, from + RateWindow)) <= 2 * Limits[t].requests

\* The reservations of a stretch are finitely many.
LEMMA WithinFinite ==
  ASSUME NEW is \in Seq(Reservation), NEW t, NEW from \in Int, NEW to \in Int
  PROVE  /\ IsFiniteSet(Within(is, t, from, to))
         /\ Cardinality(Within(is, t, from, to)) \in Nat
         /\ Len(is) \in Nat
         /\ \A i \in 1..Len(is) : is[i].issuedAt \in Nat
<1>1. Len(is) \in Nat /\ \A i \in 1..Len(is) : is[i] \in Reservation
  BY LenProperties
<1>2. IsFiniteSet(1..Len(is))
  <2>1. 1 \in Int /\ Len(is) \in Int
    BY <1>1
  <2> QED BY <2>1, FS_Interval
<1>3. Within(is, t, from, to) \subseteq 1..Len(is)
  BY DEF Within
<1>4. IsFiniteSet(Within(is, t, from, to))
  BY <1>2, <1>3, FS_Subset
<1>5. \A i \in 1..Len(is) : is[i].issuedAt \in Nat
  BY <1>1 DEF Reservation
<1> QED BY <1>1, <1>4, <1>5, FS_CardinalityType

\* One more reservation is one more in the stretches that hold it, and none in
\* the others.
LEMMA WithinAppend ==
  ASSUME NEW is \in Seq(Reservation), NEW r \in Reservation, NEW t, NEW from \in Int, NEW to \in Int
  PROVE  /\ Cardinality(Within(Append(is, r), t, from, to)) <= Cardinality(Within(is, t, from, to)) + 1
         /\ r.tenant # t \/ r.issuedAt < from \/ r.issuedAt >= to =>
               Within(Append(is, r), t, from, to) = Within(is, t, from, to)
<1> DEFINE more == Append(is, r)
           n    == Len(is)
           old  == Within(is, t, from, to)
           new  == Within(more, t, from, to)
<1>1. /\ more \in Seq(Reservation) /\ n \in Nat /\ Len(more) = n + 1 /\ more[n + 1] = r
      /\ \A i \in 1..n : more[i] = is[i]
  BY AppendProperties, LenProperties
<1>2. r.issuedAt \in Nat
  BY DEF Reservation
<1> HIDE DEF more
<1>3. \A i \in 1..(n + 1) : i = n + 1 \/ i \in 1..n
  BY <1>1
<1>4. new \subseteq old \cup {n + 1}
  BY <1>1, <1>3 DEF Within
<1>5. r.tenant # t \/ r.issuedAt < from \/ r.issuedAt >= to => new = old
  BY <1>1, <1>2, <1>3 DEF Within
<1>6. IsFiniteSet(old) /\ n + 1 \notin old /\ Cardinality(old) \in Nat
  <2>1. n + 1 \notin old
    BY <1>1 DEF Within
  <2> QED BY <2>1, WithinFinite
<1>7. IsFiniteSet(new) /\ Cardinality(new) \in Nat
  BY <1>1, WithinFinite
<1> HIDE DEF new, old
<1>8. IsFiniteSet(old \cup {n + 1}) /\ Cardinality(old \cup {n + 1}) = Cardinality(old) + 1
  BY <1>6, FS_AddElement
<1>9. Cardinality(new) <= Cardinality(old) + 1
  BY <1>4, <1>8, FS_Subset
<1> QED BY <1>5, <1>9 DEF more, new, old

\* What stateFor returns keeps the count: a window that has just begun holds
\* nothing, and what is before it fits into the one that ended.
LEMMA StateForRated ==
  ASSUME TypeOK, RateInv, NEW t \in Tenants
  PROVE  LET st == stateFor(t)
         IN  /\ st.requestsAt \in Nat /\ st.requests \in Nat /\ st.requestsAt <= clock
             /\ clock < st.requestsAt + RateWindow
             /\ Rated(issued, t, st.requestsAt, st.requests)
<1> DEFINE st == stateFor(t)
           L  == Limits[t].requests
<1>1. /\ clock \in Nat /\ RateWindow \in Nat /\ RateWindow > 0 /\ issued \in Seq(Reservation)
      /\ L \in Nat
  BY DEF TypeOK, LimitRecord
<1>2. \A i \in 1..Len(issued) : issued[i].issuedAt \in Nat
  <2>1. \A i \in 1..Len(issued) : issued[i] \in Reservation
    BY <1>1
  <2> QED BY <2>1 DEF Reservation
<1>4. Cardinality({}) = 0
  BY FS_EmptySet
<1>5. CASE state[t] = Absent
  <2>1. st.requestsAt = clock /\ st.requests = 0
    BY <1>5 DEF stateFor, FreshState
  <2>2. \A i \in 1..Len(issued) : issued[i].tenant # t
    BY <1>5 DEF RateInv
  <2>3. \A f, g : Within(issued, t, f, g) = {}
    BY <2>2 DEF Within
  <2>4. /\ Cardinality(Within(issued, t, clock, clock + RateWindow)) = 0
        /\ Cardinality(Within(issued, t, clock - RateWindow + 1, clock)) = 0
    BY <1>4, <2>3
  <2> HIDE DEF st
  <2> QED BY <1>1, <2>1, <2>2, <2>4 DEF Rated, st
<1>6. CASE state[t] # Absent
  <2> DEFINE at == state[t].requestsAt
             k  == state[t].requests
  <2>1. at \in Nat /\ k \in Nat
    BY <1>6 DEF TypeOK, TenantState
  <2>2. at <= clock /\ Rated(issued, t, at, k)
    BY <1>6 DEF RateInv
  <2>3. /\ st.requestsAt = IF clock - at >= RateWindow THEN clock ELSE at
        /\ st.requests = IF clock - at >= RateWindow THEN 0 ELSE k
    BY <1>6 DEF stateFor, Rolled, expired
  <2> HIDE DEF st, at, k
  <2>4. CASE clock - at < RateWindow
    <3>1. st.requestsAt = at /\ st.requests = k
      BY <1>1, <2>1, <2>3, <2>4
    <3> QED BY <1>1, <2>1, <2>2, <2>4, <3>1 DEF st
  <2>5. CASE clock - at >= RateWindow
    <3>1. st.requestsAt = clock /\ st.requests = 0
      BY <2>3, <2>5
    <3>2. \A i \in 1..Len(issued) : issued[i].tenant = t => issued[i].issuedAt < clock
      BY <1>1, <1>2, <2>1, <2>2, <2>5 DEF Rated
    <3>3. Cardinality(Within(issued, t, clock, clock + RateWindow)) = 0
      <4>1. Within(issued, t, clock, clock + RateWindow) = {}
        BY <1>1, <1>2, <3>2 DEF Within
      <4> QED BY <1>4, <4>1
    <3>4. ASSUME L > 0 PROVE Cardinality(Within(issued, t, clock - RateWindow + 1, clock)) <= L
      <4>1. Within(issued, t, clock - RateWindow + 1, clock) \subseteq Within(issued, t, at, at + RateWindow)
        <5>1. ASSUME NEW i \in 1..Len(issued), issued[i].tenant = t, clock - RateWindow + 1 <= issued[i].issuedAt
              PROVE  at <= issued[i].issuedAt /\ issued[i].issuedAt < at + RateWindow
          <6>1. issued[i].issuedAt < at + RateWindow
            BY <2>2, <5>1 DEF Rated
          <6>2. issued[i].issuedAt \in Nat
            BY <1>2
          <6> QED BY <1>1, <2>1, <2>5, <5>1, <6>1, <6>2
        <5> QED BY <5>1 DEF Within
      <4>2. /\ IsFiniteSet(Within(issued, t, at, at + RateWindow))
            /\ Cardinality(Within(issued, t, at, at + RateWindow)) \in Nat
        BY <1>1, <2>1, WithinFinite
      <4>3. /\ Cardinality(Within(issued, t, clock - RateWindow + 1, clock))
               <= Cardinality(Within(issued, t, at, at + RateWindow))
        BY <4>1, <4>2, FS_Subset
      <4>4. Cardinality(Within(issued, t, clock - RateWindow + 1, clock)) \in Nat
        BY <1>1, WithinFinite
      <4>5. Cardinality(Within(issued, t, at, at + RateWindow)) <= k /\ k <= L
        BY <2>2, <3>4 DEF Rated
      <4> QED BY <1>1, <2>1, <4>2, <4>3, <4>4, <4>5
    <3>5. \A i \in 1..Len(issued) : issued[i].tenant = t => issued[i].issuedAt < clock + RateWindow
      BY <1>1, <1>2, <3>2
    <3>6. Rated(issued, t, clock, 0)
      BY <1>1, <3>3, <3>4, <3>5 DEF Rated
    <3> QED BY <1>1, <3>1, <3>6 DEF st
  <2> QED BY <1>1, <2>1, <2>4, <2>5
<1> QED BY <1>5, <1>6

\* A step of tenant t's counters that admits nothing.
Uncounted(t) ==
    \E new \in TenantState :
        /\ new.requests = stateFor(t).requests /\ new.requestsAt = stateFor(t).requestsAt
        /\ state' = [state EXCEPT ![t] = new]
        /\ UNCHANGED <<clock, issued>>

\* A refused Reserve, Settle, Release, Spent and Committed are such steps.
LEMMA UncountedSteps ==
  ASSUME TypeOK
  PROVE  /\ \A t \in Tenants, est \in Estimates : ReserveDenied(t, est) => Uncounted(t)
         /\ \A t \in Tenants : Read(t) => Uncounted(t)
         /\ \A id \in 1..Len(issued) : Release(id) => Uncounted(issued[id].tenant)
         /\ \A id \in 1..Len(issued), use \in Usages : Settle(id, use) => Uncounted(issued[id].tenant)
<1>1. ASSUME NEW t \in Tenants, NEW est \in Estimates, ReserveDenied(t, est) PROVE Uncounted(t)
  BY <1>1, StateForFacts DEF ReserveDenied, Uncounted
<1>2. ASSUME NEW t \in Tenants, Read(t) PROVE Uncounted(t)
  BY <1>2, StateForFacts DEF Read, Uncounted
<1>3. ASSUME NEW id \in 1..Len(issued), Release(id) PROVE Uncounted(issued[id].tenant)
  <2> DEFINE r   == issued[id]
             st  == stateFor(r.tenant)
             c   == monus(st.committed, r.usd)
             new == [st EXCEPT !.committed = c]
  <2>1. state' = [state EXCEPT ![r.tenant] = new] /\ UNCHANGED <<clock, issued>>
    BY <1>3 DEF Release
  <2>2. r.tenant \in Tenants /\ r.usd \in Nat /\ st \in TenantState
    BY IssuedFacts, StateForFacts
  <2> HIDE DEF st, r
  <2>3. c \in Nat
    <3>1. st.committed \in Nat
      BY <2>2 DEF TenantState
    <3> QED BY <2>2, <3>1 DEF monus
  <2> HIDE DEF c
  <2>4. new \in TenantState /\ new.requests = st.requests /\ new.requestsAt = st.requestsAt
    BY <2>2, <2>3 DEF TenantState
  <2> HIDE DEF new
  <2> QED BY <2>1, <2>4 DEF Uncounted, st, r
<1>4. ASSUME NEW id \in 1..Len(issued), NEW use \in Usages, Settle(id, use)
      PROVE  Uncounted(issued[id].tenant)
  <2> DEFINE r   == issued[id]
             st  == stateFor(r.tenant)
             new == Settled(st, r, use)
  <2>1. state' = [state EXCEPT ![r.tenant] = new] /\ UNCHANGED <<clock, issued>>
    BY <1>4 DEF Settle
  <2>2. r \in Reservation /\ r.tenant \in Tenants /\ use \in Amount /\ st \in TenantState
    BY IssuedFacts, StateForFacts
  <2> HIDE DEF st, r
  <2>3. new \in TenantState
    BY <2>2, SettledFacts
  <2>4. new.requests = st.requests /\ new.requestsAt = st.requestsAt
    BY <2>2 DEF Settled, TenantState
  <2> HIDE DEF new
  <2> QED BY <2>1, <2>3, <2>4 DEF Uncounted, st, r
<1> QED BY <1>1, <1>2, <1>3, <1>4

\* A step that admits nothing keeps the count.
LEMMA RateUncounted ==
  ASSUME TypeOK, RateInv, NEW t \in Tenants, Uncounted(t)
  PROVE  RateInv'
<1>1. PICK new \in TenantState :
        /\ new.requests = stateFor(t).requests /\ new.requestsAt = stateFor(t).requestsAt
        /\ state' = [state EXCEPT ![t] = new]
        /\ UNCHANGED <<clock, issued>>
  BY DEF Uncounted
<1>2. /\ state'[t] = new /\ new # Absent
      /\ \A v \in Tenants : v # t => state'[v] = state[v]
  BY <1>1 DEF TypeOK
<1>3. new.requestsAt <= clock /\ Rated(issued, t, new.requestsAt, new.requests)
  BY <1>1, StateForRated
<1>4. ASSUME NEW v \in Tenants
      PROVE  /\ state'[v] = Absent => \A i \in 1..Len(issued) : issued[i].tenant # v
             /\ state'[v] # Absent => /\ state'[v].requestsAt <= clock
                                      /\ Rated(issued, v, state'[v].requestsAt, state'[v].requests)
             /\ Limits[v].requests > 0 => \A from \in Nat :
                   Cardinality(Within(issued, v, from, from + RateWindow)) <= 2 * Limits[v].requests
  <2>1. CASE v = t
    BY <1>2, <1>3, <2>1 DEF RateInv
  <2>2. CASE v # t
    BY <1>2, <2>2 DEF RateInv
  <2> QED BY <2>1, <2>2
<1> QED BY <1>1, <1>4 DEF RateInv

\* An admission: the window's count was below the limit, and every stretch the new
\* reservation falls into lies within that window and the stretch before it.
LEMMA RateAdmitted ==
  ASSUME TypeOK, RateInv, NEW t \in Tenants, NEW est \in Estimates, ReserveAdmitted(t, est)
  PROVE  RateInv'
<1> DEFINE st  == stateFor(t)
           at  == st.requestsAt
           k   == st.requests
           L   == Limits[t].requests
           new == [st EXCEPT !.committed = st.committed + est.usd,
                             !.requests  = st.requests + 1,
                             !.tokens    = st.tokens + est.tokens]
           r   == [tenant |-> t, usd |-> est.usd, tokens |-> est.tokens, issuedAt |-> clock]
           is  == Append(issued, r)
           n   == Len(issued)
<1>1. /\ state' = [state EXCEPT ![t] = new] /\ issued' = is /\ UNCHANGED clock
      /\ checkRates(st, Limits[t], est) = "none"
  BY DEF ReserveAdmitted
<1>2. /\ at \in Nat /\ k \in Nat /\ at <= clock /\ clock < at + RateWindow /\ Rated(issued, t, at, k)
  BY StateForRated
<1>3. /\ clock \in Nat /\ RateWindow \in Nat /\ RateWindow > 0 /\ issued \in Seq(Reservation)
      /\ L \in Nat /\ est.usd \in Nat /\ est.tokens \in Nat
  BY DEF TypeOK, LimitRecord, Amount
<1>4. st \in TenantState
  BY StateForFacts
<1>5. L > 0 => k < L
  BY <1>1, <1>2, <1>3 DEF checkRates
<1> HIDE DEF st
<1>6. new.requests = k + 1 /\ new.requestsAt = at /\ new \in TenantState
  <2>1. st.committed + est.usd \in Nat /\ st.tokens + est.tokens \in Nat /\ st.requests + 1 \in Nat
    BY <1>3, <1>4, SMTT(30) DEF TenantState
  <2>2. new \in TenantState
    BY <1>4, <2>1 DEF TenantState
  <2>3. new.requests = st.requests + 1 /\ new.requestsAt = st.requestsAt
    BY <1>4 DEF TenantState
  <2> QED BY <2>2, <2>3
<1>7. r \in Reservation /\ r.tenant = t /\ r.issuedAt = clock
  BY <1>3 DEF Reservation
<1> HIDE DEF new, r
<1>8. /\ n \in Nat /\ Len(is) = n + 1 /\ is[n + 1] = r /\ \A i \in 1..n : is[i] = issued[i]
      /\ is \in Seq(Reservation)
  BY <1>3, <1>7, AppendProperties, LenProperties
<1>9. \A i \in 1..(n + 1) : i = n + 1 \/ i \in 1..n
  BY <1>8
<1>10. /\ state'[t] = new /\ new # Absent
       /\ \A v \in Tenants : v # t => state'[v] = state[v]
  BY <1>1, <1>6 DEF TypeOK
<1>11. ASSUME NEW v \in Tenants, v # t, NEW from \in Int, NEW to \in Int
       PROVE  Within(is, v, from, to) = Within(issued, v, from, to)
  BY <1>3, <1>7, <1>11, WithinAppend
<1>12. Rated(is, t, at, k + 1)
  <2>1. \A i \in 1..Len(is) : is[i].tenant = t => is[i].issuedAt < at + RateWindow
    BY <1>2, <1>7, <1>8, <1>9 DEF Rated
  <2>2. Cardinality(Within(is, t, at, at + RateWindow)) <= k + 1
    <3>1. /\ Cardinality(Within(is, t, at, at + RateWindow))
             <= Cardinality(Within(issued, t, at, at + RateWindow)) + 1
          /\ Cardinality(Within(is, t, at, at + RateWindow)) \in Nat
          /\ Cardinality(Within(issued, t, at, at + RateWindow)) \in Nat
      <4>1. at \in Int /\ at + RateWindow \in Int
        BY <1>2, <1>3
      <4> HIDE DEF is
      <4>2. Cardinality(Within(is, t, at, at + RateWindow)) \in Nat
            /\ Cardinality(Within(issued, t, at, at + RateWindow)) \in Nat
        BY <1>3, <1>8, <4>1, WithinFinite
      <4> QED BY <1>3, <1>7, <4>1, <4>2, WithinAppend DEF is
    <3>2. Cardinality(Within(issued, t, at, at + RateWindow)) <= k
      BY <1>2 DEF Rated
    <3> QED BY <1>2, <3>1, <3>2
  <2>3. Within(is, t, at - RateWindow + 1, at) = Within(issued, t, at - RateWindow + 1, at)
    <3>1. at - RateWindow + 1 \in Int /\ at \in Int /\ r.issuedAt >= at
      BY <1>2, <1>3, <1>7
    <3> QED BY <1>3, <1>7, <3>1, WithinAppend
  <2>4. L > 0 => k + 1 <= L /\ Cardinality(Within(is, t, at - RateWindow + 1, at)) <= L
    BY <1>2, <1>3, <1>5, <2>3 DEF Rated
  <2> HIDE DEF is
  <2> QED BY <2>1, <2>2, <2>4 DEF Rated
<1>13. ASSUME NEW from \in Nat, L > 0
       PROVE  Cardinality(Within(is, t, from, from + RateWindow)) <= 2 * L
  <2>1. CASE clock < from \/ clock >= from + RateWindow
    <3>1. Within(is, t, from, from + RateWindow) = Within(issued, t, from, from + RateWindow)
      <4>1. from \in Int /\ from + RateWindow \in Int
        BY <1>3
      <4> QED BY <1>3, <1>7, <2>1, <4>1, WithinAppend
    <3> QED BY <1>13, <3>1 DEF RateInv
  <2>2. CASE from <= clock /\ clock < from + RateWindow
    <3> DEFINE this == Within(is, t, at, at + RateWindow)
               prev == Within(is, t, at - RateWindow + 1, at)
               all  == Within(is, t, from, from + RateWindow)
    <3>1. all \subseteq this \cup prev
      <4> SUFFICES ASSUME NEW i \in 1..Len(is), is[i].tenant = t, from <= is[i].issuedAt,
                          is[i].issuedAt < from + RateWindow
                   PROVE  i \in this \cup prev
        BY DEF Within
      <4>1. is[i].issuedAt \in Nat /\ is[i].issuedAt < at + RateWindow
        <5>1. is[i] \in Reservation
          BY <1>8
        <5> QED BY <1>12, <5>1 DEF Rated, Reservation
      <4> HIDE DEF is
      <4>2. is[i].issuedAt >= at - RateWindow + 1
        <5>1. from >= at - RateWindow + 1 /\ at - RateWindow + 1 \in Int
          BY <1>2, <1>3, <2>2, SMTT(30)
        <5> QED BY <4>1, <5>1
      <4> QED BY <1>2, <4>1, <4>2 DEF Within
    <3>2. /\ IsFiniteSet(this) /\ Cardinality(this) \in Nat
          /\ IsFiniteSet(prev) /\ Cardinality(prev) \in Nat
          /\ Cardinality(all) \in Nat
      <4>1. /\ at \in Int /\ at + RateWindow \in Int /\ at - RateWindow + 1 \in Int
            /\ from \in Int /\ from + RateWindow \in Int
        BY <1>2, <1>3
      <4> HIDE DEF is
      <4> QED BY <1>8, <4>1, WithinFinite
    <3>3. Cardinality(this) <= L /\ Cardinality(prev) <= L
      <4>1. Cardinality(this) <= k + 1 /\ k + 1 <= L /\ Cardinality(prev) <= L
        BY <1>12, <1>13 DEF Rated
      <4> QED BY <1>2, <1>3, <3>2, <4>1, SMTT(30)
    <3> HIDE DEF this, prev, all
    <3>4. /\ IsFiniteSet(this \cup prev) /\ IsFiniteSet(this \cap prev)
          /\ Cardinality(this \cup prev) = Cardinality(this) + Cardinality(prev) - Cardinality(this \cap prev)
      BY <3>2, FS_Union, FS_Intersection
    <3>5. Cardinality(this \cap prev) \in Nat /\ Cardinality(this \cup prev) \in Nat
      BY <3>4, FS_CardinalityType
    <3>6. Cardinality(all) <= Cardinality(this \cup prev)
      BY <3>1, <3>4, FS_Subset
    <3> QED BY <1>3, <3>2, <3>3, <3>4, <3>5, <3>6 DEF all
  <2> QED BY <1>3, <2>1, <2>2
<1> HIDE DEF is
<1>14. ASSUME NEW v \in Tenants
       PROVE  /\ state'[v] = Absent => \A i \in 1..Len(is) : is[i].tenant # v
              /\ state'[v] # Absent => /\ state'[v].requestsAt <= clock
                                       /\ Rated(is, v, state'[v].requestsAt, state'[v].requests)
              /\ Limits[v].requests > 0 => \A from \in Nat :
                    Cardinality(Within(is, v, from, from + RateWindow)) <= 2 * Limits[v].requests
  <2>1. CASE v = t
    BY <1>2, <1>6, <1>10, <1>12, <1>13, <2>1
  <2>2. CASE v # t
    <3>1. state'[v] = Absent => \A i \in 1..Len(is) : is[i].tenant # v
      BY <1>7, <1>8, <1>9, <1>10, <2>2 DEF RateInv
    <3>2. ASSUME state'[v] # Absent
          PROVE  /\ state'[v].requestsAt <= clock
                 /\ Rated(is, v, state'[v].requestsAt, state'[v].requests)
      <4> DEFINE b == state[v].requestsAt
      <4>1. state'[v] = state[v] /\ b <= clock /\ Rated(issued, v, b, state[v].requests) /\ b \in Nat
        <5>1. state'[v] = state[v] /\ state[v] \in TenantState
          BY <1>10, <2>2, <3>2 DEF TypeOK
        <5> QED BY <3>2, <5>1 DEF RateInv, TenantState
      <4> HIDE DEF b
      <4>2. /\ Within(is, v, b, b + RateWindow) = Within(issued, v, b, b + RateWindow)
            /\ Within(is, v, b - RateWindow + 1, b) = Within(issued, v, b - RateWindow + 1, b)
        <5>1. b \in Int /\ b + RateWindow \in Int /\ b - RateWindow + 1 \in Int
          BY <1>3, <4>1
        <5> QED BY <1>11, <2>2, <5>1
      <4>3. \A i \in 1..Len(is) : is[i].tenant = v => is[i].issuedAt < b + RateWindow
        BY <1>7, <1>8, <1>9, <2>2, <4>1 DEF Rated
      <4>4. Rated(is, v, b, state[v].requests)
        BY <4>1, <4>2, <4>3 DEF Rated
      <4> QED BY <4>1, <4>4 DEF b
    <3>3. ASSUME Limits[v].requests > 0, NEW from \in Nat
          PROVE  Cardinality(Within(is, v, from, from + RateWindow)) <= 2 * Limits[v].requests
      <4>1. Within(is, v, from, from + RateWindow) = Within(issued, v, from, from + RateWindow)
        <5>1. from \in Int /\ from + RateWindow \in Int
          BY <1>3
        <5> QED BY <1>11, <2>2, <5>1
      <4> QED BY <3>3, <4>1 DEF RateInv
    <3> QED BY <3>1, <3>2, <3>3
  <2> QED BY <2>1, <2>2
<1> QED BY <1>1, <1>14 DEF RateInv

\* A fixed window admits at most the limit, and so no stretch as long as one, from
\* whatever moment, admits more than twice the limit.
THEOREM RateIsHeld == Spec => []RequestRateHolds
<1>1. Init => RateInv
  <2> SUFFICES ASSUME Init PROVE RateInv
    OBVIOUS
  <2>1. Len(issued) = 0 /\ \A t \in Tenants : state[t] = Absent /\ Limits[t].requests \in Nat
    BY DEF Init, LimitRecord
  <2>2. \A t, from, to : Within(issued, t, from, to) = {}
    BY <2>1 DEF Within
  <2>3. \A t, from, to : Cardinality(Within(issued, t, from, to)) = 0
    BY <2>2, FS_EmptySet
  <2>4. \A t \in Tenants : 0 <= 2 * Limits[t].requests
    BY <2>1
  <2> QED BY <2>1, <2>3, <2>4 DEF RateInv
<1>2. TypeOK /\ RateInv /\ [Next]_vars => RateInv'
  <2> SUFFICES ASSUME TypeOK, RateInv, [Next]_vars PROVE RateInv'
    OBVIOUS
  <2>1. ASSUME clock' = clock \/ (clock' = clock + 1 /\ Tick), UNCHANGED <<state, issued>> PROVE RateInv'
    <3>1. clock \in Nat /\ clock' \in Nat /\ clock <= clock'
      BY <2>1 DEF TypeOK
    <3>2. \A t \in Tenants : state[t] # Absent => state[t].requestsAt \in Nat
      BY DEF TypeOK, TenantState
    <3>3. \A t \in Tenants : state[t] # Absent => state[t].requestsAt <= clock'
      BY <3>1, <3>2 DEF RateInv
    <3> QED BY <2>1, <3>3 DEF RateInv
  <2>2. ASSUME UNCHANGED vars PROVE RateInv'
    BY <2>1, <2>2 DEF vars, memory
  <2>3. ASSUME NEW t \in Tenants, Reserve(t) \/ Read(t) PROVE RateInv'
    BY <2>2, <2>3, UncountedSteps, RateUncounted, RateAdmitted DEF Reserve, ReserveBlind
  <2>4. ASSUME NEW id \in 1..Len(issued), Close(id) PROVE RateInv'
    <3>1. issued[id].tenant \in Tenants
      BY IssuedFacts
    <3> QED BY <2>2, <2>4, <3>1, UncountedSteps, RateUncounted DEF Close, CloseAgain
  <2>5. ASSUME NEW p \in pending, Persist(p) PROVE RateInv'
    BY <2>1, <2>5 DEF Persist, PersistStale, PersistSaved, PersistFailed, memory
  <2>6. ASSUME setStoreHealthy \/ Tick PROVE RateInv'
    BY <2>1, <2>6 DEF setStoreHealthy, Tick, memory
  <2>7. ASSUME NEW conf \in SUBSET Tenants, Restart(conf) PROVE RateInv'
    <3>1. /\ issued' = <<>> /\ clock' = clock
          /\ state' = [t \in Tenants |-> RestoredState(t, conf)]
      BY <2>7 DEF Restart
    <3>2. \A t, from, to : Within(issued', t, from, to) = {}
      BY <3>1 DEF Within
    <3>3. /\ \A t, from, to : Cardinality(Within(issued', t, from, to)) = 0
          /\ Len(issued') = 0 /\ clock \in Nat
      BY <3>1, <3>2, FS_EmptySet DEF TypeOK
    <3>4. \A t \in Tenants : 0 <= Limits[t].requests /\ 0 <= 2 * Limits[t].requests
      <4>1. \A t \in Tenants : Limits[t].requests \in Nat
        BY DEF LimitRecord
      <4> QED BY <4>1
    <3>5. ASSUME NEW t \in Tenants, state'[t] # Absent
          PROVE  state'[t].requestsAt = clock /\ state'[t].requests = 0
      BY <3>1, <3>5 DEF RestoredState
    <3>6. \A t \in Tenants : Rated(issued', t, clock, 0)
      BY <3>3, <3>4 DEF Rated
    <3>7. \A t \in Tenants : Limits[t].requests > 0 => \A from \in Nat :
              Cardinality(Within(issued', t, from, from + RateWindow)) <= 2 * Limits[t].requests
      BY <3>3, <3>4
    <3> QED BY <3>1, <3>3, <3>5, <3>6, <3>7 DEF RateInv
  <2> QED BY <2>2, <2>3, <2>4, <2>5, <2>6, <2>7 DEF Next
<1>3. TypeOK /\ RateInv => RequestRateHolds
  <2> SUFFICES ASSUME TypeOK, RateInv, NEW t \in Tenants, NEW from \in 0..clock, Limits[t].requests > 0
               PROVE  Cardinality({i \in 1..Len(issued) :
                                     /\ issued[i].tenant = t
                                     /\ issued[i].issuedAt \in from..(from + RateWindow - 1)})
                      <= 2 * Limits[t].requests
    BY DEF RequestRateHolds
  <2>1. from \in Nat /\ RateWindow \in Nat
    BY DEF TypeOK
  <2>2. \A i \in 1..Len(issued) : issued[i].issuedAt \in Nat
    <3>1. \A i \in 1..Len(issued) : issued[i] \in Reservation
      BY DEF TypeOK
    <3> QED BY <3>1 DEF Reservation
  <2>3. {i \in 1..Len(issued) : /\ issued[i].tenant = t
                                /\ issued[i].issuedAt \in from..(from + RateWindow - 1)}
        = Within(issued, t, from, from + RateWindow)
    BY <2>1, <2>2 DEF Within
  <2> QED BY <2>1, <2>3 DEF RateInv
<1> QED BY <1>1, <1>2, <1>3, TypeCorrect, PTL DEF Spec

-----------------------------------------------------------------------------
(* The account *)

\* What a look at the row st would find in its window w at the moment now.
Seen(st, w, now) ==
    IF st = Absent \/ now - st.start[w] >= WindowLength[w] THEN 0 ELSE st.spent[w]

\* The account's totals are what a look would find, before and after a step.
LEMMA AccountView ==
  /\ SpentNow = [t \in Tenants |-> [w \in Window |-> Seen(state[t], w, clock)]]
  /\ SpentNow' = [t \in Tenants |-> [w \in Window |-> Seen(state'[t], w, clock')]]
  /\ DurableNow = [t \in Tenants |-> [w \in Window |-> Seen(store[t], w, clock)]]
  /\ DurableNow' = [t \in Tenants |-> [w \in Window |-> Seen(store'[t], w, clock')]]
<1>1. \A t : stateFor(t).spent = [w \in Window |-> Seen(state[t], w, clock)]
  <2> SUFFICES ASSUME NEW t PROVE stateFor(t).spent = [w \in Window |-> Seen(state[t], w, clock)]
    OBVIOUS
  <2>1. CASE state[t] = Absent
    BY <2>1 DEF stateFor, FreshState, Seen
  <2>2. CASE state[t] # Absent
    BY <2>2 DEF stateFor, Rolled, expired, Seen
  <2> QED BY <2>1, <2>2
<1>2. \A t : stateFor(t)'.spent = [w \in Window |-> Seen(state'[t], w, clock')]
  <2> SUFFICES ASSUME NEW t PROVE stateFor(t)'.spent = [w \in Window |-> Seen(state'[t], w, clock')]
    OBVIOUS
  <2>1. CASE state'[t] = Absent
    BY <2>1 DEF stateFor, FreshState, Seen
  <2>2. CASE state'[t] # Absent
    BY <2>2 DEF stateFor, Rolled, expired, Seen
  <2> QED BY <2>1, <2>2
<1>3. SpentNow = [t \in Tenants |-> [w \in Window |-> Seen(state[t], w, clock)]]
  BY <1>1 DEF SpentNow
<1>4. SpentNow' = [t \in Tenants |-> [w \in Window |-> Seen(state'[t], w, clock')]]
  BY <1>2 DEF SpentNow
<1>5. /\ DurableNow = [t \in Tenants |-> [w \in Window |-> Seen(store[t], w, clock)]]
      /\ DurableNow' = [t \in Tenants |-> [w \in Window |-> Seen(store'[t], w, clock')]]
  BY DEF DurableNow, Seen, expired
<1> QED BY <1>3, <1>4, <1>5

\* The account's claims, of what was issued and what is done.
ClaimAt(r, i, dn) == [tenant |-> r.tenant, usd |-> r.usd, open |-> i \notin dn]

ClaimsAre(is, dn) == [i \in 1..Len(is) |-> ClaimAt(is[i], i, dn)]

Claim == [tenant: Tenants, usd: Nat, open: BOOLEAN]

\* The refinement's claims are those, before and after a step.
LEMMA ClaimsView ==
  ClaimsNow = ClaimsAre(issued, done) /\ ClaimsNow' = ClaimsAre(issued', done')
BY DEF ClaimsNow, ClaimsAre, ClaimAt

\* The claims are a sequence, as long as what was issued.
LEMMA ClaimsSeq ==
  ASSUME NEW is \in Seq(Reservation), NEW dn
  PROVE  /\ ClaimsAre(is, dn) \in Seq(Claim)
         /\ Len(ClaimsAre(is, dn)) = Len(is) /\ Len(is) \in Nat
         /\ \A i \in 1..Len(is) : ClaimsAre(is, dn)[i] = ClaimAt(is[i], i, dn)
<1> DEFINE c == ClaimsAre(is, dn)
           n == Len(is)
<1>1. n \in Nat /\ \A i \in 1..n : is[i] \in Reservation
  BY LenProperties
<1>2. c = [i \in 1..n |-> ClaimAt(is[i], i, dn)]
  BY DEF ClaimsAre
<1>3. \A i \in 1..n : ClaimAt(is[i], i, dn) \in Claim
  <2> SUFFICES ASSUME NEW i \in 1..n PROVE ClaimAt(is[i], i, dn) \in Claim
    OBVIOUS
  <2>1. is[i].tenant \in Tenants /\ is[i].usd \in Nat
    BY <1>1 DEF Reservation
  <2>2. (i \notin dn) \in BOOLEAN
    OBVIOUS
  <2> QED BY <2>1, <2>2, Zenon DEF ClaimAt, Claim
<1>4. c \in [1..n -> Claim]
  BY <1>2, <1>3
<1> HIDE DEF c, n
<1>5. c \in Seq(Claim)
  BY <1>1, <1>4, IsASeq
<1>6. Len(c) = n
  <2>1. DOMAIN c = 1..Len(c) /\ DOMAIN c = 1..n /\ Len(c) \in Nat
    BY <1>4, <1>5, LenProperties
  <2>2. \A k, m \in Nat : 1..k = 1..m => k <= m
    <3> SUFFICES ASSUME NEW k \in Nat, NEW m \in Nat, 1..k = 1..m, ~(k <= m) PROVE FALSE
      OBVIOUS
    <3>1. k \in 1..k /\ k \notin 1..m
      OBVIOUS
    <3> QED BY <3>1
  <2>3. Len(c) <= n /\ n <= Len(c)
    BY <1>1, <2>1, <2>2
  <2>4. Len(c) \in Nat
    BY <2>1
  <2> QED BY <1>1, <2>3, <2>4
<1>7. \A i \in 1..n : c[i] = ClaimAt(is[i], i, dn)
  BY <1>2
<1> QED BY <1>1, <1>5, <1>6, <1>7 DEF c, n

\* Issuing adds an open claim, and closing closes one.
LEMMA ClaimsIssued ==
  ASSUME NEW is \in Seq(Reservation), NEW r \in Reservation, NEW dn \in SUBSET (1..Len(is))
  PROVE  ClaimsAre(Append(is, r), dn)
           = Append(ClaimsAre(is, dn), [tenant |-> r.tenant, usd |-> r.usd, open |-> TRUE])
<1> DEFINE n    == Len(is)
           more == Append(is, r)
           x    == [tenant |-> r.tenant, usd |-> r.usd, open |-> TRUE]
           a    == ClaimsAre(more, dn)
           c    == ClaimsAre(is, dn)
           b    == Append(c, x)
<1>1. /\ more \in Seq(Reservation) /\ n \in Nat /\ Len(more) = n + 1
      /\ more[n + 1] = r /\ \A i \in 1..n : more[i] = is[i]
  BY AppendProperties, LenProperties
<1> HIDE DEF more
<1>2. c \in Seq(Claim) /\ Len(c) = n /\ \A i \in 1..n : c[i] = ClaimAt(is[i], i, dn)
  BY ClaimsSeq
<1>3. a \in Seq(Claim) /\ Len(a) = n + 1 /\ \A i \in 1..(n + 1) : a[i] = ClaimAt(more[i], i, dn)
  BY <1>1, ClaimsSeq
<1>4. x \in Claim
  BY DEF Reservation, Claim
<1>5. ClaimAt(r, n + 1, dn) = x
  <2>1. n + 1 \notin dn
    BY <1>1
  <2>2. (n + 1 \notin dn) = TRUE
    BY <2>1
  <2> QED BY <2>2 DEF ClaimAt
<1> HIDE DEF x, c, a
<1>6. /\ b \in Seq(Claim) /\ Len(b) = n + 1 /\ b[n + 1] = x /\ \A i \in 1..n : b[i] = c[i]
  BY <1>2, <1>4, AppendProperties
<1> HIDE DEF b
<1>7. ASSUME NEW i \in 1..(n + 1) PROVE a[i] = b[i]
  <2>1. CASE i = n + 1
    BY <1>1, <1>3, <1>5, <1>6, <2>1
  <2>2. CASE i # n + 1
    <3>1. i \in 1..n
      BY <1>1, <2>2
    <3> QED BY <1>1, <1>2, <1>3, <1>6, <3>1
  <2> QED BY <2>1, <2>2
<1>8. a = b
  BY <1>3, <1>6, <1>7, SeqEqual
<1> QED BY <1>8 DEF a, b, c, x, more

\* What is claimed of the account is what is committed.
LEMMA ClaimedIsCommitted ==
  ASSUME TypeOK, CommittedIsOpenClaims, NEW t \in Tenants
  PROVE  Account!SumTo(Account!ClaimsOf(t), Len(ClaimsNow)) = CommittedOf(t)
<1>1. issued \in Seq(Reservation)
  BY DEF TypeOK
<1>2. Len(ClaimsNow) = Len(issued) /\ \A i \in 1..Len(issued) : ClaimsNow[i] = ClaimAt(issued[i], i, done)
  BY <1>1, ClaimsView, ClaimsSeq
<1>3. Account!ClaimsOf(t) = OpenClaims(t)
  <2>1. ASSUME NEW i \in 1..Len(issued)
        PROVE  (IF ClaimsNow[i].tenant = t /\ ClaimsNow[i].open THEN ClaimsNow[i].usd ELSE 0)
               = (IF issued[i].tenant = t /\ i \notin done THEN issued[i].usd ELSE 0)
    <3>1. CASE i \in done
      <4>1. (i \notin done) = FALSE
        BY <3>1
      <4>2. ClaimsNow[i] = [tenant |-> issued[i].tenant, usd |-> issued[i].usd, open |-> FALSE]
        BY <1>2, <4>1 DEF ClaimAt
      <4> QED BY <3>1, <4>2
    <3>2. CASE i \notin done
      <4>1. (i \notin done) = TRUE
        BY <3>2
      <4>2. ClaimsNow[i] = [tenant |-> issued[i].tenant, usd |-> issued[i].usd, open |-> TRUE]
        BY <1>2, <4>1 DEF ClaimAt
      <4> QED BY <3>2, <4>2
    <3> QED BY <3>1, <3>2
  <2>2. Account!ClaimsOf(t) = [i \in 1..Len(issued) |->
            IF ClaimsNow[i].tenant = t /\ ClaimsNow[i].open THEN ClaimsNow[i].usd ELSE 0]
    BY <1>2 DEF Account!ClaimsOf
  <2> QED BY <2>1, <2>2 DEF OpenClaims
<1>4. Account!SumTo(OpenClaims(t), Len(issued)) = SumTo(OpenClaims(t), Len(issued))
  BY DEF Account!SumTo, SumTo
<1> QED BY <1>2, <1>3, <1>4 DEF CommittedIsOpenClaims

\* A step from stateFor leaves what a look would find, but for what it spent.
LEMMA SeenAfter ==
  ASSUME TypeOK, StoreInv, NEW t \in Tenants, NEW new \in TenantState, new.start = stateFor(t).start,
         state' = [state EXCEPT ![t] = new], UNCHANGED clock
  PROVE  /\ SpentNow'[t] = [w \in Window |-> new.spent[w]]
         /\ SpentNow[t] = [w \in Window |-> stateFor(t).spent[w]]
         /\ \A v \in Tenants \ {t} : SpentNow'[v] = SpentNow[v]
<1>1. /\ state'[t] = new /\ new # Absent /\ \A v \in Tenants : v # t => state'[v] = state[v]
  BY DEF TypeOK
<1>2. ASSUME NEW w \in Window PROVE Seen(new, w, clock) = new.spent[w]
  <2>1. clock - new.start[w] < WindowLength[w] /\ new.start[w] \in Nat /\ clock \in Nat /\ WindowLength[w] \in Nat
    <3>1. clock - stateFor(t).start[w] < WindowLength[w]
      BY StateForCurrent DEF StoreInv
    <3> QED BY <3>1 DEF TenantState, TypeOK
  <2> QED BY <1>1, <2>1 DEF Seen
<1>3. SpentNow'[t] = [w \in Window |-> Seen(new, w, clock)]
  BY <1>1, AccountView
<1>4. SpentNow[t] = [w \in Window |-> stateFor(t).spent[w]]
  <2>1. SpentNow[t] = stateFor(t).spent /\ stateFor(t) \in TenantState
    BY StateForFacts DEF SpentNow
  <2>2. stateFor(t).spent \in [Window -> Nat]
    BY <2>1 DEF TenantState
  <2> QED BY <2>1, <2>2
<1>5. \A v \in Tenants \ {t} : SpentNow'[v] = SpentNow[v]
  BY <1>1, AccountView
<1> QED BY <1>2, <1>3, <1>4, <1>5

\* A step that settles nothing is no step of the account's totals.
LEMMA TouchUnseen ==
  ASSUME TypeOK, StoreInv, NEW t \in Tenants, Touches(t)
  PROVE  SpentNow' = SpentNow /\ DurableNow' = DurableNow
<1>1. PICK new \in TenantState :
        /\ new.start = stateFor(t).start /\ new.spent = stateFor(t).spent
        /\ state' = [state EXCEPT ![t] = new]
        /\ UNCHANGED <<clock, store>>
  BY DEF Touches
<1>2. SpentNow'[t] = SpentNow[t] /\ \A v \in Tenants \ {t} : SpentNow'[v] = SpentNow[v]
  <2>1. /\ SpentNow'[t] = [w \in Window |-> new.spent[w]]
        /\ SpentNow[t] = [w \in Window |-> stateFor(t).spent[w]]
        /\ \A v \in Tenants \ {t} : SpentNow'[v] = SpentNow[v]
    BY <1>1, SeenAfter
  <2> QED BY <1>1, <2>1
<1>3. \A v \in Tenants : SpentNow'[v] = SpentNow[v]
  BY <1>2
<1>4. SpentNow' = SpentNow
  BY <1>3 DEF SpentNow
<1>5. DurableNow' = DurableNow
  BY <1>1, AccountView
<1> QED BY <1>4, <1>5

\* An admission is one of the account: it fits beside all that is spent and claimed.
LEMMA AdmitsFitting ==
  ASSUME TypeOK, StoreInv, CommittedIsOpenClaims, NEW t \in Tenants, NEW est \in Estimates,
         ReserveAdmitted(t, est)
  PROVE  Account!Next
<1> DEFINE r == [tenant |-> t, usd |-> est.usd, tokens |-> est.tokens, issuedAt |-> clock]
           n == Len(issued)
           c == [tenant |-> t, usd |-> est.usd, open |-> TRUE]
<1>1. SpentNow' = SpentNow /\ DurableNow' = DurableNow
  BY TouchingSteps, TouchUnseen
<1>2. /\ issued' = Append(issued, r) /\ done' = done
      /\ checkBudgets(stateFor(t), Limits[t], est) = "none"
  BY DEF ReserveAdmitted
<1>3. /\ est.usd \in Nat /\ issued \in Seq(Reservation) /\ done \in SUBSET (1..n) /\ r \in Reservation
  <2>1. est \in Amount /\ clock \in Nat
    BY DEF TypeOK
  <2> QED BY <2>1 DEF TypeOK, Amount, Reservation
<1>4. r.tenant = t /\ r.usd = est.usd
  OBVIOUS
<1> HIDE DEF r
<1>5. ClaimsNow' = Append(ClaimsNow, c)
  BY <1>2, <1>3, <1>4, ClaimsView, ClaimsIssued
<1>6. ClaimsNow \in Seq(Claim) /\ Len(ClaimsNow) \in Nat
  BY <1>3, ClaimsView, ClaimsSeq
<1>7. c \in Claim /\ c.usd = est.usd
  BY <1>3 DEF Claim
<1> HIDE DEF c
<1>8. Len(ClaimsNow') = Len(ClaimsNow) + 1 /\ ClaimsNow'[Len(ClaimsNow')].usd = est.usd
  <2>1. Len(Append(ClaimsNow, c)) = Len(ClaimsNow) + 1 /\ Append(ClaimsNow, c)[Len(ClaimsNow) + 1] = c
    BY <1>6, <1>7, AppendProperties
  <2> QED BY <1>5, <1>7, <2>1
<1>9. Account!Fits(t, est.usd)
  <2> SUFFICES ASSUME NEW w \in Window, Limits[t].usd[w] > 0
               PROVE  SpentNow[t][w] + CommittedOf(t) + est.usd <= Limits[t].usd[w]
    BY ClaimedIsCommitted DEF Account!Fits
  <2>1. ~overBudget(stateFor(t), Limits[t], est, w)
    BY <1>2, AdmissionFits
  <2>2. SpentNow[t][w] = stateFor(t).spent[w] /\ stateFor(t).committed = CommittedOf(t)
    BY StateForFacts DEF SpentNow
  <2>3. stateFor(t).spent[w] \in Nat /\ CommittedOf(t) \in Nat /\ Limits[t].usd[w] \in Nat
    BY BoundTypes
  <2> QED BY <1>3, <2>1, <2>2, <2>3 DEF overBudget
<1>10. Account!Admit
  BY <1>1, <1>5, <1>8, <1>9 DEF Account!Admit, c
<1> QED BY <1>10 DEF Account!Next

\* A reservation is closed once, and what it cost is spent in every window alike.
LEMMA ClosesClaim ==
  ASSUME TypeOK, StoreInv, NEW id \in 1..Len(issued), NEW usd \in Nat, NEW new \in TenantState,
         id \notin done, done' = done \cup {id},
         new.start = stateFor(issued[id].tenant).start,
         \A w \in Window : new.spent[w] = stateFor(issued[id].tenant).spent[w] + usd,
         state' = [state EXCEPT ![issued[id].tenant] = new], UNCHANGED <<clock, issued, store>>
  PROVE  Account!Next
<1> DEFINE t == issued[id].tenant
<1>1. t \in Tenants /\ issued \in Seq(Reservation) /\ Len(issued) \in Nat
  BY IssuedFacts, LenProperties DEF TypeOK
<1>2. DurableNow' = DurableNow
  BY AccountView
<1>3. ClaimsNow' = [ClaimsNow EXCEPT ![id] = Account!Closed(ClaimsNow[id])]
  <2> DEFINE n == Len(issued)
  <2>1. /\ ClaimsNow = [i \in 1..n |-> ClaimAt(issued[i], i, done)]
        /\ ClaimsNow' = [i \in 1..n |-> ClaimAt(issued[i], i, done \cup {id})]
    BY ClaimsView DEF ClaimsAre
  <2>2. ASSUME NEW i \in 1..n, i # id
        PROVE  ClaimAt(issued[i], i, done \cup {id}) = ClaimAt(issued[i], i, done)
    <3>1. (i \notin done \cup {id}) = (i \notin done)
      BY <2>2
    <3> QED BY <3>1 DEF ClaimAt
  <2>3. ClaimAt(issued[id], id, done \cup {id}) = Account!Closed(ClaimAt(issued[id], id, done))
    <3>1. (id \notin done \cup {id}) = FALSE
      OBVIOUS
    <3>2. /\ ClaimAt(issued[id], id, done).tenant = issued[id].tenant
          /\ ClaimAt(issued[id], id, done).usd = issued[id].usd
      BY DEF ClaimAt
    <3> QED BY <3>1, <3>2 DEF ClaimAt, Account!Closed
  <2>4. ClaimsNow[id] = ClaimAt(issued[id], id, done)
    BY <2>1
  <2> QED BY <2>1, <2>2, <2>3, <2>4
<1>4. Len(ClaimsNow) = Len(issued) /\ ClaimsNow[id] = ClaimAt(issued[id], id, done)
  BY <1>1, ClaimsView, ClaimsSeq
<1>5. ClaimsNow[id].tenant = t /\ ClaimsNow[id].open
  <2>1. (id \notin done) = TRUE
    OBVIOUS
  <2>2. ClaimsNow[id] = [tenant |-> t, usd |-> issued[id].usd, open |-> TRUE]
    BY <1>4, <2>1 DEF ClaimAt
  <2> QED BY <2>2
<1>6. /\ SpentNow'[t] = [w \in Window |-> new.spent[w]]
      /\ SpentNow[t] = [w \in Window |-> stateFor(t).spent[w]]
      /\ \A v \in Tenants \ {t} : SpentNow'[v] = SpentNow[v]
  BY <1>1, SeenAfter
<1>7. \A w \in Window : stateFor(t).spent[w] \in Nat
  BY <1>1, BoundTypes
<1> HIDE DEF t
<1>8. /\ \A w \in Window : SpentNow'[t][w] = SpentNow[t][w] + usd /\ SpentNow[t][w] \in Nat
      /\ SpentNow'[t] = [w \in Window |-> SpentNow[t][w] + usd]
  BY <1>6, <1>7 DEF t
<1>9. SpentNow'[t]["daily"] - SpentNow[t]["daily"] = usd /\ usd >= 0 /\ "daily" \in Window
  <2>1. "daily" \in Window
    BY DEF Window
  <2> QED BY <1>8, <2>1
<1>10. \E w \in Window : LET u == SpentNow'[t][w] - SpentNow[t][w]
         IN  u >= 0 /\ SpentNow'[t] = [x \in Window |-> SpentNow[t][x] + u]
  BY <1>8, <1>9
<1>11. Account!Close(id)
  BY <1>2, <1>3, <1>5, <1>6, <1>10, SMTT(30) DEF Account!Close
<1> QED BY <1>4, <1>11 DEF Account!Next

\* A save catches up with what is spent, and never falls back.
LEMMA SavesAhead ==
  ASSUME TypeOK, StoreInv, NEW p \in pending, PersistSaved(p)
  PROVE  Account!Next
<1> DEFINE t == p.tenant
           st == state[t]
<1>1. /\ t \in Tenants /\ p.seq > written[t] /\ IsRow(p.row) /\ p.row \in Row /\ p.row # Absent
      /\ st # Absent /\ Before(p.row, st)
  BY RowTypes DEF StoreInv, RowsBeforeMemory, PersistSaved, Fresh, TypeOK, Snapshot
<1>2. /\ store' = [store EXCEPT ![t] = p.row] /\ UNCHANGED <<clock, state, issued, done>>
  BY DEF PersistSaved, memory
<1>3. store'[t] = p.row /\ \A v \in Tenants : v # t => store'[v] = store[v]
  BY <1>1, <1>2 DEF TypeOK
<1>4. SpentNow' = SpentNow /\ ClaimsNow' = ClaimsNow
  BY <1>2, AccountView, ClaimsView
<1>5. \A v \in Tenants \ {t} : DurableNow'[v] = DurableNow[v]
  BY <1>2, <1>3, AccountView
<1>6. ASSUME NEW w \in Window PROVE DurableNow'[t][w] \in DurableNow[t][w]..SpentNow[t][w]
  <2>1. /\ p.row.start[w] \in Nat /\ p.row.spent[w] \in Nat /\ st.start[w] \in Nat /\ st.spent[w] \in Nat
        /\ WindowLength[w] \in Nat /\ clock \in Nat /\ st.start[w] <= clock
        /\ store[t] # Absent => store[t].start[w] \in Nat /\ store[t].spent[w] \in Nat
    <3>1. IsRow(st) /\ (store[t] # Absent => IsRow(store[t]))
      BY <1>1, RowTypes
    <3>2. clock \in Nat /\ WindowLength[w] \in Nat /\ st.start[w] <= clock
      BY <1>1 DEF TypeOK, StoreInv, StartsInPast
    <3> QED BY <1>1, <3>1, <3>2 DEF IsRow
  <2>2. \/ p.row.start[w] + WindowLength[w] <= st.start[w]
        \/ p.row.start[w] = st.start[w] /\ p.row.spent[w] <= st.spent[w]
    BY <1>1 DEF Before
  <2>3. store[t] # Absent =>
          \/ store[t].start[w] + WindowLength[w] <= p.row.start[w]
          \/ store[t].start[w] = p.row.start[w] /\ store[t].spent[w] <= p.row.spent[w]
    BY <1>1 DEF StoreInv, RowsInSequence, Before
  <2>4. /\ DurableNow'[t][w] = Seen(p.row, w, clock) /\ DurableNow[t][w] = Seen(store[t], w, clock)
        /\ SpentNow[t][w] = Seen(st, w, clock)
    BY <1>1, <1>2, <1>3, AccountView
  <2> HIDE DEF st
  <2>5. Seen(p.row, w, clock) \in Nat /\ Seen(p.row, w, clock) <= Seen(st, w, clock) /\ Seen(st, w, clock) \in Nat
    BY <1>1, <2>1, <2>2 DEF Seen
  <2>6. Seen(store[t], w, clock) \in Nat /\ Seen(store[t], w, clock) <= Seen(p.row, w, clock)
    <3>1. CASE store[t] = Absent
      BY <2>5, <3>1 DEF Seen
    <3>2. CASE store[t] # Absent
      BY <1>1, <2>1, <2>2, <2>3, <3>2 DEF Seen
    <3> QED BY <3>1, <3>2
  <2> QED BY <2>4, <2>5, <2>6
<1>7. Account!Save(t)
  BY <1>4, <1>5, <1>6 DEF Account!Save
<1> QED BY <1>1, <1>7 DEF Account!Next

\* Time passes: a window that ends is seen to be empty, in memory and in the store.
LEMMA TimeElapses ==
  ASSUME TypeOK, Tick
  PROVE  Account!Next
<1>1. clock' = clock + 1 /\ UNCHANGED <<state, store, issued, done>>
  BY DEF Tick, memory, writing
<1>3. ASSUME NEW t \in Tenants, NEW w \in Window
      PROVE  /\ SpentNow'[t][w] \in {0, SpentNow[t][w]}
             /\ DurableNow'[t][w] \in {0, DurableNow[t][w]}
  <2>1. /\ clock \in Nat /\ WindowLength[w] \in Nat
        /\ state[t] # Absent => state[t].start[w] \in Nat
        /\ store[t] # Absent => store[t].start[w] \in Nat
    BY BoundTypes
  <2>2. /\ Seen(state[t], w, clock + 1) \in {0, Seen(state[t], w, clock)}
        /\ Seen(store[t], w, clock + 1) \in {0, Seen(store[t], w, clock)}
    BY <2>1 DEF Seen
  <2> QED BY <1>1, <2>2, AccountView
<1>4. ClaimsNow' = ClaimsNow
  BY <1>1, ClaimsView
<1>5. Account!Elapse
  BY <1>3, <1>4 DEF Account!Elapse
<1> QED BY <1>5 DEF Account!Next

\* A crash falls back to the durable totals of the tenants the next process serves.
LEMMA CrashFallsBack ==
  ASSUME TypeOK, StoreInv, NEW conf \in SUBSET Tenants, Restart(conf)
  PROVE  Account!Next
<1>1. /\ state' = [t \in Tenants |-> RestoredState(t, conf)] /\ issued' = <<>> /\ done' = {}
      /\ UNCHANGED <<clock, store>>
  BY DEF Restart
<1>2. ClaimsNow' = <<>>
  BY <1>1, ClaimsView DEF ClaimsAre
<1>3. DurableNow' = DurableNow
  BY <1>1, AccountView
<1>4. ASSUME NEW t \in Tenants, NEW w \in Window
      PROVE  Seen(state'[t], w, clock) = IF t \in conf THEN Seen(store[t], w, clock) ELSE 0
  <2>1. CASE t \notin conf \/ store[t] = Absent
    <3>1. state'[t] = Absent
      BY <1>1, <2>1 DEF RestoredState
    <3> QED BY <2>1, <3>1 DEF Seen
  <2>2. CASE t \in conf /\ store[t] # Absent
    <3>1. HasStore /\ store[t] \in Row /\ clock \in Nat
      BY <2>2 DEF StoreInv, RowsBeforeMemory, TypeOK
    <3>2. state'[t] = [spent |-> store[t].spent, start |-> store[t].start,
                       committed |-> 0, requests |-> 0, requestsAt |-> clock,
                       tokens |-> 0, tokensAt |-> clock]
      BY <1>1, <2>2, <3>1 DEF RestoredState
    <3>3. state'[t] \in TenantState
      BY <3>1, <3>2 DEF TenantState, Row
    <3>4. state'[t] # Absent /\ state'[t].spent = store[t].spent /\ state'[t].start = store[t].start
      BY <3>2, <3>3
    <3> QED BY <2>2, <3>4 DEF Seen
  <2> QED BY <2>1, <2>2
<1>5. SpentNow' = [t \in Tenants |-> IF t \in conf THEN DurableNow[t] ELSE [w \in Window |-> 0]]
  <2>1. ASSUME NEW t \in Tenants
        PROVE  [w \in Window |-> Seen(state'[t], w, clock)]
               = IF t \in conf THEN DurableNow[t] ELSE [w \in Window |-> 0]
    <3>1. DurableNow[t] = [w \in Window |-> Seen(store[t], w, clock)]
      BY AccountView
    <3> QED BY <1>4, <3>1
  <2>2. SpentNow' = [t \in Tenants |-> [w \in Window |-> Seen(state'[t], w, clock)]]
    BY <1>1, AccountView
  <2> QED BY <2>1, <2>2
<1>6. Account!Crash(conf)
  BY <1>2, <1>3, <1>5 DEF Account!Crash
<1> QED BY <1>6 DEF Account!Next

\* The enforcer implements the account: Reserve, Settle, Release, the writers, the
\* clock and a crash do to the totals and the claims what the account allows.
THEOREM AccountImplemented == Spec => ImplementsAccount
<1>1. Init => Account!Init
  <2> SUFFICES ASSUME Init PROVE Account!Init
    OBVIOUS
  <2>1. /\ \A t \in Tenants : state[t] = Absent /\ store[t] = Absent
        /\ issued = <<>>
    BY DEF Init
  <2>2. \A w, now : Seen(Absent, w, now) = 0
    BY DEF Seen
  <2>3. SpentNow = [t \in Tenants |-> [w \in Window |-> 0]] /\ DurableNow = [t \in Tenants |-> [w \in Window |-> 0]]
    BY <2>1, <2>2, AccountView
  <2>4. ClaimsNow = <<>>
    BY <2>1, ClaimsView DEF ClaimsAre
  <2> QED BY <2>3, <2>4 DEF Account!Init
<1>2. TypeOK /\ StoreInv /\ CommittedIsOpenClaims /\ [Next]_vars => [Account!Next]_(Account!vars)
  <2> SUFFICES ASSUME TypeOK, StoreInv, CommittedIsOpenClaims, [Next]_vars
               PROVE  Account!Next \/ UNCHANGED Account!vars
    OBVIOUS
  <2>1. ASSUME UNCHANGED <<clock, state, store, issued, done>> PROVE UNCHANGED Account!vars
    BY <2>1, AccountView, ClaimsView DEF Account!vars
  <2>2. ASSUME UNCHANGED vars PROVE UNCHANGED Account!vars
    BY <2>1, <2>2 DEF vars, memory, writing
  <2>3. ASSUME NEW t \in Tenants, Touches(t), UNCHANGED <<issued, done>> PROVE UNCHANGED Account!vars
    <3>1. SpentNow' = SpentNow /\ DurableNow' = DurableNow
      BY <2>3, TouchUnseen
    <3>2. ClaimsNow' = ClaimsNow
      BY <2>3, ClaimsView
    <3> QED BY <3>1, <3>2 DEF Account!vars
  <2>4. ASSUME NEW t \in Tenants, Reserve(t) \/ Read(t) PROVE Account!Next \/ UNCHANGED Account!vars
    <3>1. CASE ReserveBlind(t)
      BY <2>2, <3>1 DEF ReserveBlind
    <3>2. ASSUME NEW est \in Estimates, ReserveDenied(t, est) PROVE UNCHANGED Account!vars
      <4>1. Touches(t) /\ UNCHANGED <<issued, done>>
        BY <3>2, TouchingSteps DEF ReserveDenied
      <4> QED BY <2>3, <4>1
    <3>3. ASSUME NEW est \in Estimates, ReserveAdmitted(t, est) PROVE Account!Next
      BY <3>3, AdmitsFitting
    <3>4. ASSUME Read(t) PROVE UNCHANGED Account!vars
      <4>1. Touches(t) /\ UNCHANGED <<issued, done>>
        BY <3>4, TouchingSteps DEF Read
      <4> QED BY <2>3, <4>1
    <3> QED BY <2>4, <3>1, <3>2, <3>3, <3>4 DEF Reserve
  <2>5. ASSUME NEW id \in 1..Len(issued), NEW use \in Usages, Settle(id, use) PROVE Account!Next
    <3> DEFINE r   == issued[id]
               st  == stateFor(r.tenant)
               new == Settled(st, r, use)
    <3>1. /\ id \notin done /\ done' = done \cup {id} /\ state' = [state EXCEPT ![r.tenant] = new]
          /\ UNCHANGED <<clock, issued, store>>
      BY <2>5 DEF Settle, Open
    <3>2. r \in Reservation /\ r.tenant \in Tenants /\ use \in Amount /\ use.usd \in Nat
      BY IssuedFacts DEF Amount
    <3>3. st \in TenantState
      BY <3>2, StateForFacts
    <3>4. /\ new \in TenantState /\ new.start = st.start
          /\ new.spent = [w \in Window |-> st.spent[w] + use.usd]
      BY <3>2, <3>3, SettledFacts
    <3> HIDE DEF new
    <3> QED BY <3>1, <3>2, <3>4, ClosesClaim
  <2>6. ASSUME NEW id \in 1..Len(issued), Release(id) PROVE Account!Next
    <3> DEFINE t == issued[id].tenant
    <3>1. /\ id \notin done /\ done' = done \cup {id} /\ UNCHANGED <<clock, issued, store>>
      BY <2>6 DEF Release, Open, writing
    <3>2. Touches(t) /\ t \in Tenants
      BY <2>6, IssuedFacts, TouchingSteps
    <3>3. PICK new \in TenantState :
            /\ new.start = stateFor(t).start /\ new.spent = stateFor(t).spent
            /\ state' = [state EXCEPT ![t] = new]
      BY <3>2 DEF Touches
    <3>4. \A w \in Window : new.spent[w] = stateFor(t).spent[w] + 0
      <4>1. \A w \in Window : stateFor(t).spent[w] \in Nat
        BY <3>2, BoundTypes
      <4> QED BY <3>3, <4>1
    <3> QED BY <3>1, <3>3, <3>4, ClosesClaim
  <2>7. ASSUME NEW id \in 1..Len(issued), Close(id) PROVE Account!Next \/ UNCHANGED Account!vars
    BY <2>2, <2>5, <2>6, <2>7 DEF Close, CloseAgain
  <2>8. ASSUME NEW p \in pending, Persist(p) PROVE Account!Next \/ UNCHANGED Account!vars
    <3>1. CASE PersistStale(p) \/ PersistFailed(p)
      BY <2>1, <3>1 DEF PersistStale, PersistFailed, memory
    <3>2. CASE PersistSaved(p)
      BY <3>2, SavesAhead
    <3> QED BY <2>8, <3>1, <3>2 DEF Persist
  <2>9. ASSUME setStoreHealthy PROVE UNCHANGED Account!vars
    BY <2>1, <2>9 DEF setStoreHealthy, memory
  <2>10. ASSUME Tick PROVE Account!Next
    BY <2>10, TimeElapses
  <2>11. ASSUME NEW conf \in SUBSET Tenants, Restart(conf) PROVE Account!Next
    BY <2>11, CrashFallsBack
  <2> QED BY <2>2, <2>4, <2>7, <2>8, <2>9, <2>10, <2>11 DEF Next
<1> QED BY <1>1, <1>2, TypeCorrect, RowsOrdered, CommittedCorrect, PTL DEF Spec, ImplementsAccount, Account!Spec
=============================================================================
