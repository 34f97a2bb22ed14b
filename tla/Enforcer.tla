------------------------------ MODULE Enforcer ------------------------------
(***************************************************************************)
(* internal/budget/enforcer.go: the two phase budget enforcer.  Reserve    *)
(* claims an estimate, Settle replaces the claim by the real cost, Release *)
(* returns it.  All counters change under one mutex (mu), so each of these *)
(* is one action; a settlement's durable write runs after mu is released,  *)
(* under storeMu, and is a second set of actions that interleave with      *)
(* everything else.  A crash loses the process and keeps the store.        *)
(*                                                                         *)
(* Money and tokens are natural numbers (the code has float64 and int).    *)
(* spent["daily"] is the code's dailySpent, start["daily"] its dailyStart, *)
(* and so on: the two budget windows differ only in their length.          *)
(***************************************************************************)
EXTENDS Integers, Sequences, FiniteSets, Sums

CONSTANTS
    Tenants,          \* every tenant a configuration may name
    Limits,           \* Limits[t]: what t may consume; a zero limit is none
    Estimates,        \* what the estimator may predict for a request
    Usages,           \* what a settled request may turn out to have used
    WindowLength,     \* dailyWindow and monthlyWindow, in ticks
    RateWindow,       \* rateWindow, in ticks
    HasStore,         \* TRUE for NewDurableEnforcer, FALSE for NewEnforcer
    Absent,           \* a tenant with no entry in the state map, or no row
    MaxClock,         \* bound: the last tick
    MaxReservations,  \* bound: reservations issued by one process
    MaxRestarts,      \* bound: crashes
    MaxSaveFailures   \* bound: failed durable writes

Window == {"daily", "monthly"}

LimitRecord == [usd: [Window -> Nat], requests: Nat, tokens: Nat,
                failClosed: BOOLEAN]
Amount      == [usd: Nat, tokens: Nat]
Row         == [spent: [Window -> Nat], start: [Window -> Nat]]
TenantState == [spent: [Window -> Nat], start: [Window -> Nat],
                committed: Nat, requests: Nat, requestsAt: Nat,
                tokens: Nat, tokensAt: Nat]
Reservation == [tenant: Tenants, usd: Nat, tokens: Nat, issuedAt: Nat]
Snapshot    == [tenant: Tenants, seq: Nat, row: Row]
Bill        == [id: Nat, tenant: Tenants, usd: Nat, tokens: Nat, at: Nat,
                start: [Window -> Nat]]

ASSUME ConstantsAssumption ==
    /\ Limits \in [Tenants -> LimitRecord]
    /\ Estimates \subseteq Amount
    /\ Usages \subseteq Amount
    /\ WindowLength \in [Window -> Nat \ {0}]
    /\ RateWindow \in Nat \ {0}
    /\ HasStore \in BOOLEAN
    /\ Absent \notin TenantState
    /\ Absent \notin Row
    /\ MaxClock \in Nat
    /\ MaxReservations \in Nat
    /\ MaxRestarts \in Nat
    /\ MaxSaveFailures \in Nat

VARIABLES
    clock,       \* the injected clock
    configured,  \* the tenants this process was started with
    state,       \* MemEnforcer.state
    issued,      \* the reservations handed out, in order; nextID is its length
    done,        \* MemEnforcer.done
    healthy,     \* MemEnforcer.healthy
    seq,         \* MemEnforcer.seq
    written,     \* MemEnforcer.written
    pending,     \* snapshots on their way to persist
    storeMu,     \* the writer inside persist: what its Save returned, or "free"
    store,       \* the rows in the store
    restarts,    \* crashes so far
    failures,    \* failed saves so far
    over,        \* history: actual minus estimate, settled since the last admission
    bills,       \* history: what this process settled, in order, and in which windows
    restored     \* history: the rows this process started from

memory  == <<state, issued, done>>
writing == <<healthy, written, pending, storeMu, store, failures>>
history == <<over, bills, restored>>
vars    == <<clock, configured, memory, seq, writing, restarts, history>>

-----------------------------------------------------------------------------
(* Windows *)

expired(start, length) == clock - start >= length

\* A tenant seen for the first time.
FreshState ==
    [spent |-> [w \in Window |-> 0], start |-> [w \in Window |-> clock],
     committed |-> 0, requests |-> 0, requestsAt |-> clock,
     tokens |-> 0, tokensAt |-> clock]

\* Mutant: a new day also begins a new month.
Rolled_Together(st) ==
    LET ended == \E w \in Window : expired(st.start[w], WindowLength[w])
    IN  [st EXCEPT !.spent = [w \in Window |-> IF ended THEN 0 ELSE st.spent[w]],
                   !.start = [w \in Window |-> IF ended THEN clock ELSE st.start[w]]]

\* The tenant's counters with every expired window cleared.  The windows turn
\* over independently and the committed amount belongs to none of them.
Rolled(st) ==
    [spent      |-> [w \in Window |-> IF expired(st.start[w], WindowLength[w])
                                      THEN 0 ELSE st.spent[w]],
     start      |-> [w \in Window |-> IF expired(st.start[w], WindowLength[w])
                                      THEN clock ELSE st.start[w]],
     committed  |-> st.committed,
     requests   |-> IF expired(st.requestsAt, RateWindow) THEN 0 ELSE st.requests,
     requestsAt |-> IF expired(st.requestsAt, RateWindow) THEN clock ELSE st.requestsAt,
     tokens     |-> IF expired(st.tokensAt, RateWindow) THEN 0 ELSE st.tokens,
     tokensAt   |-> IF expired(st.tokensAt, RateWindow) THEN clock ELSE st.tokensAt]

stateFor(t) == IF state[t] = Absent THEN FreshState ELSE Rolled(state[t])

\* Mutant: without the clamp.
monus_Unclamped(a, b) == a - b

\* A subtraction clamped at zero.
monus(a, b) == IF a >= b THEN a - b ELSE 0

-----------------------------------------------------------------------------
(* Admission *)

\* Mutant: requests are not counted.
checkRates_TokensOnly(st, lim, est) ==
    IF lim.tokens > 0 /\ st.tokens + est.tokens > lim.tokens THEN "token_rate" ELSE "none"

checkRates(st, lim, est) ==
    CASE lim.requests > 0 /\ st.requests >= lim.requests         -> "request_rate"
      [] lim.tokens > 0 /\ st.tokens + est.tokens > lim.tokens   -> "token_rate"
      [] OTHER                                                   -> "none"

\* Mutant: what is already claimed is not counted.
overBudget_Unclaimed(st, lim, est, w) ==
    lim.usd[w] > 0 /\ st.spent[w] + est.usd > lim.usd[w]

overBudget(st, lim, est, w) ==
    lim.usd[w] > 0 /\ st.spent[w] + st.committed + est.usd > lim.usd[w]

checkBudgets(st, lim, est) ==
    CASE overBudget(st, lim, est, "daily")   -> "daily_budget"
      [] overBudget(st, lim, est, "monthly") -> "monthly_budget"
      [] OTHER                               -> "none"

\* Refused before the tenant's counters are looked at: an unknown tenant, or a
\* fail_closed tenant while the store is degraded.
ReserveBlind(t) ==
    /\ t \notin configured \/ (~healthy /\ Limits[t].failClosed)
    /\ UNCHANGED vars

Sighted(t) == t \in configured /\ (healthy \/ ~Limits[t].failClosed)

\* Refused by a rate or a budget.  stateFor has already rolled the windows.
ReserveDenied(t, est) ==
    /\ Sighted(t)
    /\ LET st == stateFor(t)
       IN  /\ \/ checkRates(st, Limits[t], est) # "none"
              \/ checkBudgets(st, Limits[t], est) # "none"
           /\ state' = [state EXCEPT ![t] = st]
    /\ UNCHANGED <<clock, configured, issued, done, seq, writing, restarts, history>>

\* Admitted: the estimate is claimed under the lock that checked for room.
ReserveAdmitted(t, est) ==
    /\ Sighted(t)
    /\ Len(issued) < MaxReservations
    /\ LET st == stateFor(t)
       IN  /\ checkRates(st, Limits[t], est) = "none"
           /\ checkBudgets(st, Limits[t], est) = "none"
           /\ state' = [state EXCEPT ![t] =
                  [st EXCEPT !.committed = st.committed + est.usd,
                             !.requests  = st.requests + 1,
                             !.tokens    = st.tokens + est.tokens]]
    /\ issued' = Append(issued, [tenant |-> t, usd |-> est.usd,
                                 tokens |-> est.tokens, issuedAt |-> clock])
    /\ over' = [over EXCEPT ![t] = 0]
    /\ UNCHANGED <<clock, configured, done, seq, writing, restarts, bills, restored>>

-----------------------------------------------------------------------------
(* Closing a reservation *)

\* Mutant: a reservation is never terminal.
Open_Always(id) == TRUE

Open(id) == id \notin done

\* Mutant: the claim stays.
Settled_ClaimKept(st, r, use) ==
    [st EXCEPT !.spent = [w \in Window |-> st.spent[w] + use.usd]]

\* The tenant's counters after reservation r is settled for use.
Settled(st, r, use) ==
    [st EXCEPT !.committed = monus(st.committed, r.usd),
               !.spent     = [w \in Window |-> st.spent[w] + use.usd],
               !.tokens    = monus(st.tokens + use.tokens, r.tokens)]

\* Settle, up to the point where mu is released.  With a store, the snapshot
\* and its sequence number are taken under mu and handed to persist.
Settle(id, use) ==
    LET r  == issued[id]
        st == Settled(stateFor(r.tenant), r, use)
    IN  /\ Open(id)
        /\ done' = done \cup {id}
        /\ state' = [state EXCEPT ![r.tenant] = st]
        /\ IF HasStore
           THEN /\ seq' = [seq EXCEPT ![r.tenant] = seq[r.tenant] + 1]
                /\ pending' = pending \cup
                      {[tenant |-> r.tenant, seq |-> seq[r.tenant] + 1,
                        row |-> [spent |-> st.spent, start |-> st.start]]}
           ELSE UNCHANGED <<seq, pending>>
        /\ over' = [over EXCEPT ![r.tenant] = over[r.tenant] + use.usd - r.usd]
        /\ bills' = Append(bills, [id |-> id, tenant |-> r.tenant, usd |-> use.usd,
                                   tokens |-> use.tokens, at |-> clock,
                                   start |-> st.start])
        /\ UNCHANGED <<clock, configured, issued, healthy, written, storeMu, store,
                       failures, restarts, restored>>

\* Release: the request never reached the upstream.  The claim goes back; the
\* request and the tokens it counted against the rates do not.
Release(id) ==
    LET r  == issued[id]
        st == stateFor(r.tenant)
    IN  /\ Open(id)
        /\ done' = done \cup {id}
        /\ state' = [state EXCEPT ![r.tenant] =
                        [st EXCEPT !.committed = monus(st.committed, r.usd)]]
        /\ UNCHANGED <<clock, configured, issued, seq, writing, restarts, history>>

\* Settle or Release of a reservation that is already terminal.
CloseAgain(id) == ~Open(id) /\ UNCHANGED vars

\* Spent and Committed, read by the admin endpoint, roll the windows too, and
\* create the counters of a tenant they see first.
Read(t) ==
    /\ state' = [state EXCEPT ![t] = stateFor(t)]
    /\ UNCHANGED <<clock, configured, issued, done, seq, writing, restarts, history>>

-----------------------------------------------------------------------------
(* persist: one writer at a time holds storeMu *)

\* Mutants: no order is kept, and an off by one in the comparison.
Fresh_Always(p)   == TRUE
Fresh_OffByOne(p) == p.seq > written[p.tenant] + 1

\* No newer snapshot of the tenant has reached the store.
Fresh(p) == p.seq > written[p.tenant]

\* A newer snapshot of the tenant already landed: dropped, health untouched.
PersistStale(p) ==
    /\ storeMu = "free"
    /\ ~Fresh(p)
    /\ pending' = pending \ {p}
    /\ UNCHANGED <<clock, configured, memory, seq, healthy, written, storeMu, store,
                   failures, restarts, history>>

\* Save returns nil.  The row is in the store before the health flag moves.
PersistSaved(p) ==
    /\ storeMu = "free"
    /\ Fresh(p)
    /\ pending' = pending \ {p}
    /\ store' = [store EXCEPT ![p.tenant] = p.row]
    /\ written' = [written EXCEPT ![p.tenant] = p.seq]
    /\ storeMu' = "saved"
    /\ UNCHANGED <<clock, configured, memory, seq, healthy, failures, restarts, history>>

\* Save returns an error.  Nothing retries it.
PersistFailed(p) ==
    /\ storeMu = "free"
    /\ Fresh(p)
    /\ failures < MaxSaveFailures
    /\ failures' = failures + 1
    /\ pending' = pending \ {p}
    /\ storeMu' = "failed"
    /\ UNCHANGED <<clock, configured, memory, seq, healthy, written, store, restarts,
                   history>>

\* setStoreHealthy takes mu, then persist returns and storeMu is free again.
setStoreHealthy ==
    /\ storeMu # "free"
    /\ healthy' = (storeMu = "saved")
    /\ storeMu' = "free"
    /\ UNCHANGED <<clock, configured, memory, seq, written, pending, store, failures,
                   restarts, history>>

-----------------------------------------------------------------------------
(* The environment *)

Tick ==
    /\ clock < MaxClock
    /\ clock' = clock + 1
    /\ UNCHANGED <<configured, memory, seq, writing, restarts, history>>

\* What NewDurableEnforcer restores for one tenant: its settled totals and
\* their windows, no claims, fresh rate windows.  A tenant that is not in the
\* configuration is skipped, and so is everything when there is no store.
RestoredState(t, conf) ==
    IF ~HasStore \/ t \notin conf \/ store[t] = Absent
    THEN Absent
    ELSE [spent |-> store[t].spent, start |-> store[t].start, committed |-> 0,
          requests |-> 0, requestsAt |-> clock, tokens |-> 0, tokensAt |-> clock]

\* The process dies at any point and a new one starts with the tenants conf.
\* A Load that fails is fatal, which is a process that has not started yet.
Restart(conf) ==
    /\ restarts < MaxRestarts
    /\ restarts' = restarts + 1
    /\ configured' = conf
    /\ state' = [t \in Tenants |-> RestoredState(t, conf)]
    /\ issued' = <<>>
    /\ done' = {}
    /\ healthy' = TRUE
    /\ seq' = [t \in Tenants |-> 0]
    /\ written' = [t \in Tenants |-> 0]
    /\ pending' = {}
    /\ storeMu' = "free"
    /\ bills' = <<>>
    /\ restored' = store
    /\ UNCHANGED <<clock, store, failures, over>>

-----------------------------------------------------------------------------

Init ==
    /\ clock = 0
    /\ configured \in SUBSET Tenants
    /\ state = [t \in Tenants |-> Absent]
    /\ issued = <<>>
    /\ done = {}
    /\ healthy = TRUE
    /\ seq = [t \in Tenants |-> 0]
    /\ written = [t \in Tenants |-> 0]
    /\ pending = {}
    /\ storeMu = "free"
    /\ store = [t \in Tenants |-> Absent]
    /\ restarts = 0
    /\ failures = 0
    /\ over = [t \in Tenants |-> 0]
    /\ bills = <<>>
    /\ restored = [t \in Tenants |-> Absent]

Reserve(t) == \/ ReserveBlind(t)
              \/ \E est \in Estimates : ReserveDenied(t, est) \/ ReserveAdmitted(t, est)

Close(id) == \/ \E use \in Usages : Settle(id, use)
             \/ Release(id)
             \/ CloseAgain(id)

Persist(p) == PersistStale(p) \/ PersistSaved(p) \/ PersistFailed(p)

Next ==
    \/ \E t \in Tenants : Reserve(t) \/ Read(t)
    \/ \E id \in 1..Len(issued) : Close(id)
    \/ \E p \in pending : Persist(p)
    \/ setStoreHealthy
    \/ Tick
    \/ \E conf \in SUBSET Tenants : Restart(conf)

Spec == Init /\ [][Next]_vars

\* The writers make progress: persist always runs to its end, because Go's
\* mutexes are starvation free and Save is bounded by storeWriteTimeout.
PersistFairness ==
    /\ WF_vars(\E p \in pending : Persist(p))
    /\ WF_vars(setStoreHealthy)

FairSpec == Spec /\ PersistFairness

-----------------------------------------------------------------------------
(* Properties *)

TypeOK ==
    /\ clock \in Nat
    /\ configured \in SUBSET Tenants
    /\ state \in [Tenants -> TenantState \cup {Absent}]
    /\ issued \in Seq(Reservation)
    /\ done \in SUBSET (1..Len(issued))
    /\ healthy \in BOOLEAN
    /\ seq \in [Tenants -> Nat]
    /\ written \in [Tenants -> Nat]
    /\ pending \in SUBSET Snapshot
    /\ storeMu \in {"free", "saved", "failed"}
    /\ store \in [Tenants -> Row \cup {Absent}]
    /\ restarts \in Nat
    /\ failures \in Nat
    /\ over \in [Tenants -> Int]
    /\ bills \in Seq(Bill)
    /\ restored \in [Tenants -> Row \cup {Absent}]

\* The claims of tenant t that are still open, by reservation.
OpenClaims(t) ==
    [i \in 1..Len(issued) |->
        IF issued[i].tenant = t /\ i \notin done THEN issued[i].usd ELSE 0]

CommittedOf(t) == IF state[t] = Absent THEN 0 ELSE state[t].committed

\* The committed amount is exactly what the open reservations claim, whatever
\* windows rolled, and whoever closed what twice, in between.  The clamps in
\* Settle and Release therefore never hide a lost or a doubled claim.
CommittedIsOpenClaims ==
    \A t \in Tenants : CommittedOf(t) = SumTo(OpenClaims(t), Len(issued))

\* The overshoot bound documented in internal/budget/types.go: a tenant is over
\* a budget at most by how far the requests settled since the last admission
\* undershot, whatever was claimed, released, rolled, lost or restored.
OvershootBound ==
    \A t \in Tenants, w \in Window :
        (/\ state[t] # Absent
         /\ Limits[t].usd[w] > 0
         /\ ~expired(state[t].start[w], WindowLength[w]))
        => state[t].spent[w] + state[t].committed <= Limits[t].usd[w] + over[t]

\* a is no later than b, and no larger if they are of the same window.
RowLeq(a, b) ==
    \A w \in Window : \/ a.start[w] < b.start[w]
                      \/ a.start[w] = b.start[w] /\ a.spent[w] <= b.spent[w]

\* A stored total is never erased and never moves backwards within its window:
\* not by settlements that reach persist out of order, not by a failed write,
\* not by a restart with fewer tenants.
StoreNeverMovesBackwards ==
    [][\A t \in Tenants : store[t] # Absent =>
            store'[t] # Absent /\ RowLeq(store[t], store'[t])]_vars

\* The moments of a window of kind w that began at the moment from.
Span(w, from) == from..(from + WindowLength[w] - 1)

\* What the settlements bs charged tenant t during that window, by bill.
Charges(bs, t, w, from) ==
    [i \in 1..Len(bs) |-> IF bs[i].tenant = t /\ bs[i].at \in Span(w, from)
                          THEN bs[i].usd ELSE 0]

\* What was restored from the rows, with the tenants conf, for t's window w if
\* that is the one that began at the moment from.
Carried(rows, conf, t, w, from) ==
    IF t \in conf /\ rows[t] # Absent /\ rows[t].start[w] = from THEN rows[t].spent[w] ELSE 0

\* The window that began at the moment start is still the one that began at the
\* moment from, or had run its whole length before that one began.
SameOrOver(w, start, from) == start = from \/ start + WindowLength[w] <= from

\* What a counter holds is what was restored of its window plus what was settled
\* between that window's start and its end, once each.  Every settlement was charged
\* to windows that were running when it was made, and neither they nor a restored
\* one were left before they ended: no settlement is billed twice, billed to a
\* window that had ended, or forgotten because the other window turned over.
SpentIsSettledCharges ==
    \A t \in Tenants, w \in Window : state[t] # Absent =>
        LET from == state[t].start[w]
        IN  /\ state[t].spent[w] = Carried(restored, configured, t, w, from)
                                   + SumTo(Charges(bills, t, w, from), Len(bills))
            /\ \A i \in 1..Len(bills) : bills[i].tenant = t =>
                  /\ bills[i].at \in Span(w, bills[i].start[w])
                  /\ SameOrOver(w, bills[i].start[w], from)
            /\ t \in configured /\ restored[t] # Absent =>
                  SameOrOver(w, restored[t].start[w], from)

\* As long as no save failed, a tenant with no write in flight has its newest
\* settlement in the store, however the writes were reordered.
DurableOnceQuiet ==
    (HasStore /\ failures = 0) =>
        \A t \in Tenants : (seq[t] > 0 /\ \A p \in pending : p.tenant # t) =>
            /\ store[t] # Absent
            /\ RowLeq(store[t], state[t])
            /\ \A w \in Window : state[t].start[w] = store[t].start[w]
                                 => state[t].spent[w] = store[t].spent[w]

\* The per minute request cap: a fixed window admits at most the limit, so no
\* stretch of one window's length, wherever it starts, sees one process admit more
\* than twice that.  A restart begins a new window.
RequestRateHolds ==
    \A t \in Tenants, from \in 0..clock : Limits[t].requests > 0 =>
        Cardinality({i \in 1..Len(issued) :
                        /\ issued[i].tenant = t
                        /\ issued[i].issuedAt \in from..(from + RateWindow - 1)})
        <= 2 * Limits[t].requests

\* Every settlement reaches the store, itself or in a later snapshot that
\* includes it, unless a save fails or the process dies first.  No writer waits
\* for ever for storeMu, whatever else the enforcer is doing.
EverySettlementLands ==
    \A t \in Tenants, k \in 1..MaxReservations :
        seq[t] >= k ~> (written[t] >= k \/ failures > 0 \/ seq[t] < k)

-----------------------------------------------------------------------------
(* What a comment, a document or a test says and the code does not keep *)

\* persist's comment: totals that will not survive a restart are exactly the
\* condition the store is marked unhealthy for.
HealthyMeansDurable ==
    (HasStore /\ healthy /\ pending = {} /\ storeMu = "free") =>
        \A t \in Tenants : written[t] = seq[t]
=============================================================================
