------------------------------ MODULE Process -------------------------------
(***************************************************************************)
(* cmd/penstock and the shell of internal/ingress: the gateway process     *)
(* from its configuration file to its exit.  run loads the file, opens the *)
(* ledger and the store, and serves; each request passes recovery, access  *)
(* log, auth and the in flight limit, claims budget, is answered, charged, *)
(* saved and recorded.  A signal drains the listeners for as long as the   *)
(* grace allows and then closes the books, whether or not handlers still   *)
(* run; a crash may come at any point, and the process may start again.    *)
(*                                                                         *)
(* A request stands for its own charge: memory, the store's row and the    *)
(* ledger are the sets of requests they have counted.  How amounts, caps   *)
(* and windows decide a claim is in Enforcer, how an answer is relayed in  *)
(* Ingress; here a claim is admitted or refused and an answer comes whole, *)
(* fails, or panics.                                                       *)
(***************************************************************************)
EXTENDS Config

CONSTANTS
    Reqs,          \* requests; each arrives at most once
    Files,         \* configuration files the operator may have written, numbered
    Busy,          \* bound: the numbers of those whose gateways get traffic
    Presented,     \* bearer tokens callers send; "" is none
    Classes,       \* error classes an upstream call may end in
    DenyReasons,   \* reasons the enforcer may refuse for
    StoresFound,   \* states the store file may be found in
    MaxStarts,     \* bound: starts of the process
    MaxFaults      \* bound: failed writes

\* A file is what the decoder can return, and a request is new: no store found has
\* counted one.
ASSUME ProcessAssumption ==
    /\ IsFiniteSet(Reqs) /\ MaxStarts \in Nat /\ MaxFaults \in Nat
    /\ \A f \in DOMAIN Files : Decoded(Files[f])
    /\ StoresFound \subseteq [version: Nat, table: BOOLEAN, intact: BOOLEAN, row: {{}}]

VARIABLES
    file,      \* the number of the configuration file
    phase,     \* how far run has got
    refusal,   \* why the last start was refused
    store,     \* the SQLite file: version, table, soundness and rows
    ledger,    \* the rows of the ledger file
    wired,     \* what run keeps of the file: the limit, the accounts, the books
    open,      \* the handles the process holds
    keys,      \* the keySet of the server
    h,         \* the handler of each request
    slots,     \* slots taken of the in flight channel
    charged,   \* charges counted in memory
    claims,    \* reservations open in memory
    grace,     \* TRUE once the shutdown deadline has passed
    starts, faults,
    unsaved, unlogged, late, drained   \* history, see below

procVars == <<file, phase, refusal, wired, open, keys, grace, starts>>
bookVars == <<store, ledger, charged, claims, faults, unsaved, unlogged, late>>
vars == <<procVars, bookVars, h, slots, drained>>

\* unsaved and unlogged: requests whose save or row failed; late: those of this run
\* that found the file closed; drained: this run stopped within its grace.

cfg == Loaded(Files[file])

\* Without tenants there are no budgets, and no books to keep.
Wired(c) ==
    [maxInflight |-> c.server.maxInflight, limits |-> Limits(c),
     store  |-> c.auth.tenants # <<>> /\ c.accounting.storePath # "",
     ledger |-> c.auth.tenants # <<>> /\ c.accounting.ledgerPath # ""]
Unwired == [maxInflight |-> 0, limits |-> {}, store |-> FALSE, ledger |-> FALSE]

Metered == wired.limits # {}
HasStore == wired.store
HasLedger == wired.ledger

schemaVersion == 1

Fresh == [pc |-> "idle", path |-> "chat", tenant |-> AnonymousTenant,
          status |-> 0, panicked |-> FALSE, snap |-> {}]

Init ==
    /\ file \in DOMAIN Files /\ store \in StoresFound /\ wired = Unwired
    /\ phase = "off" /\ refusal = "none" /\ ledger = {} /\ open = {} /\ keys = <<>>
    /\ h = [r \in Reqs |-> Fresh] /\ slots = 0
    /\ charged = {} /\ claims = {} /\ grace = FALSE /\ starts = 0 /\ faults = 0
    /\ unsaved = {} /\ unlogged = {} /\ late = {} /\ drained = FALSE

-----------------------------------------------------------------------------
(* run: boot *)

Resting == {"idle", "returned", "killed"}

\* The process is gone, and with it everything that was only in memory.
Gone ==
    /\ phase' = "off" /\ wired' = Unwired /\ open' = {} /\ keys' = <<>> /\ slots' = 0
    /\ charged' = {} /\ claims' = {} /\ grace' = FALSE
    /\ h' = [r \in Reqs |-> IF h[r].pc \in Resting THEN h[r]
                            ELSE [Fresh EXCEPT !.pc = "killed", !.tenant = h[r].tenant]]

Refuse(why) ==
    /\ refusal' = why /\ Gone
    /\ UNCHANGED <<file, store, ledger, starts, faults, unsaved, unlogged, late, drained>>

Boot(from, to) ==
    /\ phase = from /\ phase' = to
    /\ wired' = IF from = "loading" THEN Wired(cfg) ELSE wired
    /\ UNCHANGED <<file, refusal, keys, starts, grace, h, slots, ledger, faults, claims,
                   unsaved, unlogged, late, drained>>

Start ==
    /\ phase = "off" /\ starts < MaxStarts
    /\ starts' = starts + 1 /\ phase' = "loading" /\ refusal' = "none"
    /\ drained' = FALSE /\ late' = {}
    /\ UNCHANGED <<file, wired, open, keys, grace, store, ledger, charged, claims, faults,
                   unsaved, unlogged, h, slots>>

\* What Load returned is handed to providers.BuildAll and buildRoutes.
CanBuild == BuildAll(cfg) /\ buildRoutes(cfg)

\* Load rejects the file, or what it accepted cannot be built.
Rejects ==
    /\ phase = "loading" /\ ~(Load(Files[file]) /\ CanBuild)
    /\ Refuse(IF Load(Files[file]) THEN "build" ELSE "config")

Builds ==
    /\ Boot("loading", "built")
    /\ Load(Files[file]) /\ CanBuild
    /\ UNCHANGED <<open, store, charged>>

\* buildAccounting: without tenants there are no books to open.
openLedger ==
    /\ Boot("built", "ledger_open")
    /\ open' = IF HasLedger THEN {"ledger"} ELSE {}
    /\ UNCHANGED <<store, charged>>

CannotOpenLedger == phase = "built" /\ HasLedger /\ Refuse("ledger")

\* Mutant: a newer file is opened like any other.
Readable_AnyVersion == store.intact

Readable == store.intact /\ store.version <= schemaVersion

\* checkIntegrity, and a version this binary does not know.
RefusesStore == phase = "ledger_open" /\ HasStore /\ ~Readable /\ Refuse("store")

\* OpenSQLiteStore: a file that has to be migrated, or one that has not.
OpenSQLiteStore ==
    /\ HasStore /\ Readable
    /\ Boot("ledger_open", IF store.version < schemaVersion THEN "migrating" ELSE "store_open")
    /\ open' = open \cup {"store"}
    /\ UNCHANGED <<store, charged>>

\* The table and the version land in one transaction, or not at all.
migrate ==
    /\ Boot("migrating", "store_open")
    /\ store' = [store EXCEPT !.version = schemaVersion, !.table = TRUE]
    /\ UNCHANGED <<open, charged>>

\* Opening, migrating or reading fails: nothing is written, everything is closed.
CannotOpenStore == phase \in {"ledger_open", "migrating", "store_open"} /\ HasStore /\ Refuse("store")

\* NewDurableEnforcer reads every row back.
loadStore ==
    /\ Boot("store_open", "wiring")
    /\ charged' = store.row
    /\ UNCHANGED <<open, store>>

NoStore == ~HasStore /\ Boot("ledger_open", "wiring") /\ UNCHANGED <<open, store, charged>>

\* buildGateway: the keys are indexed, the tenants in any order.
buildGateway ==
    /\ phase = "wiring" /\ phase' = "wired"
    /\ \E order \in tenantKeys(cfg) :
          keys' = WithTenantKeys(newKeySet(cfg.auth.clientKeys), order)
    /\ UNCHANGED <<file, refusal, wired, open, grace, starts, bookVars, h, slots, drained>>

\* serve starts both listeners.
Listen ==
    /\ Boot("wired", "serving")
    /\ UNCHANGED <<open, store, charged>>

-----------------------------------------------------------------------------
(* The middleware: withRecovery(withAccessLog(withAuth(withLimit(mux)))) *)

\* A step of one handler that touches nothing but the handler.
Step(r, q) ==
    /\ h' = [h EXCEPT ![r] = q]
    /\ UNCHANGED <<procVars, bookVars, slots, drained>>

Answers(q, status, pc) == [q EXCEPT !.status = IF q.status = 0 THEN status ELSE q.status, !.pc = pc]

\* The public listener is closed only when its own Shutdown begins, after the
\* admin one has drained.
Listening == phase \in {"serving", "draining_admin"}

Admitted(path, key) == keys = <<>> \/ path = "health" \/ (key # "" /\ lookup(keys, key).ok)

\* A request arrives and withAuth lets it pass, as the tenant of its key.
withAuth(r, path, key) ==
    /\ Listening /\ file \in Busy /\ h[r].pc = "idle"
    /\ Admitted(path, key)
    /\ Step(r, [h[r] EXCEPT !.pc = "limit", !.path = path,
                    !.tenant = IF path = "health" THEN AnonymousTenant ELSE lookup(keys, key).tenant])

\* Mutant: the slot is given back on the ordinary way out only.
Release_NotDeferred(q) == IF q.panicked THEN 0 ELSE 1

\* The deferred release, run on every way out of the handler.
Release(q) == 1

\* The way out: withRecovery answers a panic, if nothing has been written yet.
Returned(q) ==
    [Fresh EXCEPT !.pc = "returned", !.tenant = q.tenant, !.panicked = q.panicked,
                  !.status = IF q.panicked /\ q.status = 0 THEN 500 ELSE q.status]

rejectUnauthorized(r, path, key) ==
    /\ Listening /\ file \in Busy /\ h[r].pc = "idle"
    /\ ~Admitted(path, key)
    /\ Step(r, Returned(Answers(h[r], 401, "idle")))

\* Health checks take a slot like everyone else.
withLimit(r) ==
    /\ h[r].pc = "limit"
    /\ \/ /\ slots < wired.maxInflight
          /\ slots' = slots + 1
          /\ h' = [h EXCEPT ![r].pc = "handling"]
          /\ UNCHANGED <<procVars, bookVars, drained>>
       \/ slots >= wired.maxInflight /\ Step(r, Returned(Answers(h[r], 503, "limit")))

Leave(r) ==
    /\ h[r].pc = "leaving"
    /\ slots' = slots - Release(h[r])
    /\ h' = [h EXCEPT ![r] = Returned(@)]
    /\ UNCHANGED <<procVars, bookVars, drained>>

-----------------------------------------------------------------------------
(* The handlers, and the Guard *)

denialToWire(reason) ==
    CASE reason \in {"request_rate", "token_rate"}      -> 429
      [] reason \in {"daily_budget", "monthly_budget"}  -> 402
      [] reason = "store_degraded"                      -> 503
      [] reason = "unknown_tenant"                      -> 500
      [] OTHER                                          -> 403

classToWire(class) ==
    CASE class \in {"auth", "upstream"} -> 502
      [] class = "payment_required"     -> 402
      [] class = "rate_limited"         -> 429
      [] class = "invalid_request"      -> 400
      [] class = "model_not_found"      -> 404
      [] class = "timeout"              -> 504
      [] class = "canceled"             -> 499
      [] OTHER                          -> 500

\* handleHealthz and handleModels, a body or a model the gateway does not take,
\* and an answer from the cache: over before a claim is made.
AnswersAtOnce(r) ==
    /\ h[r].pc = "handling"
    /\ \E status \in IF h[r].path = "health" THEN {200} ELSE {200, 400} :
          Step(r, Answers(h[r], status, "leaving"))

\* Guard.Begin refuses; a tenant the enforcer does not know always is.
Denied(r) ==
    /\ h[r].pc = "handling" /\ h[r].path # "health" /\ Metered
    /\ \E reason \in IF h[r].tenant \in wired.limits THEN DenyReasons ELSE {"unknown_tenant"} :
          Step(r, Answers(h[r], denialToWire(reason), "leaving"))

Begin(r) ==
    /\ h[r].pc = "handling" /\ h[r].path # "health"
    /\ Metered => h[r].tenant \in wired.limits
    /\ claims' = IF Metered THEN claims \cup {r} ELSE claims
    /\ h' = [h EXCEPT ![r].pc = "calling"]
    /\ UNCHANGED <<procVars, store, ledger, charged, faults, unsaved, unlogged, late, slots, drained>>

\* Mutant: the way out of a failed call forgets its claim.
Abort_Forgotten(r, q) == Step(r, q)

\* settleOrAbort without usage: the claim goes back.
Abort(r, q) ==
    /\ claims' = claims \ {r}
    /\ h' = [h EXCEPT ![r] = q]
    /\ UNCHANGED <<procVars, store, ledger, charged, faults, unsaved, unlogged, late, slots, drained>>

\* prov.Chat or prov.ChatStream returns an error.
CallFails(r) ==
    /\ h[r].pc = "calling"
    /\ \E c \in Classes : Abort(r, Answers(h[r], classToWire(c), "leaving"))

\* It panics, before any settlement is deferred: the claim stays as it is.
CallPanics(r) ==
    /\ h[r].pc = "calling"
    /\ Step(r, [h[r] EXCEPT !.pc = "leaving", !.panicked = TRUE])

ChatAnswered(r) ==
    /\ h[r].pc = "calling" /\ h[r].path = "chat"
    /\ Step(r, [h[r] EXCEPT !.pc = "settling"])

StreamOpens(r) ==
    /\ h[r].pc = "calling" /\ h[r].path = "stream"
    /\ Step(r, Answers(h[r], 200, "relaying"))

\* The relay ends, on whatever path: settleStream was deferred.
StreamEnds(r) ==
    /\ h[r].pc = "relaying"
    /\ \E p \in BOOLEAN :
          \/ Step(r, [h[r] EXCEPT !.pc = "settling", !.panicked = p])
          \/ Abort(r, [h[r] EXCEPT !.pc = "leaving", !.panicked = p])

\* Mutant: the row is written without waiting for the save.
AfterCharge_Row == "recording"

AfterCharge == IF HasStore THEN "saving" ELSE "recording"

\* Enforcer.Settle in memory: the claim becomes a charge, and the snapshot to be
\* saved holds every charge of its tenant so far.
Charge(r) ==
    LET of == {o \in charged \cup {r} : h[o].tenant = h[r].tenant}
    IN  /\ h[r].pc = "settling" /\ r \in claims
        /\ claims' = claims \ {r} /\ charged' = charged \cup {r}
        /\ h' = [h EXCEPT ![r].pc = AfterCharge, ![r].snap = of]
        /\ UNCHANGED <<procVars, store, ledger, faults, unsaved, unlogged, late, slots, drained>>

\* Without an accountant there is nothing to settle.
Unmetered(r) ==
    /\ h[r].pc = "settling" /\ r \notin claims
    /\ Step(r, Answers(h[r], 200, "leaving"))

\* A write lands only through an open handle; it may fail all the same.
Save(r) ==
    /\ h[r].pc = "saving"
    /\ h' = [h EXCEPT ![r].pc = "recording"]
    /\ \/ /\ "store" \in open
          /\ store' = [store EXCEPT !.row = @ \cup h[r].snap]
          /\ UNCHANGED <<faults, unsaved, late>>
       \/ /\ "store" \in open /\ faults < MaxFaults
          /\ faults' = faults + 1 /\ unsaved' = unsaved \cup {r}
          /\ UNCHANGED <<store, late>>
       \/ /\ "store" \notin open
          /\ unsaved' = unsaved \cup {r} /\ late' = late \cup {r}
          /\ UNCHANGED <<store, faults>>
    /\ UNCHANGED <<procVars, ledger, charged, claims, unlogged, slots, drained>>

\* Guard.record, after the enforcer is done.  Then a chat writes its answer, which
\* a stream has done before.
record(r) ==
    /\ h[r].pc = "recording"
    /\ h' = [h EXCEPT ![r] = Answers(@, 200, "leaving")]
    /\ \/ ~HasLedger /\ UNCHANGED <<ledger, faults, unlogged, late>>
       \/ /\ "ledger" \in open
          /\ ledger' = ledger \cup {r}
          /\ UNCHANGED <<faults, unlogged, late>>
       \/ /\ "ledger" \in open /\ faults < MaxFaults
          /\ faults' = faults + 1 /\ unlogged' = unlogged \cup {r}
          /\ UNCHANGED <<ledger, late>>
       \/ /\ HasLedger /\ "ledger" \notin open
          /\ unlogged' = unlogged \cup {r} /\ late' = late \cup {r}
          /\ UNCHANGED <<ledger, faults>>
    /\ UNCHANGED <<procVars, store, charged, claims, unsaved, slots, drained>>

-----------------------------------------------------------------------------
(* serve, and the deferred calls of run *)

Unwind(from, to) ==
    /\ phase = from /\ phase' = to
    /\ UNCHANGED <<file, refusal, wired, keys, grace, starts, bookVars, h, slots>>

Signal == Unwind("serving", "draining_admin") /\ UNCHANGED <<open, drained>>

\* adminSrv.Shutdown returns: its readers are gone, or the deadline has passed.
AdminDrained == Unwind("draining_admin", "draining") /\ UNCHANGED <<open, drained>>

Quiet == \A r \in Reqs : h[r].pc \in Resting

\* Mutant: the handlers are not waited for.
Finished_AtOnce == TRUE

\* Mutant: they are waited for without a deadline.
Finished_Forever == Quiet

Finished == Quiet \/ grace

\* srv.Shutdown: every handler has returned, or the deadline has passed.
ShutdownReturns ==
    /\ Finished /\ Unwind("draining", "closing")
    /\ drained' = ~grace /\ UNCHANGED open

\* A listener cannot bind or stops: serve returns without draining.
ListenerFails == Unwind("serving", "closing") /\ UNCHANGED <<open, drained>>

Deadline ==
    /\ phase \in {"draining_admin", "draining"} /\ ~grace /\ grace' = TRUE
    /\ UNCHANGED <<file, phase, refusal, wired, open, keys, starts, bookVars, h, slots, drained>>

\* accounting.shutdown: the ledger, then the store; then the traces are flushed.
closeLedger == Unwind("closing", "ledger_closed") /\ open' = open \ {"ledger"} /\ UNCHANGED drained
closeStore == Unwind("ledger_closed", "closed") /\ open' = open \ {"store"} /\ UNCHANGED drained

Exit ==
    /\ phase = "closed" /\ Gone
    /\ UNCHANGED <<file, refusal, store, ledger, starts, faults, unsaved, unlogged, late, drained>>

Crash ==
    /\ phase # "off" /\ Gone
    /\ UNCHANGED <<file, refusal, store, ledger, starts, faults, unsaved, unlogged, late, drained>>

-----------------------------------------------------------------------------
Boots ==
    Start \/ Rejects \/ Builds \/ openLedger \/ CannotOpenLedger \/ RefusesStore
    \/ OpenSQLiteStore \/ migrate \/ CannotOpenStore \/ loadStore \/ NoStore \/ buildGateway
    \/ Listen

Handler(r) ==
    \/ \E path \in {"chat", "stream", "health"}, key \in Presented :
          withAuth(r, path, key) \/ rejectUnauthorized(r, path, key)
    \/ withLimit(r) \/ AnswersAtOnce(r) \/ Denied(r) \/ Begin(r)
    \/ CallFails(r) \/ CallPanics(r) \/ ChatAnswered(r) \/ StreamOpens(r) \/ StreamEnds(r)
    \/ Charge(r) \/ Unmetered(r) \/ Save(r) \/ record(r) \/ Leave(r)

Unwinds == AdminDrained \/ ShutdownReturns \/ Deadline \/ closeLedger \/ closeStore \/ Exit

Next == Boots \/ Signal \/ ListenerFails \/ Unwinds \/ Crash \/ \E r \in Reqs : Handler(r)

\* The deadline is a timer, adminSrv.Shutdown honours it, and the rest is straight
\* line code.  Nothing is assumed of the handlers: one may hang in its upstream.
Fairness ==
    /\ WF_vars(Deadline) /\ WF_vars(AdminDrained) /\ WF_vars(ShutdownReturns)
    /\ WF_vars(closeLedger) /\ WF_vars(closeStore) /\ WF_vars(Exit)

Spec == Init /\ [][Next]_vars /\ Fairness

-----------------------------------------------------------------------------
(* Properties *)

Inside == {"handling", "calling", "relaying", "settling", "saving", "recording",
           "leaving"}

\* Every variable keeps its type.
TypeOK ==
    /\ file \in DOMAIN Files /\ starts \in 0..MaxStarts /\ faults \in 0..MaxFaults
    /\ phase \in {"off", "loading", "built", "ledger_open", "migrating", "store_open", "wiring", "wired",
                  "serving", "draining_admin", "draining", "closing", "ledger_closed", "closed"}
    /\ refusal \in {"none", "config", "build", "ledger", "store"}
    /\ store \in [version: Nat, table: BOOLEAN, intact: BOOLEAN, row: SUBSET Reqs]
    /\ open \subseteq {"ledger", "store"} /\ slots \in 0..Cardinality(Reqs)
    /\ {ledger, charged, claims, unsaved, unlogged, late} \subseteq SUBSET Reqs
    /\ grace \in BOOLEAN /\ drained \in BOOLEAN
    /\ \A r \in Reqs : h[r].pc \in Inside \cup Resting \cup {"limit"}

\* Every variable keeps its type, and withLimit: the channel holds one slot per handler
\* inside, never more than max_inflight, and a panic gives its slot back too.
SlotsAccounted ==
    /\ TypeOK
    /\ slots = Cardinality({r \in Reqs : h[r].pc \in Inside})
    /\ slots <= wired.maxInflight

\* settleOrAbort and settleStream: a claim outlives its handler only where the
\* upstream call itself panicked, and a charge has no claim beside it.
OpenClaimsExplained ==
    /\ claims \cap charged = {}
    /\ \A r \in claims : \/ h[r].pc \in {"calling", "relaying", "settling"}
                         \/ h[r].panicked /\ h[r].status \in {0, 500}

\* Guard.Settle: the save comes before the row, so whatever stops the process
\* leaves the ledger behind the store and never ahead of it.
LedgerBehindStore == HasStore => ledger \subseteq store.row \cup unsaved

\* run: a stop within the grace finds no handler running, and none found its ledger
\* or its store closed; every charge is on file unless its own write failed.
CleanStop ==
    drained /\ phase \in {"closing", "ledger_closed", "closed"} =>
        /\ Quiet /\ late = {}
        /\ HasStore => charged \subseteq store.row \cup unsaved
        /\ HasLedger => {r \in charged : h[r].pc = "returned"} \subseteq ledger \cup unlogged

\* OpenSQLiteStore: a file that is corrupt, or written by a newer binary, is never
\* written to, by the boot that refuses it or by any later step.
ForeignStoreUntouched ==
    [][store.version > schemaVersion \/ ~store.intact => UNCHANGED store]_vars

\* Validate against BuildAll, buildRoutes and routePricing: a file that is accepted
\* can be built, and every model it routes has a vendor to price an estimate by.
AcceptedBoots ==
    /\ refusal # "build"
    /\ phase = "wired" => \A r \in ToSet(cfg.routes) : routePricing(cfg, r.model).kind # ""

\* validateAuth against keySet and buildAccounting: a gateway that asks nobody for a
\* key listens on loopback only; elsewhere whose request it is does not depend on the
\* order of a map, and where budgets are on every key leads to an account.
IdentityClear ==
    phase = "wired" =>
        /\ keys = <<>> => isLoopbackListen(cfg.server.listen)
        /\ \A o \in tenantKeys(cfg), e \in ToSet(keys) :
              lookup(WithTenantKeys(newKeySet(cfg.auth.clientKeys), o), e.key)
                 = [ok |-> TRUE, tenant |-> e.tenant]
        /\ Metered => \A e \in ToSet(keys) : e.tenant \in wired.limits

\* serve and run: once a signal has been taken the process exits, whatever its
\* handlers and the admin listener's readers do.
DrainEnds == phase \in {"draining_admin", "draining"} ~> phase = "off"
=============================================================================
