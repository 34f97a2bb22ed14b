# A TLA+ model of penstock

penstock is a gateway for large language model APIs: it accepts OpenAI shaped
chat requests, answers what it can from a cache, holds each tenant to rate
limits and budgets, routes the rest over chains of providers with retries and
circuit breakers, and relays whole answers or streams.  This directory holds
TLA+ models of the parts that carry state or decide what happens to a request,
the TLC configurations that check them on small instances, and TLAPS proofs for
every instance.

## Inventory

| Part | State | Operations | What is hard | What makes it correct |
|---|---|---|---|---|
| Budget enforcer (`internal/budget/enforcer.go`) | per tenant: spend and claims of two windows, request and token windows; sequence numbers; open reservations; store health | Reserve, Settle, Release, Spent, Committed, persist, restart | two mutexes and a write outside both; windows turning over between claim and charge; failed writes; crashes | claims equal the open reservations; overshoot bounded by estimation error; the store never moves backwards and catches up |
| Health tracker (`internal/router/health.go`) | breaker, failure count, pause, probe per provider | Available, RecordSuccess, RecordFailure | reports that arrive after the breaker moved; probes claimed and lost | pauses honoured, outages not extended, no provider left out for ever |
| Router (`orchestrator.go`, `selector.go`, `policy.go`) | per request: order, position, attempts; rotation counters | Chat, ChatStream, runChain, backoff, timedReader | availability read once and used later; budget of attempts shared by a chain | every reachable peer is tried; every request ends |
| Ingress (`internal/ingress/handlers.go`, `cached.go`) | per request: context, claim, tally, recorder; pump goroutine | handleChatCompletions, serveChat, serveStream, replay, settlement | select between chunk, timers and context; a pump that may be left behind; six exits | `[DONE]` and cache only for whole answers; every claim closed; both goroutines end unless a client that stays never reads |
| Exact cache (`internal/cache/exact.go`) | maps per tenant, intrusive LRU list, size | Get, Put, expiry, eviction | pointer surgery at the ends of the list and at the limit | a bounded, expiring LRU per tenant and request |
| Cache lookup (`lookup.go`) | none of its own; event counts | Get, Put | the embedder awaited between two looks at the cache | a hit answers the question asked; each outcome is reported once |
| Cache key and policy (`key.go`, `policy.go`, `messages.go`) | none | BuildKey, Eligible, PromptText | fields left out of the key | equal keys mean equal requests to every vendor, the unhashed fields apart |
| Semantic tier, embedder (`semantic.go`, `embed_gemini.go`) | records per tenant, width of the vectors | Nearest, Add | clock read before the lock; expiry; eviction; replies of another width | a hit is of the tenant, fresh, close enough and the closest |
| Guard, prices, ledger (`guard.go`, `internal/pricing`) | price table, ledger file | Begin, Settle, Abort, Price | memory, store and ledger written one after the other | the ledger is never ahead of the store |
| Estimator (`estimator.go`) | none | Estimate | two spellings of a cap, absent and unreadable fields | a capped request costs no more than was reserved, but for what the estimator does not read |
| SQLite store (`sqlitestore.go`) | file: version, table, one row per tenant | open, migrate, Save, Load | errors after a commit; corrupt files, files of another version | rows whole or absent; a foreign file is left alone |
| Server shell (`server.go`, `auth.go`, `limits.go`) | slots in flight, key set | recovery, auth, limit | panics; slots on every way out | slots never leak; a key leads to one tenant |
| Providers (`internal/providers`) | reader state per stream | Chat, ChatStream, Recv | telling a complete stream from a cut one | EOF only after the provider's own end marker |
| Configuration (`internal/config`) | none after the start | Load, Validate | rules spread over two packages and the wiring | what is accepted can be built, priced and told apart |
| Process (`cmd/penstock/main.go`) | servers, store, ledger | wiring, signal, drain, close | closing what handlers still use; crash and restart | a stop within the grace loses nothing; every stop ends |
| Admin, observability, simulator, offline tools | none that the gateway's behaviour depends on | | | |

Calls go down the table's first half: the ingress asks the cache, then the guard
and the enforcer, then the router; the router asks the health tracker and calls
a provider; on the way back the health tracker hears of the outcome, the cache
is filled and the claim is closed.  Only the enforcer, the health tracker, the
rotation counters and the caches are shared by requests, each behind its own
mutex or atomic; the store is written outside the enforcer's main mutex.

## Modules

| Module | Models |
|---|---|
| `Sums` | sums over tenants, reservations and texts, and lists joined, as recursive functions |
| `Enforcer` | the enforcer over a store that may fail, with crashes and restarts |
| `BudgetAccount` | what an account promises: claims, charges, a durable past view |
| `EnforcerAccount` | the refinement mapping from `Enforcer` to `BudgetAccount` |
| `Health` | one provider's health record, as operators on that record |
| `Router` | requests walking chains, over `Health` |
| `Ingress` | handler, pump, client, upstream and timers of a request, and the cache they share |
| `ExactCache` | the exact tier, down to its links |
| `LruCache` | the abstract bounded, expiring LRU it implements |
| `Provider` | a call through any of the three adapters, and the stream readers with the scanner they share |
| `Config` | the configuration file: secrets, defaults, validation, and what the wiring makes of it |
| `Process` | the process over `Config`: start, middleware, guard and books, drain, close, crash, restart |
| `ChatBody` | what cache, estimator and adapters each read out of one request body |
| `Lookup` | the cache lookup with both tiers and the embedder, over `ChatBody` |
| `MCEnforcer`, `MCRouter`, `MCIngress`, `MCExactCache`, `MCProvider`, `MCProcess`, `MCLookup` | instances for TLC |
| `SumsProofs`, `EnforcerProofs`, `RouterProofs`, `IngressProofs`, `ProcessProofs`, `ProviderProofs`, `ExactCacheProofs`, `LookupProofs` | theorems |

Operators named `X_Y`, with a comment that begins "Mutant", are plausible wrong
versions of the definition `X` that follows; they are used by no specification
and exist to show that a property would notice.

### Enforcer

`state[t]` is `tenantState` (or `Absent` before `stateFor` made it), `issued` is
the history of reservations with `done` the closed ones, `pending` holds the
snapshots that left `mu` and have not yet taken `storeMu`, `written` and `row`
are what the enforcer believes and the store holds.  Each critical section of
the code is one action: Reserve (blind, denied or admitted), Settle's change
under `mu`, each outcome of `persist` under `storeMu`, Release.  `Restart` is a
crash at any point followed by `NewDurableEnforcer` with a possibly different
set of tenants.  Money and tokens are natural numbers; a window's times are
kept as the clock's; `RetryAfter` values and messages are left out.  A failed
`Load` means the process does not start, so it is no step.  A failed Save wrote
nothing, which is what a rolled back transaction reports; an error after a
commit is listed as a hazard and not modelled.  `bills` is the history of what the
process settled, each bill with its moment and the starts of the windows it was
charged to, so that a charge in the wrong window, or a window left too early, shows.
`issued` starts over with the process: `RequestRateHolds` is about one process, since
rate windows are not restored.

### Health and Router

A time in the record is kept as an age that saturates at the longest cooldown,
so no clock grows.  `Available` is asked provider by provider (`Ask`), as
`availableFrom` does, with `now` read at each check instead of once for the
whole list.  The latency average is left out and a least latency order is any
permutation.  The rotation counter is kept modulo `RotationPeriod`, a common
multiple of the chain lengths.  A call's outcome is any error class, and
"canceled" only when the request's own context is done.  The trace of attempts
and the length of a backoff are left out; routes with the same chain share a
selector.

### Ingress

`req[r]` holds the handler's locals and what its client received, `pump[r]` the
pump goroutine and the result it offers, `up[r]` what the upstream really sent.
A frame is its number, so a lost, doubled or reordered one shows.  A usage of 0
is no report.  Each select case is an action; a write and the terminal write may
fail.  A replay from the cache is one step with any prefix, since nothing else
can intervene in what the client receives.  Where the handler's last act is a write
without a deadline (a whole answer, a cached one, a replay, an error) it is then in
`answering`, and in `opening` while it flushes the headers of a stream, until the
write returns: done, or failed because the client has gone.  A handler may serve again after it
returned, so one handler covers the sequences of requests over one cache; cache
operations are atomic and requests share nothing else here.  Timers follow the
Go 1.23 rules (the module requires a later Go): after a Reset no stale tick is
received.  Slots and authentication are in `Process`, the semantic tier in `Lookup`.

### ExactCache

A node is the tenant and request it stores, of which there is one at most.  The
links are functions from nodes to nodes or `Nil`; `unlink`, `pushFront`, `drop`
(`removed`) and `insert` follow the code.  Expiry is the time an entry has left.
The eviction loop runs at most once because the size was within the limit.
`snapshot`'s copying is left out.

### Provider

`wire` is the adapter a call goes through.  A call is rejected before it is sent,
fails in transport, is refused with a status, is answered whole, or opens a
stream.  The upstream sends an event as lines, in one of four framings or as
noise; after any line the body may end, the read may fail, the caller may close
the stream (the flag first, the body next) or the context may end.  An error of the
transport has a kind of its own, which the adapters read beside the context: after a
context ended it may carry the context's error or be that of a torn down connection,
and a dial that times out is a deadline exceeded under a live context.  `ReadLine` is
one turn of `SSEScanner.Next`; an event's blank line is translated and returned
in the same step, since nothing shared is touched in between.  `up.sent` holds
what the upstream really sent whole, and the properties compare it with what the
caller received.  A line is whole or not read; the byte budget is counted in
lines; tokens of 0 are no report.  The JSON of requests, answers and chunks is
left out.  This module shows what `Router` and `Ingress` assume of a provider:
EOF only for a whole answer, "canceled" only for a context that was cancelled, and
a class that `countsAgainstHealth` counts only when the upstream failed or could not
be reached, the gateway could not build the request, or the deadline passed.

### Config and Process

`Config` is `config.Load` as operators: `expandSecrets`, `applyDefaults`, each
`validate...` section, then what `BuildAll`, `buildRoutes`, `routePricing` and
the key set make of an accepted file.  A file is a record; YAML syntax is one
flag (`unknownField`), addresses, URLs, names and keys are strings whose
relevant quality is given by a set (`Loopback`, `ValidURL`, `LabelSafe`, `Weak`),
thresholds are in hundredths, and NaN, which YAML can write, is excluded.
`Decoded` says what the decoder returns: every section is there and a list is a
list.  Where the code fills a map from a list the last entry counts, as the last
match does in `keySet.lookup`; a key set is the entries of its keys joined, in
whatever order the map of tenants is ranged over.

`Process` is `run`: `phase` is how far it has got, `open` its handles, `store`
and `ledger` the two files, which survive a `Crash`; `keys`, `slots`, `claims`
and `charged` are memory and do not.  A request stands for its own charge, so
the store's row and the ledger are sets of requests, and a lost or doubled
charge shows as a difference of sets.  A handler passes recovery, auth, limit,
`Guard.Begin`, the upstream call, the charge in memory, the save and the row as
separate steps, because other handlers, the drain and a crash come in between.
How amounts decide a claim is in `Enforcer` and how an answer is relayed in
`Ingress`; here a claim is admitted or refused and a call ends whole, fails or
panics.  `unsaved`, `unlogged`, `late` and `drained` are history.  The switch to
WAL mode, which `OpenSQLiteStore` makes before its checks, changes no row and is
left out; a limit of zero slots cannot be reached, since `Load` replaces it.

### ChatBody and Lookup

A body is a record with the wire's field names; the cache policy, the key, the
prompt text, the estimate and the three upstream requests are operators on it.
Texts are sequences of letters, so that their lengths, joins and token counts
are real, and are joined and summed by the recursive functions of `Sums`;
temperatures are in tenths and money in millionths.  SHA-256 is taken
to be injective.  A semantic record is the caller whose text it embeds and a
width; similarity is a constant function in hundredths.  The exact tier is a set of
entries that expire, of at most `max_entries`; any entries may be the ones that make
room, and that they are the least recently used is `ExactCache`'s.  It reports its
evictions on the callback that the semantic tier uses too; an entry that expired or
was replaced goes unreported (`silent` counts those).  A hit that holds no frames
cannot answer a caller that wants a stream: `Decline` sends it on to the upstream, as
`serveCached`'s FALSE does, and `declined` counts it.

What an upstream bills is external to the repository.  It makes up to `n` answers
where the adapter passes `n` on, each within the limit it was sent, or any number of
`Outputs` where it was sent none; and it counts the prompt its own way, with tool
definitions and images or without, which is any number of `PromptCounts`.

## Runs

| Run | Configuration | Shows |
|---|---|---|
| `enforcer_durable` | one tenant, hard caps 2 a day and 3 a month of two days, 3 reservations, a crash, a failed save | type; committed is the sum of open claims; the overshoot bound of the docs; spend is what was settled between the start and the end of the window, and no window is left early; a quiet healthy enforcer is durable; rows never move backwards; `Enforcer` implements `BudgetAccount`; every settlement lands |
| `enforcer_tenants` | a rated and a capped tenant, a window of two ticks, a restart with any subset configured | at most twice the request cap in any stretch of a window; the refinement with two tenants |
| `router_chain` | two routes over three providers, round robin and least latency, two attempts, all error classes | type; whoever gives up has tried every peer the budget reached |
| `router_live` | two requests, one provider, reports in any order | pauses honoured, outages not extended; every request ends; no provider is left out for ever |
| `ingress` | two questions, one cacheable; 3 frames, a recorder for 2 | `[DONE]` and cached mean whole; claims closed and billed at the last report; the pump ends, and the handler unless its client stays and never reads |
| `exact_cache` | two tenants, two requests, two answers, three entries, a life of 2 | list, maps and size agree; an LRU is implemented |
| `provider` | all adapters, three events, two tokens each, a budget of four lines | EOF means whole; events relayed whole, once and in order with running totals; what counts against a provider's health is earned; bodies released; a blocked Recv returns |
| `process` | 342 edits of a sample file, three store files; two requests at a gateway with a tenant and at one without, two starts, a failed write | slots and claims accounted for through panics; ledger behind store; a clean stop loses nothing; accepted files boot; a key leads to one tenant; foreign stores untouched; a drain ends |
| `lookup` | nine kinds of request, three asked, two at a time; both tiers, an exact one of one entry or none; a tick, a fault | events counted once; an exact hit was the same question to the adapters; a semantic hit was earned; a capped request exceeds its reservation only by further answers and an undercounted prompt |
| `enforcer_health` | violation | see below |
| `router_retry_after` | violation | see below |
| `ingress_either` | violation | see below |

A type invariant is the first conjunct of `ClaimClosed`, `ListIntact`,
`BodyReleased`, `SlotsAccounted` and `EventsCountedOnce` in the runs that do not
list one.  The passing runs reach between 15,000 and 760,000 distinct states each.

Bounds: three reservations let a third settle between the two writes of the
others and let an admission follow a settlement that overshot; two clock ticks
turn the day over twice and the month once; one failed save and one crash are
enough for each to precede or follow any other step.  Three providers with two
attempts let the budget end inside the chain; two attempts on one provider
include retry and give up.  Three frames exceed a recorder of two by one and fit
it exactly otherwise.  Three events let usage
arrive in two halves and be repeated; a budget of four lines is just enough for
the longest framing that fits.  Three entries for four nodes make eviction hit the
head's neighbour, the tail, and a tenant's last entry.  The files of `process` are
every pair of a server and an auth section, of an accounting and an auth section,
and of a provider list and a route list, so that rules across two sections are
met, and each cache and router section; two starts let one process find what
another left; two requests and one slot let one be refused while the other
panics.  Three asks let a record be added while another is embedded and a third
find it, and two records per tenant make the third evict.  One entry in the exact tier
makes every second answer evict or replace the first, and one expires within a tick.
A prompt count of twelve is above the estimate of every readable body, which is the
side on which a bill can exceed its reservation, and one body asks for two answers.  `CHECK_DEADLOCK FALSE`
appears where bounds on time, reservations, starts or requests end every
behaviour; the other models have no end.

Fairness: a goroutine that can run does (weak fairness on the handler's and the
writer's own steps; Go mutexes do not starve, and a store write has a timeout);
a select that is offered a case again and again takes it (strong fairness on
`CtxDone`); a set timer fires; a provider call and a Recv return once their
context ended; `Close` is carried through.  In `Process` the deadline passes, the admin
listener's Shutdown honours it, and the straight line code of `serve` and of the
deferred calls runs on; nothing is assumed of handlers, so `DrainEnds` holds
although one may hang for ever.  `EveryHandlerReturns` needs `upstream_timeout_ms`, which the run
sets.  Nothing is assumed of a client: weak fairness of the handler does not hold
while it is in a write without a deadline whose client has not gone (`Unread`).  Only
the frames of a live stream carry a deadline, and only with an idle timeout
(`handlers.go:264`); the writes of whole, cached and replayed answers, of errors and of
stream headers do not, and the servers have no `WriteTimeout`.  So the property is that
a handler returns or is in such a write for good.  `NeverWedged` assumes in addition that requests keep arriving and time
passes.

## Where docs and code differ

Checked by a run that TLC refutes:

- `HealthyMeansDurable`: of two settlements the newer fails to save; the older
  one then saves and marks the store healthy although the newest total is not in
  it (`enforcer.go:338`).
- `WaitHonoured` with a long `Retry-After`: the router reports failures without
  it, so the default pause is used (`orchestrator.go:176`).
- `EitherIsServed`: a stored stream is served to a caller without stream as an
  empty body (`cached.go:43`).

Seen while modelling, and not checked by a run:

- budgets are fixed windows, `types.go:50` calls them rolling;
- `types.go:70` says a claim stays "until it expires"; nothing expires it;
- a request larger than the token cap is denied with an invitation to wait;
- `health.go:17` says an open breaker sheds every request; a request that has
  its order walks it without asking again;
- ADR 0006 says a provider that fails mid stream is marked unhealthy; the stream
  was counted as a success at its first chunk and its error is not reported;
- `docs/architecture.md` promises a truncated stream an error frame; when the
  upstream timer ends it, the handler leaves without one;
- with only `fail_closed` tenants and nothing in flight a degraded store is never
  written again, so only a restart recovers;
- `server.go:140` says of the missing `WriteTimeout` that "Stalled clients are bounded
  by a per write deadline instead"; the writes at `handlers.go:178`, `cached.go:43` and
  `cached.go:91` and the headers of a stream carry none, so a client that stays
  connected and stops reading holds its handler and its slot;
- `n` is forwarded on the OpenAI wire and the estimator does not read it
  (`estimator.go:97`): a request for `n` answers may cost `n` times the completion it
  reserved.  `WithinReservation` says that this, and a prompt the vendor counts higher
  than the estimate, is all that a request with one cap can cost more;
- a hit that cannot be replayed as a stream is counted as a hit, marks the request as
  cached and adds its tokens to the metrics (`cached.go:29`), and is then paid for;
- a refund for a claim of an earlier minute is taken from the present token
  window and makes room for more tokens than the cap (`enforcer.go:276`);
- reservation ids, used as ledger request ids, start over at a restart while the
  ledger is appended to; `docs/cost-accounting.md:211` calls them unique per
  admitted request (`guard.go:118`);
- a panic inside the upstream call leaves its claim open until the process ends,
  where `handlers.go:126` says it is closed exactly once; `OpenClaimsExplained`
  shows that this is the only way a claim outlives its handler;
- the estimator lets the smaller of `max_tokens` and `max_completion_tokens` bind
  (`estimator.go:111`), the Anthropic and Gemini adapters prefer `max_tokens`; and
  without a cap 1024 tokens are reserved where Anthropic is sent 4096.
  `WithinReservation` therefore speaks of requests that name one cap;
- a body the estimator cannot read is reserved 1024 tokens, while an upstream that
  speaks the OpenAI wire is sent the body as it is and honours a larger cap in it;
  the attempt to prove `WithinReservation` for every body met this, no instance of
  the run had such a body, and the property now says that the body is readable;
- an estimate is priced by the first provider of a chain and a settlement by the
  one that answered, so a fallback may cost more than was reserved;
- the semantic tier compares the text of the prompt only: model, parameters and
  images, which are in the exact key, do not count;
- `semantic.go:191` says records lie in clock order; the clock is read before the
  lock, so they may not, which only delays their removal;
- the first vector decides the width the semantic tier accepts until a restart;
- a request that panicked before writing is answered 500 and logged as 200;
- health checks take a slot, so a saturated gateway answers them 503;
- the gateway accepts requests while the admin listener drains, on the same
  deadline; a listener that fails ends the process without a drain;
- the admin view reads Spent and Committed under separate locks;
- `threshold: .nan` and a NaN budget pass validation;
- the default base URLs of the vendor profiles are never used, since validation
  refuses an empty `base_url`.

## Proofs

| Theorem | Says |
|---|---|
| `EnforcerProofs!TypeCorrect` | `Spec => []TypeOK` |
| `EnforcerProofs!CommittedCorrect` | committed is the sum of the open claims |
| `EnforcerProofs!StoreMonotonic` | no stored total is erased or moves backwards within its window |
| `EnforcerProofs!DurableWhenQuiet` | `DurableOnceQuiet` |
| `EnforcerProofs!OvershootBounded` | the overshoot bound |
| `EnforcerProofs!SpentExplained` | `SpentIsSettledCharges` |
| `EnforcerProofs!RateIsHeld` | `RequestRateHolds` |
| `EnforcerProofs!AccountImplemented` | `Enforcer` implements `BudgetAccount` |
| `RouterProofs!RouterTypeCorrect` | type, and bounds on position and attempts |
| `RouterProofs!EveryPeerReached` | `PeersReached` |
| `RouterProofs!OutageEndsOnTime` | `OutageNotExtended` |
| `RouterProofs!WaitsAreHonoured` | `WaitHonoured`, if no `Retry-After` exceeds the defaults |
| `IngressProofs!DoneIsWhole`, `CacheIsWhole`, `ClaimsAreClosed` | `DoneMeansWhole`, `CachedIsWhole`, `ClaimClosed` |
| `ProcessProofs!SlotsAreAccounted`, `ClaimsAreExplained`, `LedgerNeverAhead`, `CleanStopIsClean` | `SlotsAccounted`, `OpenClaimsExplained`, `LedgerBehindStore`, `CleanStop` |
| `ProcessProofs!ForeignStoreIsLeft` | `ForeignStoreUntouched` |
| `ProcessProofs!AcceptedFilesBoot` | `AcceptedBoots`, for every file |
| `ProcessProofs!IdentityIsClear` | `IdentityClear`, for every file and every order of the map of tenants |
| `ProviderProofs!EofIsWhole`, `RelayIsInOrder`, `BlameEarned`, `BodyIsReleased` | `EofMeansWhole`, `RelayedInOrder`, `BlameIsEarned`, `BodyReleased` |
| `ExactCacheProofs!ListStaysIntact` | `ListIntact` |
| `ExactCacheProofs!LruImplemented` | `ExactCache` implements `LruCache` |
| `LookupProofs!EventsAreCountedOnce`, `ExactTierAnswers` | `EventsCountedOnce`, `ExactAnswersTheQuestion` |
| `LookupProofs!BillWithinReservation`, `SemanticHitsAreEarned` | `WithinReservation`, `SemanticHitEarned` |

They hold for every value of the constants under the modules' named assumptions,
which are what the configuration's validation or the types of the code give:
limits, estimates and usages are natural numbers, windows have a length, chains
are non empty sequences without repetition, there is at least one attempt, room
for one entry and a positive lifetime, finitely many requests, a store that is
found has a version and no row of this run, a configuration file is what the decoder
can return, an empty key is weak and an empty name or URL invalid, the callers of
`Lookup` have bodies of the types of the wire, similarities are integers, a vendor counts
no tokens below zero, and a vector has a width.  TLC evaluates each of them on its
instances.

**Sums and walks.**  The library's induction theorems take an operator and cannot
be used, so `SumsProofs` proves that a set of naturals has a least element and the
facts about recursive functions follow from the least place where they would fail:
what `SumTo` computes, how a sum changes with one term, that a join is a sequence
that holds what its parts hold and nothing else, and that the walk of a list is
unique.

**Enforcer.**  `CommittedIsOpenClaims` is inductive with the type invariant and the
fact that closed reservations are issued ones.  `StoreMonotonic` needs that a
pending snapshot's number is at most the tenant's, that equal numbers are equal
snapshots, that `written` numbers the row in the store, and that a row of a higher
number is not behind one of a lower (`StoreInv`).  `DurableOnceQuiet` says nothing
while a write is pending, so `QuietInv` follows the newest snapshot: while no save
failed it is in the store or pending, and wherever it is it holds all that was spent in
its windows.  Steps that settle nothing are dealt with once, as steps that
*touch* a tenant.

**Budget.**  The overshoot bound also needs a bound on the claims alone, which
outlive a rollover, and on the rows of tenants the process does not serve, which
a restart brings back.  For `SpentIsSettledCharges`, `SpentInv` says of every bill that
it was charged to a window running at its moment and that this window is the one the
counter is of now or had run its length before that one began (`Placed`); of the
restored row that its windows began in the past and stand in the same relation
(`RestoredInPast`); and then that the counter is the sum (`SpentSums`).  A rollover
leaves a window only once it is over, so every earlier bill falls before the new span
and the sum of the new window starts from nothing.  `RequestRateHolds` is about every
stretch of a window's length, the code only about its own window; the invariant
`RateInv` adds that the count covers the current window, that nothing was issued
beyond it, and that the stretch just short of a window before it was within the
limit too, so that any stretch is covered by two.  The refinement rests on `Seen`, what a look at a counter finds at
a moment: a lazy roll does not change it, time can only turn it to zero, and a
save moves the durable one up to, never past, the one in memory.

**Router.**  The invariant ties the set of providers called to the position in the
order and the attempts used to the providers passed, so that `roomToRetry` leaves
one attempt for each peer ahead.  `WaitHonoured` is false in general (the
`RouterRetryAfter` run) since the router drops the header's value; it is proved
for providers that ask for no longer than the default, from a pause that covers the
rest of the wait whatever is reported.

**Ingress.**  `Coherent` relates handler, pump and upstream of one request: what
was produced and not written is in the pump's hands or the handler's, what is
recorded is what was written or is marked as dropped, and a claim is open only at
the places from which the handler goes on to close it, which a write that waits for
its client is not.  Handlers meet only in the cache, which holds whole
streams; so each step is one of `Coherent` for its own request.

**Process.**  `Kept` says of each request where its charge, its claim, its row and its ledger
line can be at each place of its handler; beside it stand what is wired, what is
open in each phase, that the slots count the handlers inside (by cardinality lemmas),
and that nobody is inside once drained.

`AcceptedBoots` and `IdentityClear` add lemmas about `Config`.  A file that passes
`Validate` passes each test of `BuildAll` and `buildRoutes`, with the kinds that the
imported adapters register; the last provider of a name and the last route of a model
exist because the greatest of some places of a list does.  A key set is known by what
it holds: a server's entries are those of the file's keys that are not empty, in
whatever order the tenants come, since an injection of as many places into the set of
tenants reaches them all.  `KeysApart` then makes two entries of one key entries of one
tenant, so the last match does not depend on the order.  The invariant is
that the keys of a wired gateway are those of its file in some order (`KeysWired`).

**Provider.**  `Framed` says what the scanner has made of an event's lines from the
lines that are left, for any number of lines; with it a reader that has seen the end
has translated all that was sent.  The three wires share the argument and
differ in `Counted`, what the reader remembers of earlier events.  `BlameIsEarned` is by
cases on the kind of error: one that is none of the context's own is a dial that timed
out, which is the upstream's.

**Exact cache.**  The invariant is that there is a sequence of distinct nodes that
the links run through in both directions and that has the maps' nodes as its values; each
operation takes a node out of it, or puts one before it, and the walk is that
sequence.  The refinement is then between sequences.

**Lookup.**  `LookupInv` is inductive.  Beside the types it says, of each request in
flight (`AsksPart`): it is a caller's; it is eligible only if the policy does not refuse
it, and is at the semantic tier only if eligible; the vector it waits for is of its own
text, with a positive width; what the exact tier served it is an entry of an equal key,
neither of the two refused; and an answer it paid for has a bill its estimate covers
(`Covered`).  The exact tier is finite, within its bound, and holds only answers to
requests the policy does not refuse (`ExactPart`); equal keys are equal requests to every
adapter, the unhashed fields apart, by cases on the three wires.  The semantic records of
a tenant are at most as many as the bound, each of a
caller of that tenant, embedding its own text, and of the tier's one width (`SemPart`);
a hit is the closest of them because the greatest of finitely many similarities exists.
`CountPart` has the five balances of `EventsCountedOnce` over three sets of requests in
flight: those whose miss or declined hit has not ended (`Waits`), those that hold an
answer that may still be stored (`Holds`), and those for which a vector is awaited or at
hand (`Embedders`).  A step changes one request, so each set changes by at most one
(`AskSet`), and the balances follow from which sets the request enters and leaves; what
the exact tier loses at a Put is split into what was replaced and what made room
(`StoredFacts`), and what the semantic tier loses at an Add is counted by the places held
(`HeldMoves`).  `BillWithinReservation` rests on `Covered`: the limit sent is at most the
cap, which is what was reserved, what is produced is at most as many times that as there
are answers, and a price is linear in both counts, so the excess splits into further
answers and prompt tokens beyond the estimate.

Every safety invariant and every action property that a run checks is a theorem.  Left
to TLC: liveness under fairness, since `ENABLED` is out of the prover's reach
(`EverySettlementLands`, `EveryRequestEnds`, `NeverWedged`, `EveryHandlerReturns`,
`PumpEnds`, `RecvReturns` and `DrainEnds`), and `WaitHonoured` without its hypothesis,
which is violated.

## Not modelled

The admin API only reads; logs, metrics and traces are written and never read
back; the upstream simulator is a test double for the environment of these
models; the cache study, the calibration, the plots and the conformance suite are
batch programs and test helpers outside the gateway.  Within modelled parts: the
latency average of the health tracker, float arithmetic of vectors and prices,
the loading of the price table, the SQL text, the translation of whole answers
back to the OpenAI shape, the wording of errors, and a Save that reports an error
after it committed.

## Plan

1. Done: enforcer, health, router, ingress, exact cache, providers, configuration,
   process, request bodies, cache lookup, and the theorems above.
2. A Save that fails after it committed, and the token window's refund, as runs of
   their own.
