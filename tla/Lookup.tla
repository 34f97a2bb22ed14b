------------------------------- MODULE Lookup -------------------------------
(***************************************************************************)
(* internal/cache: Lookup over its two tiers, between the request path and *)
(* the upstream.  Get judges the body, asks the exact tier and then the    *)
(* semantic one; a miss pays for an upstream call and Put remembers the    *)
(* answer in both.  The embedder is a network call: the clock moves and    *)
(* other requests run while one waits for it, and the vector it returns is *)
(* looked up or added only afterwards.  Add reads the clock before it has  *)
(* the lock.                                                               *)
(*                                                                         *)
(* The exact tier is a bounded set of entries that expire; which entry     *)
(* makes room is left open here, ExactCache shows it is the least recently *)
(* used.  An entry is named by the caller whose request it answered, and   *)
(* lies under the key of that request; it is a stream when that caller     *)
(* asked for one.  A vector is the caller whose text it embeds, and its    *)
(* width.  A tick is a second.                                             *)
(***************************************************************************)
EXTENDS ChatBody, FiniteSets

CONSTANTS
    Asks,            \* requests in flight at once
    Callers,         \* Callers[c]: tenant, routed model, adapter kind and body of a request
    Cosine(_, _),    \* the similarity of two texts, in hundredths
    MaxEntries, TTL,          \* ExactOptions; zero takes the default
    Threshold, MaxPerTenant,  \* SemanticOptions, which shares the TTL; zero takes the default
    MaxTemperature,
    Width,           \* the usual width of an embedding
    Replies,         \* others an embedder may return; 0 is an unusable reply
    Outputs,         \* tokens an upstream may produce when it is given no limit
    PromptCounts,    \* tokens a vendor may count for a prompt, by its own tokenizer
    MaxAsks,         \* bound: requests
    MaxClock,        \* bound: ticks
    MaxFaults        \* bound: unusual replies of the embedder

VARIABLES
    tiers,    \* what the gateway was wired with: "none", "exact" or "both"
    clock,
    exact,    \* the exact tier: whose answers it holds, and until when
    sem,      \* semanticStore.tenants
    dims,     \* semanticStore.dims
    events,   \* how often OnEvent was called, for each event
    ask,      \* the requests in flight
    asked, faults,
    paid,     \* history: requests the policy accepts that went on to the upstream
    declined, \* history: hits that could not be served in the form asked for
    added,    \* history: records the semantic tier took
    silent    \* history: entries of the exact tier that expired or were replaced

vars == <<tiers, clock, exact, sem, dims, events, ask, asked, faults, paid, declined, added, silent>>

Event == {"exact_hit", "semantic_hit", "miss", "ineligible", "stored", "evicted", "embed_failed"}
Tenants == {Callers[c].tenant : c \in DOMAIN Callers}

DefaultExactMaxEntries == 4096
DefaultExactTTL == 300
DefaultSimilarityThreshold == 95
DefaultMaxPerTenant == 1024

maxEntries == IF MaxEntries <= 0 THEN DefaultExactMaxEntries ELSE MaxEntries
exactTTL == IF TTL <= 0 THEN DefaultExactTTL ELSE TTL
threshold == IF Threshold <= 0 THEN DefaultSimilarityThreshold ELSE Threshold
maxPerTenant == IF MaxPerTenant <= 0 THEN DefaultMaxPerTenant ELSE MaxPerTenant

NoVector == [of |-> 0, width |-> 0]
Asking(c, pc, eligible, entry) ==
    [pc |-> pc, who |-> c, eligible |-> eligible, semantic |-> FALSE, entry |-> entry,
     vector |-> NoVector, now |-> 0, output |-> 0, usage |-> toUsage(0, 0)]
Idle == Asking(0, "idle", FALSE, 0)

Init ==
    /\ tiers \in {"none", "exact", "both"}
    /\ clock = 0 /\ exact = {} /\ sem = [t \in Tenants |-> <<>>] /\ dims = 0
    /\ events = [e \in Event |-> 0]
    /\ ask = [a \in Asks |-> Idle] /\ asked = 0 /\ faults = 0
    /\ paid = 0 /\ declined = 0 /\ added = 0 /\ silent = 0

Enabled == tiers # "none"
Of(c) == Callers[c]
Key == [c \in DOMAIN Callers |-> BuildKey(Of(c).tenant, Of(c).model, Of(c).body)]
Text == [c \in DOMAIN Callers |-> PromptText(Of(c).body)]
Refusal == [c \in DOMAIN Callers |-> Eligible(Of(c).body, MaxTemperature)]
Likeness == [c \in DOMAIN Callers |-> [d \in DOMAIN Callers |-> Cosine(Text[c], Text[d])]]

\* validateCache refuses a negative ttl; an adapter counts no tokens below zero.
ASSUME LookupAssumption ==
    /\ Callers \in Seq([tenant: STRING, model: STRING, kind: STRING, body: Body])
    /\ \A c, d \in DOMAIN Callers : Likeness[c][d] \in Int
    /\ {MaxEntries, Threshold, MaxPerTenant, MaxTemperature} \subseteq Int
    /\ TTL \in Nat /\ Width \in Nat \ {0} /\ Replies \subseteq Nat
    /\ Outputs \subseteq Nat /\ PromptCounts \subseteq Nat
    /\ IsFiniteSet(Asks) /\ {MaxAsks, MaxClock, MaxFaults} \subseteq Nat

emit(e) == events' = [events EXCEPT ![e] = @ + 1]

\* The semantic tier is wired and there is a text to compare by.
Comparable(c) == tiers = "both" /\ Text[c] # <<>>

-----------------------------------------------------------------------------
(* Get *)

\* The requests that may still arrive.
Unasked == {a \in Asks : ask[a].pc = "idle" /\ asked < MaxAsks}

\* A request arrives and its Get gets to the point where it must wait, or returns.
Begins(a, q) ==
    /\ a \in Unasked
    /\ ask' = [ask EXCEPT ![a] = q] /\ asked' = asked + 1
    /\ UNCHANGED <<tiers, clock, sem, dims, faults, paid, declined, added>>

Disabled(a, c) ==
    /\ ~Enabled
    /\ Begins(a, Asking(c, "calling", FALSE, 0)) /\ UNCHANGED <<exact, silent, events>>

Refused(a, c) ==
    /\ Enabled /\ Refusal[c] # ""
    /\ emit("ineligible")
    /\ Begins(a, Asking(c, "calling", FALSE, 0)) /\ UNCHANGED <<exact, silent>>

Cacheable(c) == Enabled /\ Refusal[c] = ""

\* What the exact tier holds under the key of a caller.
Under(c) == {x \in exact : Key[x.by] = Key[c]}

ExactHit(a, c) ==
    /\ Cacheable(c)
    /\ \E x \in Under(c) : clock < x.expiresAt /\ Begins(a, Asking(c, "served", TRUE, x.by))
    /\ emit("exact_hit") /\ UNCHANGED <<exact, silent>>

\* Mutant: Lookup reports the miss that the exact tier has reported.
Missed_Twice == events' = [events EXCEPT !["miss"] = @ + 2]

Missed == emit("miss")

\* An expired entry is dropped on the way out, and nothing is reported of it.
ExactMiss(a, c) ==
    /\ Cacheable(c)
    /\ Begins(a, Asking(c, IF Comparable(c) THEN "embedding" ELSE "calling", TRUE, 0))
    /\ \A x \in Under(c) : clock >= x.expiresAt
    /\ exact' = exact \ Under(c) /\ silent' = silent + Cardinality(Under(c))
    /\ Missed

Step(a, q) ==
    /\ ask' = [ask EXCEPT ![a] = q]
    /\ UNCHANGED <<tiers, clock, asked>>

\* geminiEmbedder.decode: a batch that is short, empty or unreadable is an error.
decode(reply) == reply > 0

\* Embed returns, to Get or to Put.
Embed(a) ==
    /\ ask[a].pc \in {"embedding", "putting"}
    /\ \E reply \in {Width} \cup (IF faults < MaxFaults THEN Replies ELSE {}) :
          /\ faults' = IF reply = Width THEN faults ELSE faults + 1
          /\ IF decode(reply)
             THEN /\ Step(a, [ask[a] EXCEPT !.pc = IF @ = "embedding" THEN "nearest" ELSE "adding",
                                 !.vector = [of |-> ask[a].who, width |-> reply],
                                 !.now = clock])
                  /\ UNCHANGED events
             ELSE /\ Step(a, IF ask[a].pc = "embedding" THEN [ask[a] EXCEPT !.pc = "calling"] ELSE Idle)
                  /\ emit("embed_failed")
    /\ UNCHANGED <<exact, sem, dims, paid, declined, added, silent>>

expired(storedAt, now) == TTL > 0 /\ now - storedAt >= TTL

cosineSimilarity(u, v) == IF u.width = v.width THEN Likeness[u.of][v.of] ELSE 0

\* Mutant: the reader trusts the writers to have dropped what expired.
scanTenant_Stale(records, query, now) ==
    LET close == {i \in DOMAIN records : cosineSimilarity(query, records[i].vector) >= threshold}
    IN  IF close = {} THEN 0 ELSE records[CHOOSE i \in close : TRUE].by

\* The best fresh record at or above the threshold, the first of equals; 0 is none.
scanTenant(records, query, now) ==
    LET score(i) == cosineSimilarity(query, records[i].vector)
        close == {i \in DOMAIN records :
                    ~expired(records[i].storedAt, now) /\ score(i) >= threshold}
        best == CHOOSE i \in close : \A j \in close :
                    score(i) > score(j) \/ (score(i) = score(j) /\ i <= j)
    IN  IF close = {} THEN 0 ELSE records[best].by

Nearest(a) ==
    LET found == IF ask[a].vector.width = dims
                 THEN scanTenant(sem[Of(ask[a].who).tenant], ask[a].vector, ask[a].now) ELSE 0
    IN  /\ ask[a].pc = "nearest"
        /\ \/ /\ found # 0
              /\ emit("semantic_hit")
              /\ Step(a, [ask[a] EXCEPT !.pc = "served", !.semantic = TRUE, !.entry = found,
                                        !.vector = NoVector, !.now = 0])
           \/ /\ found = 0
              /\ Step(a, [ask[a] EXCEPT !.pc = "calling", !.vector = NoVector, !.now = 0])
              /\ UNCHANGED events
        /\ UNCHANGED <<exact, sem, dims, faults, paid, declined, added, silent>>

\* An answer that was never a stream has no frames to replay.
Unreplayable(q) == Of(q.who).body.stream /\ ~Of(q.entry).body.stream

\* serveCached answers, and the handler returns.
Return(a) ==
    /\ ask[a].pc = "served" /\ ~Unreplayable(ask[a])
    /\ Step(a, Idle)
    /\ UNCHANGED <<exact, sem, dims, events, faults, paid, declined, added, silent>>

\* serveCached refuses, and the handler goes on to the upstream as after a miss.
Decline(a) ==
    /\ ask[a].pc = "served" /\ Unreplayable(ask[a])
    /\ Step(a, Asking(ask[a].who, "calling", TRUE, 0)) /\ declined' = declined + 1
    /\ UNCHANGED <<exact, sem, dims, events, faults, paid, added, silent>>

-----------------------------------------------------------------------------
(* The upstream, and Put *)

\* The limit the upstream was sent, which a body can also leave to it.  An OpenAI
\* style upstream takes either spelling.
Limits(kind, b) ==
    CASE kind = "anthropic" -> {messagesRequest(b, "", FALSE).max_tokens}
      [] kind = "gemini"    -> {geminiRequest(b).maxOutputTokens}
      [] OTHER              -> IF Caps(b) = {} THEN {None} ELSE Caps(b)

\* The answers the upstream makes: only the OpenAI style adapters pass n on.
AnswersAsked(kind, b) == IF kind = "openai" /\ b.n > 1 THEN b.n ELSE 1

\* What the upstream may produce: each answer up to the limit, and nothing where the
\* limit is one that upstreams reject.
Produced(kind, b) ==
    UNION {IF limit = None THEN Outputs ELSE 0..(AnswersAsked(kind, b) * limit) : limit \in Limits(kind, b)}

Billed(kind, prompt, output) ==
    IF kind = "gemini" THEN {geminiUsage(prompt, output - t, t) : t \in {0, output}}
    ELSE {toUsage(prompt, output)}

\* Only the OpenAI style adapters pass on what they cannot read.
Answered(a) ==
    LET b == Of(ask[a].who).body
        kind == Of(ask[a].who).kind
    IN  /\ ask[a].pc = "calling" /\ (b.readable \/ kind = "openai")
        /\ \E output \in Produced(kind, b) : \E prompt \in PromptCounts :
           \E usage \in Billed(kind, prompt, output) :
              Step(a, [ask[a] EXCEPT !.pc = "answered", !.output = output, !.usage = usage])
        /\ paid' = paid + (IF ask[a].eligible THEN 1 ELSE 0)
        /\ UNCHANGED <<exact, sem, dims, events, faults, declined, added, silent>>

CallFails(a) ==
    /\ ask[a].pc = "calling"
    /\ Step(a, Idle)
    /\ paid' = paid + (IF ask[a].eligible THEN 1 ELSE 0)
    /\ UNCHANGED <<exact, sem, dims, events, faults, declined, added, silent>>

Storable(q) == Enabled /\ q.eligible

\* The entries that make room for one more.
Victims(kept) ==
    LET excess == Cardinality(kept) + 1 - maxEntries
    IN  {out \in SUBSET kept : Cardinality(out) = IF excess > 0 THEN excess ELSE 0}

\* Lookup.Put as far as its embedder: Exact.Put replaces an entry under the same key,
\* which is no eviction, or makes room, and reports each entry that went, then the new one.
Put(a) ==
    LET c == ask[a].who
        kept == exact \ Under(c)
    IN  /\ ask[a].pc = "answered" /\ Storable(ask[a])
        /\ \E out \in Victims(kept) :
              /\ exact' = (kept \ out) \cup {[by |-> c, expiresAt |-> clock + exactTTL]}
              /\ events' = [events EXCEPT !["evicted"] = @ + Cardinality(out), !["stored"] = @ + 1]
        /\ silent' = silent + Cardinality(Under(c))
        /\ Step(a, IF Comparable(c) THEN Asking(c, "putting", FALSE, 0) ELSE Idle)
        /\ UNCHANGED <<sem, dims, faults, paid, declined, added>>

\* Nothing to store: the policy refused, or a stream was cut short or grew too long.
NotPut(a) ==
    /\ ask[a].pc = "answered" /\ (~Storable(ask[a]) \/ Of(ask[a].who).body.stream)
    /\ Step(a, Idle)
    /\ UNCHANGED <<exact, sem, dims, events, faults, paid, declined, added, silent>>

\* The leading records that have expired.
Spent(records, now) ==
    CHOOSE n \in 0..Len(records) :
        /\ \A i \in 1..n : expired(records[i].storedAt, now)
        /\ n < Len(records) => ~expired(records[n + 1].storedAt, now)

dropExpired(records, now) == SubSeq(records, Spent(records, now) + 1, Len(records))

Newest(records) ==
    SubSeq(records, IF Len(records) > maxPerTenant THEN Len(records) - maxPerTenant + 1 ELSE 1,
           Len(records))

Add(a) ==
    LET c == ask[a].who
        t == Of(c).tenant
        width == ask[a].vector.width
        kept == dropExpired(sem[t], ask[a].now)
        records == Newest(Append(kept, [vector |-> ask[a].vector, by |-> c, storedAt |-> ask[a].now]))
    IN  /\ ask[a].pc = "adding"
        /\ dims' = IF dims = 0 THEN width ELSE dims
        /\ \/ /\ width = dims'
              /\ sem' = [sem EXCEPT ![t] = records]
              /\ events' = [events EXCEPT !["evicted"] = @ + Len(sem[t]) + 1 - Len(records)]
              /\ added' = added + 1
           \/ width # dims' /\ UNCHANGED <<sem, events, added>>
        /\ Step(a, Idle)
        /\ UNCHANGED <<exact, faults, paid, declined, silent>>

Tick ==
    /\ clock < MaxClock /\ clock' = clock + 1
    /\ UNCHANGED <<tiers, exact, sem, dims, events, ask, asked, faults, paid, declined, added, silent>>

Next ==
    \/ \E a \in Unasked : \E c \in DOMAIN Callers :
          Disabled(a, c) \/ Refused(a, c) \/ ExactHit(a, c) \/ ExactMiss(a, c)
    \/ \E a \in Asks : Embed(a) \/ Nearest(a) \/ Return(a) \/ Decline(a) \/ Answered(a)
                       \/ CallFails(a) \/ Put(a) \/ NotPut(a) \/ Add(a)
    \/ Tick

Spec == Init /\ [][Next]_vars

-----------------------------------------------------------------------------
(* Properties *)

\* Every variable keeps its type, one width is held and neither tier holds more than
\* its bound.
TypeOK ==
    /\ clock \in 0..MaxClock /\ asked \in 0..MaxAsks /\ dims \in Nat
    /\ {events[e] : e \in Event} \subseteq Nat
    /\ Cardinality(exact) <= maxEntries
    /\ \A t \in Tenants : /\ Len(sem[t]) <= maxPerTenant
                          /\ \A r \in ToSet(sem[t]) : r.vector.width = dims

\* The places of the semantic tier that hold a record.
Held == UNION {{t} \X DOMAIN sem[t] : t \in Tenants}

\* The requests for which some state holds.
Where(states) == {a \in Asks : ask[a].pc \in states}
Eligibles == {a \in Asks : ask[a].eligible}

\* cache.Event: every outcome is reported once, by the tier that saw it.  Every request
\* is refused, hit or missed; a miss, and a hit that could not be served as it was asked
\* for, ends as one semantic hit or one paid call; an answer is stored at most once for
\* each paid call; an embedding that a miss or a stored answer asked for ends in one
\* failure, one semantic hit, one added record or nothing; and what the two tiers took
\* and no longer hold was reported as evicted, apart from entries of the exact tier
\* that expired or were replaced.
EventsCountedOnce ==
    /\ TypeOK
    /\ Enabled => events["exact_hit"] + events["miss"] + events["ineligible"] = asked
    /\ events["miss"] + declined = events["semantic_hit"] + paid
          + Cardinality(Eligibles \cap Where({"embedding", "nearest", "calling"}))
    /\ events["stored"] + Cardinality(Eligibles \cap Where({"answered"})) <= paid
    /\ events["embed_failed"] + events["semantic_hit"] + added
          + Cardinality(Where({"embedding", "nearest", "putting", "adding"}))
          <= events["miss"] + events["stored"]
    /\ events["stored"] + added
          = events["evicted"] + silent + Cardinality(exact) + Cardinality(Held)

\* What the upstream samples from, of whichever kind it is.
Sampled(b, model) ==
    <<messagesRequest(b, model, FALSE), geminiRequest(b),
      [f \in DOMAIN b \ {"user", "metadata", "stream_options"} |->
          withStreamUsage(b, model, FALSE, [streamUsage |-> TRUE])[f]]>>

\* BuildKey against the adapters: a caller the exact tier serves asked, as the same
\* tenant and of the same model, what Anthropic and Gemini would be sent in the same
\* words, and an OpenAI style upstream too apart from the fields user, metadata and
\* stream_options, which are passed on and not hashed; the policy refuses neither request.
ExactAnswersTheQuestion ==
    \A a \in Asks : ask[a].pc = "served" /\ ~ask[a].semantic =>
        LET asker == Of(ask[a].who) maker == Of(ask[a].entry)
        IN  /\ asker.tenant = maker.tenant /\ asker.model = maker.model
            /\ Sampled(asker.body, asker.model) = Sampled(maker.body, maker.model)
            /\ Refusal[ask[a].who] = "" /\ Refusal[ask[a].entry] = ""

\* Nearest: a semantic hit answers a caller of the same tenant, with a record that was
\* fresh when the clock was read, at or above the threshold, and as close as any that
\* was fresh; whatever was added, dropped or expired while the embedder was awaited,
\* and in whatever order the records lie.
SemanticHitEarned ==
    [][\A a \in Asks :
        LET asker == Of(ask[a].who)
            like(c) == Likeness[ask[a].who][c]
            fresh == {r \in ToSet(sem[asker.tenant]) : TTL = 0 \/ r.storedAt > ask[a].now - TTL}
        IN  ask[a].pc = "nearest" /\ ask'[a].pc = "served" =>
              /\ \E r \in fresh : r.by = ask'[a].entry
              /\ Of(ask'[a].entry).tenant = asker.tenant
              /\ like(ask'[a].entry) >= threshold
              /\ \A r \in fresh : like(r.by) <= like(ask'[a].entry)]_vars

\* The estimator against the adapters and the bill: what is billed covers all the upstream
\* produced; and where the gateway can read the body and the caller named one positive
\* cap, it exceeds the reservation at most by what the estimator never reads: the further
\* answers that n asks of an OpenAI style upstream, each within the cap reserved for the
\* first, and the tokens the vendor counts for the prompt beyond the estimate.
WithinReservation ==
    \A a \in Asks : ask[a].pc = "answered" =>
        LET b == Of(ask[a].who).body
            usage == ask[a].usage
            reserved == Estimate(b)
            further == AnswersAsked(Of(ask[a].who).kind, b) - 1
        IN  /\ usage.completion = ask[a].output
            /\ b.readable /\ Cardinality(Caps(b)) = 1 =>
                  costUSD(usage.prompt, usage.completion)
                     <= reserved.usd + costUSD(usage.prompt - reserved.prompt,
                                               further * reserved.completion)
=============================================================================
