---------------------------- MODULE LookupProofs ----------------------------
(***************************************************************************)
(* Lookup for every list of callers, every similarity, every bound and any *)
(* number of requests in flight: the events, what the exact tier serves,   *)
(* what the semantic tier serves, and the bill against the reservation.    *)
(***************************************************************************)
EXTENDS Lookup, SumsProofs, FiniteSetTheorems

-----------------------------------------------------------------------------
(* The bodies, and the estimate *)

\* What a caller is.
LEMMA CallerFacts ==
  ASSUME NEW c \in DOMAIN Callers
  PROVE  /\ c \in Nat /\ c # 0
         /\ Of(c).tenant \in Tenants
         /\ Of(c).body \in Body
<1>1. /\ DOMAIN Callers = 1..Len(Callers) /\ Len(Callers) \in Nat
      /\ Callers[c] \in [tenant: STRING, model: STRING, kind: STRING, body: Body]
  <2> DEFINE R == [tenant: STRING, model: STRING, kind: STRING, body: Body]
  <2>1. Callers \in Seq(R)
    BY LookupAssumption
  <2> HIDE DEF R
  <2>2. DOMAIN Callers = 1..Len(Callers) /\ Len(Callers) \in Nat /\ Callers[c] \in R
    BY <2>1, LenProperties
  <2> QED BY <2>2 DEF R
<1>2. Callers[c].body \in Body
  <2> HIDE DEF Body
  <2> QED BY <1>1
<1> QED BY <1>1, <1>2 DEF Of, Tenants

\* The text of a content field is a sequence of letters.
LEMMA TextIsSeq ==
  ASSUME NEW m \in Message
  PROVE  textOf(m.content) \in Seq(STRING) /\ Len(textOf(m.content)) \in Nat
<1> DEFINE Part == [type: STRING, text: Seq(STRING)]
           parts == m.content.parts
           f == [i \in DOMAIN parts |-> IF parts[i].type = "text" THEN parts[i].text ELSE <<>>]
<1>1. parts \in Seq(Part)
  BY DEF Message
<1>2. DOMAIN parts = 1..Len(parts) /\ Len(parts) \in Nat /\ \A i \in 1..Len(parts) : parts[i] \in Part
  <2> HIDE DEF parts, Part
  <2> QED BY <1>1, LenProperties
<1>3. f \in [1..Len(parts) -> Seq(STRING)]
  <2>1. <<>> \in Seq(STRING)
    BY EmptySeq
  <2>2. \A i \in 1..Len(parts) : parts[i].text \in Seq(STRING)
    <3> HIDE DEF parts
    <3> QED BY <1>2
  <2> HIDE DEF parts
  <2> QED BY <2>1, <2>2, <1>2
<1>4. textOf(m.content) = JoinTo(f, Len(parts))
  BY DEF textOf
<1>5. JoinTo(f, Len(parts)) \in Seq(STRING)
  <2> HIDE DEF f, parts
  <2> QED BY <1>2, <1>3, JoinFacts
<1> QED BY <1>4, <1>5, LenProperties

\* The estimate of a prompt is a number.
LEMMA PromptTokensType ==
  ASSUME NEW b \in Body
  PROVE  promptTokens(b) \in Nat
<1> DEFINE n == Len(b.messages)
           g == [i \in DOMAIN b.messages |->
                    messageOverheadTokens + tokensForChars(Len(textOf(b.messages[i].content)))]
<1>1. b.messages \in Seq(Message)
  <2> HIDE DEF Message
  <2> QED BY DEF Body
<1>2. n \in Nat /\ DOMAIN b.messages = 1..n /\ \A i \in 1..n : b.messages[i] \in Message
  BY <1>1, LenProperties
<1>3. \A i \in 1..n : Len(textOf(b.messages[i].content)) \in Nat
  BY <1>2, TextIsSeq
<1>4. \A x \in Nat : messageOverheadTokens + tokensForChars(x) \in Nat
  BY DEF messageOverheadTokens, tokensForChars, charsPerToken
<1>5. g \in [1..n -> Nat]
  BY <1>2, <1>3, <1>4
<1>6. SumTo(g, n) \in Nat
  <2> HIDE DEF g, n
  <2> QED BY <1>2, <1>5, SumOfNaturals
<1> QED BY <1>6 DEF promptTokens

\* A product grows with its factor, and splits with it.
LEMMA Products ==
  ASSUME NEW a \in Nat, NEW b \in Nat, NEW c \in Nat
  PROVE  /\ a * c \in Nat /\ b * c \in Nat
         /\ (a + b) * c = a * c + b * c
         /\ a <= b => a * c <= b * c
<1>1. a * c \in Nat /\ b * c \in Nat /\ (a + b) * c = a * c + b * c
  OBVIOUS
<1>2. ASSUME a <= b PROVE a * c <= b * c
  <2>1. b - a \in Nat
    BY <1>2
  <2>2. (b - a) * c \in Nat /\ (b - a) * c = b * c - a * c
    BY <2>1
  <2> QED BY <1>1, <2>2
<1> QED BY <1>1, <1>2

\* The price of p prompt tokens and of no more than k answers within a cap is at most
\* that of e prompt tokens and one such answer, the tokens beyond e and the further
\* answers.
LEMMA PriceSplits ==
  ASSUME NEW p \in Nat, NEW e \in Nat, NEW cap \in Nat, NEW k \in Nat \ {0},
         NEW x \in Nat, x <= k * cap
  PROVE  costUSD(p, x) <= costUSD(e, cap) + costUSD(p - e, (k - 1) * cap)
<1> DEFINE d == clampTokens(p - e)
           m == (k - 1) * cap
<1>1. d \in Nat /\ p <= e + d /\ e + d \in Nat
  BY DEF clampTokens
<1>2. m \in Nat /\ k * cap = cap + m /\ x <= cap + m /\ cap + m \in Nat
  <2>1. k - 1 \in Nat /\ (k - 1) + 1 = k /\ 1 \in Nat
    OBVIOUS
  <2>2. ((k - 1) + 1) * cap = (k - 1) * cap + 1 * cap /\ (k - 1) * cap \in Nat
    BY <2>1, Products
  <2>3. 1 * cap = cap
    OBVIOUS
  <2>4. k * cap = m + cap
    BY <2>1, <2>2, <2>3
  <2> QED BY <2>2, <2>4
<1>3. /\ clampTokens(p) = p /\ clampTokens(x) = x /\ clampTokens(e) = e
      /\ clampTokens(cap) = cap /\ clampTokens(m) = m
  <2> HIDE DEF m
  <2> QED BY <1>2 DEF clampTokens
<1> DEFINE I == InputPerMTok
           O == OutputPerMTok
<1>4. I \in Nat /\ O \in Nat
  BY PriceAssumption
<1>5. costUSD(p, x) = p * I + x * O
  BY <1>3 DEF costUSD
<1>6. costUSD(e, cap) = e * I + cap * O
  BY <1>3 DEF costUSD
<1>7. costUSD(p - e, m) = d * I + m * O
  BY <1>3 DEF costUSD
<1> HIDE DEF d, m, I, O
<1>8. p * I <= e * I + d * I /\ p * I \in Nat /\ e * I \in Nat /\ d * I \in Nat
  <2>1. p * I <= (e + d) * I /\ p * I \in Nat
    BY <1>1, <1>4, Products
  <2>2. (e + d) * I = e * I + d * I /\ e * I \in Nat /\ d * I \in Nat
    BY <1>1, <1>4, Products
  <2> QED BY <2>1, <2>2
<1>9. x * O <= cap * O + m * O /\ x * O \in Nat /\ cap * O \in Nat /\ m * O \in Nat
  <2>1. x * O <= (cap + m) * O /\ x * O \in Nat
    BY <1>2, <1>4, Products
  <2>2. (cap + m) * O = cap * O + m * O /\ cap * O \in Nat /\ m * O \in Nat
    BY <1>2, <1>4, Products
  <2> QED BY <2>1, <2>2
<1>10. \A a1, a2, a3, b1, b2, b3 \in Nat :
          a1 <= a2 + a3 /\ b1 <= b2 + b3 => a1 + b1 <= (a2 + b2) + (a3 + b3)
  OBVIOUS
<1>11. p * I + x * O <= (e * I + cap * O) + (d * I + m * O)
  BY <1>8, <1>9, <1>10
<1> QED BY <1>5, <1>6, <1>7, <1>11 DEF m

\* The bill of one answer, as WithinReservation has it.
Covered(c, output, usage) ==
    LET b == Of(c).body
        reserved == Estimate(b)
        further == AnswersAsked(Of(c).kind, b) - 1
    IN  /\ usage.completion = output
        /\ b.readable /\ Cardinality(Caps(b)) = 1 =>
              costUSD(usage.prompt, usage.completion)
                 <= reserved.usd + costUSD(usage.prompt - reserved.prompt,
                                           further * reserved.completion)

\* Where one cap is positive, every adapter sends it, or something smaller, upstream.
LEMMA LimitWithinCap ==
  ASSUME NEW b \in Body, NEW kind, NEW limit \in Limits(kind, b)
  PROVE  /\ limit \in Int
         /\ \A cap : Caps(b) = {cap} => cap \in Nat /\ cap > 0 /\ limit # None /\ limit <= cap
<1> DEFINE x == b.max_tokens
           y == b.max_completion_tokens
<1>1. x \in Int /\ y \in Int
  BY DEF Body
<1>2. Caps(b) = {c \in {x, y} : c > 0}
  BY DEF Caps
<1>3. messagesRequest(b, "", FALSE).max_tokens = IF x # None THEN x ELSE IF y # None THEN y ELSE 4096
  BY DEF messagesRequest, maxTokens, defaultMaxTokens
<1>4. geminiRequest(b).maxOutputTokens = IF x # None THEN x ELSE y
  BY DEF geminiRequest, outputTokenLimit
<1>5. \/ limit = IF x # None THEN x ELSE IF y # None THEN y ELSE 4096
      \/ limit = IF x # None THEN x ELSE y
      \/ limit \in IF Caps(b) = {} THEN {None} ELSE Caps(b)
  <2>1. CASE kind = "anthropic"
    <3>1. limit = messagesRequest(b, "", FALSE).max_tokens
      BY <2>1 DEF Limits
    <3> QED BY <3>1, <1>3
  <2>2. CASE kind = "gemini"
    <3>1. limit = geminiRequest(b).maxOutputTokens
      BY <2>2 DEF Limits
    <3> QED BY <3>1, <1>4
  <2>3. CASE kind # "anthropic" /\ kind # "gemini"
    BY <2>3 DEF Limits
  <2> QED BY <2>1, <2>2, <2>3
<1>6. None = -1
  BY DEF None
<1>7. ASSUME NEW cap, Caps(b) = {cap}
      PROVE  cap \in Nat /\ cap > 0 /\ limit # None /\ limit <= cap
  <2>1. cap \in {x, y} /\ cap > 0
    BY <1>2, <1>7
  <2>2. (x > 0 => x = cap) /\ (y > 0 => y = cap)
    BY <1>2, <1>7
  <2>3. limit \in {x, y, cap} /\ limit # None
    <3> HIDE DEF x, y
    <3> QED BY <1>1, <1>5, <1>6, <1>7, <2>1
  <2> HIDE DEF x, y
  <2> QED BY <1>1, <2>1, <2>2, <2>3
<1>8. limit \in Int
  <2> HIDE DEF x, y
  <2> QED BY <1>1, <1>2, <1>5, <1>6
<1> QED BY <1>7, <1>8

\* What an upstream produces is a number, and where one cap is positive at most that
\* many tokens for each answer.
LEMMA ProducedWithinCap ==
  ASSUME NEW b \in Body, NEW kind, NEW output \in Produced(kind, b)
  PROVE  /\ AnswersAsked(kind, b) \in Nat \ {0} /\ output \in Nat
         /\ \A cap : Caps(b) = {cap} =>
               cap \in Nat /\ cap > 0 /\ output <= AnswersAsked(kind, b) * cap
<1> DEFINE k == AnswersAsked(kind, b)
<1>1. k \in Nat \ {0}
  BY DEF AnswersAsked, Body
<1>2. PICK limit \in Limits(kind, b) : output \in IF limit = None THEN Outputs ELSE 0..(k * limit)
  BY DEF Produced
<1> HIDE DEF k
<1>3. limit \in Int /\ \A cap : Caps(b) = {cap} => cap \in Nat /\ cap > 0 /\ limit # None /\ limit <= cap
  BY LimitWithinCap
<1>4. output \in Nat
  <2>1. k * limit \in Int
    BY <1>1, <1>3
  <2> QED BY <1>2, <2>1, LookupAssumption
<1>5. ASSUME NEW cap, Caps(b) = {cap}
      PROVE  cap \in Nat /\ cap > 0 /\ output <= k * cap
  <2>1. cap \in Nat /\ cap > 0 /\ limit # None /\ limit <= cap
    BY <1>3, <1>5
  <2>2. k * limit \in Int /\ k * cap \in Int /\ cap - limit \in Nat
    BY <1>1, <1>3, <2>1
  <2>3. k * (cap - limit) \in Nat /\ k * (cap - limit) = k * cap - k * limit
    BY <1>1, <1>3, <2>1, <2>2
  <2>4. output <= k * limit
    BY <1>2, <2>1, <2>2
  <2> QED BY <1>4, <2>1, <2>2, <2>3, <2>4
<1> QED BY <1>1, <1>4, <1>5 DEF k

\* The bill of an answer: all that was produced, and beyond the reservation only what
\* the estimator does not read.
LEMMA BillCovered ==
  ASSUME NEW c \in DOMAIN Callers, NEW output \in Produced(Of(c).kind, Of(c).body),
         NEW prompt \in PromptCounts, NEW usage \in Billed(Of(c).kind, prompt, output)
  PROVE  /\ output \in Int /\ usage \in [prompt: Int, completion: Int]
         /\ Covered(c, output, usage)
<1> DEFINE b == Of(c).body
           kind == Of(c).kind
           k == AnswersAsked(kind, b)
<1>1. b \in Body
  BY CallerFacts
<1>2. promptTokens(b) \in Nat /\ prompt \in Nat
  <2>1. promptTokens(b) \in Nat
    <3> HIDE DEF b
    <3> QED BY <1>1, PromptTokensType
  <2> QED BY <2>1, LookupAssumption
<1>3. /\ k \in Nat \ {0} /\ output \in Nat
      /\ \A cap : Caps(b) = {cap} => cap \in Nat /\ cap > 0 /\ output <= k * cap
  <2>1. output \in Produced(kind, b)
    OBVIOUS
  <2> HIDE DEF b, kind
  <2> QED BY <1>1, <2>1, ProducedWithinCap
<1>4. usage = [prompt |-> prompt, completion |-> output]
  <2>1. CASE kind = "gemini"
    <3>1. PICK t \in {0, output} : usage = geminiUsage(prompt, output - t, t)
      BY <2>1 DEF Billed
    <3>2. (output - t) + t = output
      BY <1>3
    <3> QED BY <3>1, <3>2 DEF geminiUsage
  <2>2. CASE kind # "gemini"
    BY <2>2 DEF Billed, toUsage
  <2> QED BY <2>1, <2>2
<1>5. usage.completion = output /\ usage.prompt = prompt /\ usage \in [prompt: Int, completion: Int]
  BY <1>2, <1>3, <1>4
<1> DEFINE est == Estimate(b)
<1>6. ASSUME b.readable, Cardinality(Caps(b)) = 1
      PROVE  costUSD(prompt, output) <= est.usd + costUSD(prompt - est.prompt, (k - 1) * est.completion)
  <2>1. PICK cap : Caps(b) = {cap}
    <3>1. IsFiniteSet(Caps(b))
      <4>1. IsFiniteSet({b.max_tokens}) /\ IsFiniteSet({b.max_completion_tokens})
        BY FS_Singleton
      <4>2. IsFiniteSet({b.max_tokens} \cup {b.max_completion_tokens})
        BY <4>1, FS_Union
      <4>3. Caps(b) \in SUBSET ({b.max_tokens} \cup {b.max_completion_tokens})
        BY DEF Caps
      <4> QED BY <4>2, <4>3, FS_Subset
    <3> QED BY <3>1, <1>6, FS_Singleton
  <2>2. cap \in Nat /\ cap > 0 /\ output <= k * cap
    BY <2>1, <1>3
  <2>3. requestedCompletionCap(b) = cap
    <3>1. cap \in Caps(b) /\ \A d \in Caps(b) : cap <= d
      BY <2>1, <2>2
    <3>2. \A e \in Caps(b) : e = cap
      BY <2>1
    <3> QED BY <3>1, <3>2, <2>1 DEF requestedCompletionCap
  <2>4. completionTokens(cap) = cap
    BY <2>2 DEF completionTokens
  <2>5. est.usd = costUSD(promptTokens(b), cap) /\ est.prompt = promptTokens(b) /\ est.completion = cap
    BY <1>6, <2>3, <2>4 DEF Estimate
  <2> HIDE DEF b, k, est
  <2>6. costUSD(prompt, output)
           <= costUSD(promptTokens(b), cap) + costUSD(prompt - promptTokens(b), (k - 1) * cap)
    BY <1>2, <1>3, <2>2, PriceSplits
  <2> QED BY <2>5, <2>6
<1>7. Covered(c, output, usage)
  <2>1. /\ usage.completion = output
        /\ b.readable /\ Cardinality(Caps(b)) = 1 =>
              costUSD(usage.prompt, usage.completion)
                 <= est.usd + costUSD(usage.prompt - est.prompt, (k - 1) * est.completion)
    BY <1>5, <1>6, Zenon
  <2> QED BY <2>1, Zenon DEF Covered
<1> QED BY <1>3, <1>5, <1>7

-----------------------------------------------------------------------------
(* The inductive invariant.  What is served and what is counted are facts  *)
(* about one moment; to be kept they need what each request in flight and  *)
(* each record carry with them: the request waiting for a vector will get  *)
(* its own, a record lies under the tenant of the caller it answered, with *)
(* that caller's vector, all the vectors held have one positive width, and *)
(* what is served or waits to be compared was accepted by the policy.      *)

Vector == [of: Nat, width: Nat]
Record == [vector: Vector, by: DOMAIN Callers, storedAt: Nat]
Entry == [by: DOMAIN Callers, expiresAt: Nat]
Request ==
    [pc: {"idle", "embedding", "nearest", "calling", "answered", "served", "putting", "adding"},
     who: Nat, eligible: BOOLEAN, semantic: BOOLEAN, entry: Nat, vector: Vector, now: Nat,
     output: Int, usage: [prompt: Int, completion: Int]]

Types ==
    /\ tiers \in {"none", "exact", "both"} /\ clock \in 0..MaxClock
    /\ exact \in SUBSET Entry
    /\ sem \in [Tenants -> Seq(Record)] /\ dims \in Nat
    /\ events \in [Event -> Nat] /\ ask \in [Asks -> Request]
    /\ asked \in 0..MaxAsks /\ faults \in Nat
    /\ paid \in Nat /\ declined \in Nat /\ added \in Nat /\ silent \in Nat

\* What a request in flight carries.
AskInv(q) ==
    /\ q.pc # "idle" => q.who \in DOMAIN Callers
    /\ q.eligible => Refusal[q.who] = ""
    /\ q.pc \in {"embedding", "nearest", "served"} => q.eligible
    /\ q.pc \in {"nearest", "adding"} => q.vector.of = q.who /\ q.vector.width > 0
    /\ q.pc = "served" /\ ~q.semantic =>
          /\ q.entry \in DOMAIN Callers /\ Key[q.entry] = Key[q.who]
          /\ Refusal[q.who] = "" /\ Refusal[q.entry] = ""
    /\ q.pc = "answered" => Covered(q.who, q.output, q.usage)

\* What a record carries, of tenant t in a tier of width d.
RecordInv(r, t, d) ==
    /\ Of(r.by).tenant = t /\ r.vector.of = r.by
    /\ r.vector.width = d /\ d > 0

AsksPart == \A a \in Asks : AskInv(ask[a])
ExactPart ==
    /\ IsFiniteSet(exact) /\ Cardinality(exact) <= maxEntries
    /\ \A x \in exact : Refusal[x.by] = ""
SemPart ==
    \A t \in Tenants : /\ Len(sem[t]) <= maxPerTenant
                       /\ \A i \in DOMAIN sem[t] : RecordInv(sem[t][i], t, dims)

\* A request whose miss has not ended yet, one whose answer may still be stored, and
\* one for which a vector is awaited or at hand.
Waiting(q) == q.eligible /\ q.pc \in {"embedding", "nearest", "calling"}
Holding(q) == q.eligible /\ q.pc = "answered"
Embeds(q) == q.pc \in {"embedding", "nearest", "putting", "adding"}

Waits == {a \in Asks : Waiting(ask[a])}
Holds == {a \in Asks : Holding(ask[a])}
Embedders == {a \in Asks : Embeds(ask[a])}

CountPart ==
    /\ Enabled => events["exact_hit"] + events["miss"] + events["ineligible"] = asked
    /\ events["miss"] + declined = events["semantic_hit"] + paid + Cardinality(Waits)
    /\ events["stored"] + Cardinality(Holds) <= paid
    /\ events["embed_failed"] + events["semantic_hit"] + added + Cardinality(Embedders)
          <= events["miss"] + events["stored"]
    /\ events["stored"] + added = events["evicted"] + silent + Cardinality(exact) + Cardinality(Held)

LookupInv == Types /\ AsksPart /\ ExactPart /\ SemPart /\ CountPart

\* The defaults: the bounds of the tiers are positive, the threshold is a number.
LEMMA BoundFacts ==
  /\ maxPerTenant \in Nat /\ maxPerTenant > 0 /\ threshold \in Int
  /\ maxEntries \in Nat /\ maxEntries > 0 /\ exactTTL \in Nat
BY LookupAssumption DEF maxPerTenant, threshold, DefaultMaxPerTenant, DefaultSimilarityThreshold,
                        maxEntries, exactTTL, DefaultExactMaxEntries, DefaultExactTTL

\* A set that changes by at most one element.
LEMMA OneMoves ==
  ASSUME NEW S, NEW T, NEW U, IsFiniteSet(U), S \subseteq U, T \subseteq U, NEW a,
         \A b \in U : b # a => (b \in S <=> b \in T)
  PROVE  /\ Cardinality(S) \in Nat /\ Cardinality(T) \in Nat
         /\ (a \in S <=> a \in T) => Cardinality(T) = Cardinality(S)
         /\ a \in T /\ a \notin S => Cardinality(T) = Cardinality(S) + 1
         /\ a \notin T /\ a \in S => Cardinality(T) = Cardinality(S) - 1
<1>1. IsFiniteSet(S) /\ IsFiniteSet(T)
  BY FS_Subset
<1>2. Cardinality(S) \in Nat /\ Cardinality(T) \in Nat
  BY <1>1, FS_CardinalityType
<1>3. ASSUME a \in S <=> a \in T PROVE Cardinality(T) = Cardinality(S)
  <2>1. S = T
    BY <1>3
  <2> QED BY <2>1
<1>4. ASSUME a \in T, a \notin S PROVE Cardinality(T) = Cardinality(S) + 1
  <2>1. T = S \cup {a}
    BY <1>4
  <2> QED BY <1>1, <1>4, <2>1, FS_AddElement
<1>5. ASSUME a \notin T, a \in S PROVE Cardinality(T) = Cardinality(S) - 1
  <2>1. T = S \ {a}
    BY <1>5
  <2> QED BY <1>1, <1>5, <2>1, FS_RemoveElement
<1> QED BY <1>2, <1>3, <1>4, <1>5

\* A request takes its next state: the others are left alone, and the numbers of
\* those that wait, hold an answer and embed follow its own.
LEMMA AskSet ==
  ASSUME Types, AsksPart, NEW a \in Asks, NEW q \in Request, AskInv(q),
         ask' = [ask EXCEPT ![a] = q]
  PROVE  /\ ask' \in [Asks -> Request] /\ AsksPart'
         /\ Cardinality(Waits) \in Nat /\ Cardinality(Waits)' \in Nat
         /\ (Waiting(q) <=> Waiting(ask[a])) => Cardinality(Waits)' = Cardinality(Waits)
         /\ Waiting(q) /\ ~Waiting(ask[a]) => Cardinality(Waits)' = Cardinality(Waits) + 1
         /\ ~Waiting(q) /\ Waiting(ask[a]) => Cardinality(Waits)' = Cardinality(Waits) - 1
         /\ Cardinality(Holds) \in Nat /\ Cardinality(Holds)' \in Nat
         /\ (Holding(q) <=> Holding(ask[a])) => Cardinality(Holds)' = Cardinality(Holds)
         /\ Holding(q) /\ ~Holding(ask[a]) => Cardinality(Holds)' = Cardinality(Holds) + 1
         /\ ~Holding(q) /\ Holding(ask[a]) => Cardinality(Holds)' = Cardinality(Holds) - 1
         /\ Cardinality(Embedders) \in Nat /\ Cardinality(Embedders)' \in Nat
         /\ (Embeds(q) <=> Embeds(ask[a])) => Cardinality(Embedders)' = Cardinality(Embedders)
         /\ Embeds(q) /\ ~Embeds(ask[a]) => Cardinality(Embedders)' = Cardinality(Embedders) + 1
         /\ ~Embeds(q) /\ Embeds(ask[a]) => Cardinality(Embedders)' = Cardinality(Embedders) - 1
<1>1. ask \in [Asks -> Request]
  BY DEF Types
<1>2. ask' \in [Asks -> Request]
  <2> HIDE DEF Request
  <2> QED BY <1>1
<1>3. \A b \in Asks : ask'[b] = IF b = a THEN q ELSE ask[b]
  <2> HIDE DEF Request
  <2> QED BY <1>1
<1>4. AsksPart'
  <2>1. \A b \in Asks : AskInv(ask'[b])
    <3> HIDE DEF AskInv
    <3> QED BY <1>3 DEF AsksPart
  <2> QED BY <2>1 DEF AsksPart, AskInv, Covered
<1>5. IsFiniteSet(Asks)
  BY LookupAssumption
<1>6. /\ Cardinality(Waits) \in Nat /\ Cardinality(Waits)' \in Nat
      /\ (Waiting(q) <=> Waiting(ask[a])) => Cardinality(Waits)' = Cardinality(Waits)
      /\ Waiting(q) /\ ~Waiting(ask[a]) => Cardinality(Waits)' = Cardinality(Waits) + 1
      /\ ~Waiting(q) /\ Waiting(ask[a]) => Cardinality(Waits)' = Cardinality(Waits) - 1
  <2> DEFINE S == Waits
             T == {b \in Asks : Waiting(ask'[b])}
  <2>1. Waits' = T
    BY DEF Waits, Waiting
  <2>2. /\ S \subseteq Asks /\ T \subseteq Asks
        /\ (a \in S <=> Waiting(ask[a])) /\ (a \in T <=> Waiting(q))
        /\ \A b \in Asks : b # a => (b \in S <=> b \in T)
    <3> HIDE DEF Waiting
    <3> QED BY <1>3 DEF Waits
  <2>3. Cardinality(Waits)' = Cardinality(T)
    BY <2>1
  <2> HIDE DEF S, T, Waiting
  <2>4. /\ Cardinality(S) \in Nat /\ Cardinality(T) \in Nat
        /\ (a \in S <=> a \in T) => Cardinality(T) = Cardinality(S)
        /\ a \in T /\ a \notin S => Cardinality(T) = Cardinality(S) + 1
        /\ a \notin T /\ a \in S => Cardinality(T) = Cardinality(S) - 1
    BY <1>5, <2>2, OneMoves
  <2>5. Cardinality(S) = Cardinality(Waits)
    BY DEF S
  <2> QED BY <2>2, <2>3, <2>4, <2>5
<1>7. /\ Cardinality(Holds) \in Nat /\ Cardinality(Holds)' \in Nat
      /\ (Holding(q) <=> Holding(ask[a])) => Cardinality(Holds)' = Cardinality(Holds)
      /\ Holding(q) /\ ~Holding(ask[a]) => Cardinality(Holds)' = Cardinality(Holds) + 1
      /\ ~Holding(q) /\ Holding(ask[a]) => Cardinality(Holds)' = Cardinality(Holds) - 1
  <2> DEFINE S == Holds
             T == {b \in Asks : Holding(ask'[b])}
  <2>1. Holds' = T
    BY DEF Holds, Holding
  <2>2. /\ S \subseteq Asks /\ T \subseteq Asks
        /\ (a \in S <=> Holding(ask[a])) /\ (a \in T <=> Holding(q))
        /\ \A b \in Asks : b # a => (b \in S <=> b \in T)
    <3> HIDE DEF Holding
    <3> QED BY <1>3 DEF Holds
  <2>3. Cardinality(Holds)' = Cardinality(T)
    BY <2>1
  <2> HIDE DEF S, T, Holding
  <2>4. /\ Cardinality(S) \in Nat /\ Cardinality(T) \in Nat
        /\ (a \in S <=> a \in T) => Cardinality(T) = Cardinality(S)
        /\ a \in T /\ a \notin S => Cardinality(T) = Cardinality(S) + 1
        /\ a \notin T /\ a \in S => Cardinality(T) = Cardinality(S) - 1
    BY <1>5, <2>2, OneMoves
  <2>5. Cardinality(S) = Cardinality(Holds)
    BY DEF S
  <2> QED BY <2>2, <2>3, <2>4, <2>5
<1>8. /\ Cardinality(Embedders) \in Nat /\ Cardinality(Embedders)' \in Nat
      /\ (Embeds(q) <=> Embeds(ask[a])) => Cardinality(Embedders)' = Cardinality(Embedders)
      /\ Embeds(q) /\ ~Embeds(ask[a]) => Cardinality(Embedders)' = Cardinality(Embedders) + 1
      /\ ~Embeds(q) /\ Embeds(ask[a]) => Cardinality(Embedders)' = Cardinality(Embedders) - 1
  <2> DEFINE S == Embedders
             T == {b \in Asks : Embeds(ask'[b])}
  <2>1. Embedders' = T
    BY DEF Embedders, Embeds
  <2>2. /\ S \subseteq Asks /\ T \subseteq Asks
        /\ (a \in S <=> Embeds(ask[a])) /\ (a \in T <=> Embeds(q))
        /\ \A b \in Asks : b # a => (b \in S <=> b \in T)
    <3> HIDE DEF Embeds
    <3> QED BY <1>3 DEF Embedders
  <2>3. Cardinality(Embedders)' = Cardinality(T)
    BY <2>1
  <2> HIDE DEF S, T, Embeds
  <2>4. /\ Cardinality(S) \in Nat /\ Cardinality(T) \in Nat
        /\ (a \in S <=> a \in T) => Cardinality(T) = Cardinality(S)
        /\ a \in T /\ a \notin S => Cardinality(T) = Cardinality(S) + 1
        /\ a \notin T /\ a \in S => Cardinality(T) = Cardinality(S) - 1
    BY <1>5, <2>2, OneMoves
  <2>5. Cardinality(S) = Cardinality(Embedders)
    BY DEF S
  <2> QED BY <2>2, <2>3, <2>4, <2>5
<1> QED BY <1>2, <1>4, <1>6, <1>7, <1>8

\* What a step that leaves a tier alone keeps of it.
LEMMA ExactKept ==
  ASSUME ExactPart, UNCHANGED exact
  PROVE  ExactPart' /\ Cardinality(exact)' = Cardinality(exact)
BY DEF ExactPart

LEMMA SemKept ==
  ASSUME SemPart, UNCHANGED <<sem, dims>>
  PROVE  SemPart' /\ Cardinality(Held)' = Cardinality(Held)
<1>1. SemPart'
  BY DEF SemPart, RecordInv
<1>2. Held' = Held
  BY DEF Held
<1> QED BY <1>1, <1>2

\* The numbers that are counted.
LEMMA NumberFacts ==
  ASSUME LookupInv
  PROVE  /\ events["exact_hit"] \in Nat /\ events["semantic_hit"] \in Nat /\ events["miss"] \in Nat
         /\ events["ineligible"] \in Nat /\ events["stored"] \in Nat /\ events["evicted"] \in Nat
         /\ events["embed_failed"] \in Nat
         /\ asked \in Nat /\ paid \in Nat /\ declined \in Nat /\ added \in Nat /\ silent \in Nat
         /\ events \in [Event -> Nat] /\ faults \in Nat
<1>1. events \in [Event -> Nat] /\ asked \in Nat /\ paid \in Nat /\ declined \in Nat
      /\ added \in Nat /\ silent \in Nat /\ faults \in Nat
  BY LookupAssumption DEF LookupInv, Types
<1> QED BY <1>1 DEF Event

\* The tenants are finitely many, and so are the places they hold.
LEMMA TenantsFinite == IsFiniteSet(Tenants)
<1> DEFINE f == [c \in DOMAIN Callers |-> Callers[c].tenant]
<1>1. f \in Surjection(DOMAIN Callers, Tenants)
  BY DEF Surjection, Tenants
<1>2. IsFiniteSet(DOMAIN Callers)
  <2>1. DOMAIN Callers = 1..Len(Callers) /\ Len(Callers) \in Nat
    BY LookupAssumption, LenProperties
  <2> QED BY <2>1, FS_Interval
<1> HIDE DEF f
<1> QED BY <1>1, <1>2, FS_Surjection

LEMMA PlacesFinite ==
  ASSUME Types, NEW U \in SUBSET Tenants
  PROVE  IsFiniteSet(UNION {{u} \X DOMAIN sem[u] : u \in U})
<1> DEFINE Place(u) == {u} \X DOMAIN sem[u]
           P == {Place(u) : u \in U}
           f == [u \in U |-> Place(u)]
<1>1. \A u \in U : IsFiniteSet(Place(u))
  <2> SUFFICES ASSUME NEW u \in U PROVE IsFiniteSet(Place(u))
    OBVIOUS
  <2>1. sem[u] \in Seq(Record)
    BY DEF Types
  <2>2. DOMAIN sem[u] = 1..Len(sem[u]) /\ Len(sem[u]) \in Nat
    BY <2>1, LenProperties
  <2>3. IsFiniteSet(1..Len(sem[u])) /\ IsFiniteSet({u})
    <3>1. 1 \in Int /\ Len(sem[u]) \in Int
      BY <2>2
    <3> QED BY <3>1, FS_Interval, FS_Singleton
  <2> QED BY <2>2, <2>3, FS_Product
<1>2. IsFiniteSet(U)
  BY TenantsFinite, FS_Subset
<1>3. f \in Surjection(U, P)
  BY DEF Surjection
<1>4. IsFiniteSet(P)
  <2> HIDE DEF f, P
  <2> QED BY <1>2, <1>3, FS_Surjection
<1>5. \A S \in P : IsFiniteSet(S)
  BY <1>1
<1> HIDE DEF P
<1> QED BY <1>4, <1>5, FS_UNION DEF P

LEMMA HeldFinite == Types => IsFiniteSet(Held)
BY PlacesFinite DEF Held

\* The sizes that are counted.
LEMMA SizeFacts ==
  ASSUME LookupInv
  PROVE  Cardinality(exact) \in Nat /\ Cardinality(Held) \in Int
<1>1. IsFiniteSet(exact)
  BY DEF LookupInv, ExactPart
<1>2. Cardinality(exact) \in Nat
  BY <1>1, FS_CardinalityType
<1>3. Cardinality(Held) \in Int
  BY HeldFinite, FS_CardinalityType DEF LookupInv
<1> QED BY <1>2, <1>3

\* One more event of a kind, and none of the others.
LEMMA EmitFacts ==
  ASSUME Types, NEW e \in Event, emit(e)
  PROVE  /\ events' \in [Event -> Nat] /\ events'[e] = events[e] + 1
         /\ \A d \in Event : d # e => events'[d] = events[d]
<1>1. events \in [Event -> Nat]
  BY DEF Types
<1> QED BY <1>1 DEF emit

LEMMA EventNames ==
  {"exact_hit", "semantic_hit", "miss", "ineligible", "stored", "evicted", "embed_failed"} \subseteq Event
BY DEF Event

\* The counts, when nothing that is counted changes but the number of failed
\* embeddings and of those that embed, of which each makes up for the other.
LEMMA CountsKept ==
  ASSUME LookupInv, asked' = asked, (Enabled' <=> Enabled),
         UNCHANGED <<paid, declined, added, silent>>,
         Cardinality(exact)' = Cardinality(exact), Cardinality(Held)' = Cardinality(Held),
         events' \in [Event -> Nat],
         \A e \in Event \ {"embed_failed"} : events'[e] = events[e],
         Cardinality(Waits)' = Cardinality(Waits),
         Cardinality(Holds) \in Nat, Cardinality(Holds)' \in Nat,
         Cardinality(Holds)' <= Cardinality(Holds),
         Cardinality(Embedders) \in Nat, Cardinality(Embedders)' \in Nat,
         events'["embed_failed"] + Cardinality(Embedders)'
            <= events["embed_failed"] + Cardinality(Embedders)
  PROVE  CountPart'
<1>1. CountPart
  BY DEF LookupInv
<1>2. /\ events'["exact_hit"] = events["exact_hit"] /\ events'["semantic_hit"] = events["semantic_hit"]
      /\ events'["miss"] = events["miss"] /\ events'["ineligible"] = events["ineligible"]
      /\ events'["stored"] = events["stored"] /\ events'["evicted"] = events["evicted"]
      /\ events'["embed_failed"] \in Nat
  BY DEF Event
<1>3. Enabled' => (events["exact_hit"] + events["miss"] + events["ineligible"] = asked)'
  BY <1>1, <1>2 DEF CountPart
<1>4. (events["miss"] + declined = events["semantic_hit"] + paid + Cardinality(Waits))'
  BY <1>1, <1>2 DEF CountPart
<1>5. (events["stored"] + Cardinality(Holds) <= paid)'
  BY <1>1, <1>2, NumberFacts DEF CountPart
<1>6. (events["embed_failed"] + events["semantic_hit"] + added + Cardinality(Embedders)
         <= events["miss"] + events["stored"])'
  <2>1. events["embed_failed"] + events["semantic_hit"] + added + Cardinality(Embedders)
          <= events["miss"] + events["stored"]
    BY <1>1 DEF CountPart
  <2> QED BY <2>1, <1>2, NumberFacts
<1>7. (events["stored"] + added = events["evicted"] + silent + Cardinality(exact) + Cardinality(Held))'
  BY <1>1, <1>2 DEF CountPart
<1> QED BY <1>3, <1>4, <1>5, <1>6, <1>7 DEF CountPart

\* A request takes its next state, and the step leaves the semantic tier alone.
LEMMA Moved ==
  ASSUME LookupInv, NEW a \in Asks, NEW q \in Request, AskInv(q), ask' = [ask EXCEPT ![a] = q],
         UNCHANGED <<tiers, clock, sem, dims>>, exact' \in SUBSET Entry,
         events' \in [Event -> Nat], asked' \in 0..MaxAsks, faults' \in Nat,
         paid' \in Nat, declined' \in Nat, added' \in Nat, silent' \in Nat
  PROVE  /\ Types' /\ AsksPart' /\ SemPart' /\ Cardinality(Held)' = Cardinality(Held)
         /\ (Enabled' <=> Enabled)
<1>1. Types /\ AsksPart /\ SemPart
  BY DEF LookupInv
<1>2. ask' \in [Asks -> Request] /\ AsksPart'
  BY <1>1, AskSet
<1>3. SemPart' /\ Cardinality(Held)' = Cardinality(Held)
  BY <1>1, SemKept
<1>4. Types'
  BY <1>1, <1>2 DEF Types
<1>5. Enabled' <=> Enabled
  BY DEF Enabled
<1> QED BY <1>2, <1>3, <1>4, <1>5

\* The request of a step, before it.
LEMMA AskFacts ==
  ASSUME LookupInv, NEW a \in Asks
  PROVE  /\ ask[a] \in Request /\ AskInv(ask[a])
         /\ ask[a].who \in Nat /\ ask[a].vector \in Vector /\ ask[a].now \in Nat
         /\ clock \in Nat
<1>1. ask[a] \in Request
  BY DEF LookupInv, Types
<1>2. AskInv(ask[a])
  BY DEF LookupInv, AsksPart
<1>3. ask[a].who \in Nat /\ ask[a].vector \in Vector /\ ask[a].now \in Nat
  BY <1>1 DEF Request
<1>4. clock \in Nat
  BY LookupAssumption DEF LookupInv, Types
<1> QED BY <1>1, <1>2, <1>3, <1>4

\* The states a request may arrive in, or wait in, are requests.
LEMMA UnacceptedFacts ==
  ASSUME NEW c \in Nat, NEW pc \in {"idle", "calling", "putting"}
  PROVE  /\ Asking(c, pc, FALSE, 0) \in Request
         /\ Asking(c, pc, FALSE, 0).pc = pc /\ Asking(c, pc, FALSE, 0).who = c
         /\ ~Asking(c, pc, FALSE, 0).eligible
BY DEF Asking, Request, NoVector, Vector, toUsage

LEMMA IdleFacts ==
  Idle \in Request /\ Idle.pc = "idle" /\ AskInv(Idle) /\ ~Waiting(Idle) /\ ~Holding(Idle) /\ ~Embeds(Idle)
<1>1. Idle \in Request /\ Idle.pc = "idle" /\ ~Idle.eligible
  BY DEF Idle, Asking, Request, NoVector, Vector, toUsage
<1> QED BY <1>1 DEF AskInv, Waiting, Holding, Embeds

\* A request that arrives was doing nothing.
LEMMA Arrival ==
  ASSUME LookupInv, NEW a \in Asks, NEW r \in Request, AskInv(r), Begins(a, r), ~Holding(r),
         exact' \in SUBSET Entry, events' \in [Event -> Nat], silent' \in Nat
  PROVE  /\ Types' /\ AsksPart' /\ SemPart' /\ Cardinality(Held)' = Cardinality(Held)
         /\ asked' = asked + 1 /\ UNCHANGED <<paid, declined, added>> /\ (Enabled' <=> Enabled)
         /\ Cardinality(Waits) \in Nat /\ Cardinality(Holds) \in Nat /\ Cardinality(Embedders) \in Nat
         /\ Cardinality(Waits)' = IF Waiting(r) THEN Cardinality(Waits) + 1 ELSE Cardinality(Waits)
         /\ Cardinality(Holds)' = Cardinality(Holds)
         /\ Cardinality(Embedders)' = IF Embeds(r) THEN Cardinality(Embedders) + 1 ELSE Cardinality(Embedders)
<1>1. Types /\ AsksPart
  BY DEF LookupInv
<1>2. /\ ask[a].pc = "idle" /\ asked < MaxAsks /\ ask' = [ask EXCEPT ![a] = r] /\ asked' = asked + 1
      /\ UNCHANGED <<tiers, clock, sem, dims, faults, paid, declined, added>>
  BY DEF Begins, Unasked
<1>3. ~Waiting(ask[a]) /\ ~Holding(ask[a]) /\ ~Embeds(ask[a])
  BY <1>2 DEF Waiting, Holding, Embeds
<1>4. /\ Cardinality(Waits) \in Nat /\ Cardinality(Holds) \in Nat /\ Cardinality(Embedders) \in Nat
      /\ Cardinality(Waits)' = IF Waiting(r) THEN Cardinality(Waits) + 1 ELSE Cardinality(Waits)
      /\ Cardinality(Holds)' = Cardinality(Holds)
      /\ Cardinality(Embedders)' = IF Embeds(r) THEN Cardinality(Embedders) + 1 ELSE Cardinality(Embedders)
  <2> HIDE DEF Request, AskInv, Waiting, Holding, Embeds
  <2> QED BY <1>1, <1>2, <1>3, AskSet
<1>5. asked' \in 0..MaxAsks
  <2>1. asked \in 0..MaxAsks /\ MaxAsks \in Nat
    BY <1>1, LookupAssumption DEF Types
  <2> QED BY <1>2, <2>1
<1>6. faults' \in Nat /\ paid' \in Nat /\ declined' \in Nat /\ added' \in Nat
  BY <1>2, NumberFacts
<1>7. Types' /\ AsksPart' /\ SemPart' /\ Cardinality(Held)' = Cardinality(Held) /\ (Enabled' <=> Enabled)
  BY <1>2, <1>5, <1>6, Moved
<1> QED BY <1>2, <1>4, <1>7

\* Every request is counted once: it was disabled, refused, served or missed.
LEMMA DisabledStep ==
  ASSUME LookupInv, NEW a \in Asks, NEW c \in DOMAIN Callers, Disabled(a, c)
  PROVE  LookupInv'
<1> DEFINE r == Asking(c, "calling", FALSE, 0)
<1>1. ~Enabled /\ Begins(a, r) /\ UNCHANGED <<exact, silent, events>> /\ c \in Nat
  BY CallerFacts DEF Disabled
<1>2. r \in Request /\ r.pc = "calling" /\ r.who = c /\ ~r.eligible
  BY <1>1, UnacceptedFacts
<1> HIDE DEF r
<1>3. AskInv(r) /\ ~Waiting(r) /\ ~Holding(r) /\ ~Embeds(r)
  BY <1>2 DEF AskInv, Waiting, Holding, Embeds
<1>4. exact' \in SUBSET Entry /\ events' \in [Event -> Nat] /\ silent' \in Nat /\ ExactPart
  BY <1>1 DEF LookupInv, Types
<1>5. /\ Types' /\ AsksPart' /\ SemPart' /\ Cardinality(Held)' = Cardinality(Held)
      /\ UNCHANGED <<paid, declined, added>> /\ (Enabled' <=> Enabled)
      /\ Cardinality(Waits)' = Cardinality(Waits) /\ Cardinality(Holds)' = Cardinality(Holds)
      /\ Cardinality(Embedders)' = Cardinality(Embedders)
  BY <1>1, <1>2, <1>3, <1>4, Arrival
<1>6. ExactPart' /\ Cardinality(exact)' = Cardinality(exact)
  BY <1>1, <1>4, ExactKept
<1>7. CountPart'
  BY <1>1, <1>5, <1>6 DEF LookupInv, CountPart
<1> QED BY <1>5, <1>6, <1>7 DEF LookupInv

LEMMA RefusedStep ==
  ASSUME LookupInv, NEW a \in Asks, NEW c \in DOMAIN Callers, Refused(a, c)
  PROVE  LookupInv'
<1> DEFINE r == Asking(c, "calling", FALSE, 0)
<1>1. Begins(a, r) /\ emit("ineligible") /\ c \in Nat /\ UNCHANGED <<exact, silent>>
  BY CallerFacts DEF Refused
<1>2. r \in Request /\ r.pc = "calling" /\ r.who = c /\ ~r.eligible
  BY <1>1, UnacceptedFacts
<1> HIDE DEF r
<1>3. AskInv(r) /\ ~Waiting(r) /\ ~Holding(r) /\ ~Embeds(r)
  BY <1>2 DEF AskInv, Waiting, Holding, Embeds
<1>e. /\ events' \in [Event -> Nat] /\ events'["ineligible"] = events["ineligible"] + 1
      /\ \A d \in Event : d # "ineligible" => events'[d] = events[d]
  BY <1>1, EmitFacts DEF LookupInv, Event
<1>v. /\ events'["exact_hit"] = events["exact_hit"] /\ events'["semantic_hit"] = events["semantic_hit"]
      /\ events'["miss"] = events["miss"] /\ events'["ineligible"] = events["ineligible"] + 1
      /\ events'["stored"] = events["stored"] /\ events'["evicted"] = events["evicted"]
      /\ events'["embed_failed"] = events["embed_failed"]
  BY <1>e, EventNames
<1>s. silent' = silent
  BY <1>1
<1>4. exact' \in SUBSET Entry /\ silent' \in Nat /\ ExactPart
  BY <1>1 DEF LookupInv, Types
<1>5. /\ Types' /\ AsksPart' /\ SemPart' /\ Cardinality(Held)' = Cardinality(Held) /\ asked' = asked + 1
      /\ UNCHANGED <<paid, declined, added>> /\ (Enabled' <=> Enabled)
      /\ Cardinality(Waits)' = Cardinality(Waits) /\ Cardinality(Holds)' = Cardinality(Holds)
      /\ Cardinality(Embedders)' = Cardinality(Embedders)
  BY <1>1, <1>2, <1>3, <1>4, <1>e, Arrival
<1>6. ExactPart' /\ Cardinality(exact)' = Cardinality(exact)
  BY <1>1, <1>4, ExactKept
<1>7. CountPart'
  <2>0. CountPart
    BY DEF LookupInv
  <2>n. /\ events["exact_hit"] \in Nat /\ events["semantic_hit"] \in Nat /\ events["miss"] \in Nat
        /\ events["ineligible"] \in Nat /\ events["stored"] \in Nat /\ events["evicted"] \in Nat
        /\ events["embed_failed"] \in Nat
        /\ asked \in Nat /\ paid \in Nat /\ declined \in Nat /\ added \in Nat /\ silent \in Nat
        /\ Cardinality(exact) \in Nat /\ Cardinality(Held) \in Int
    BY NumberFacts, SizeFacts
  <2>1. Enabled' => (events["exact_hit"] + events["miss"] + events["ineligible"] = asked)'
    <3>1. Enabled => events["exact_hit"] + events["miss"] + events["ineligible"] = asked
      BY <2>0 DEF CountPart
    <3> QED BY <3>1, <2>n, <1>s, <1>v, <1>5, <1>6
  <2>2. (events["miss"] + declined = events["semantic_hit"] + paid + Cardinality(Waits))'
    <3>1. events["miss"] + declined = events["semantic_hit"] + paid + Cardinality(Waits)
      BY <2>0 DEF CountPart
    <3> QED BY <3>1, <2>n, <1>s, <1>v, <1>5, <1>6
  <2>3. (events["stored"] + Cardinality(Holds) <= paid)'
    <3>1. events["stored"] + Cardinality(Holds) <= paid
      BY <2>0 DEF CountPart
    <3> QED BY <3>1, <2>n, <1>s, <1>v, <1>5, <1>6
  <2>4. (events["embed_failed"] + events["semantic_hit"] + added + Cardinality(Embedders)
           <= events["miss"] + events["stored"])'
    <3>1. events["embed_failed"] + events["semantic_hit"] + added + Cardinality(Embedders)
              <= events["miss"] + events["stored"]
      BY <2>0 DEF CountPart
    <3> QED BY <3>1, <2>n, <1>s, <1>v, <1>5, <1>6
  <2>5. (events["stored"] + added = events["evicted"] + silent + Cardinality(exact) + Cardinality(Held))'
    <3>1. events["stored"] + added = events["evicted"] + silent + Cardinality(exact) + Cardinality(Held)
      BY <2>0 DEF CountPart
    <3> QED BY <3>1, <2>n, <1>s, <1>v, <1>5, <1>6
  <2> QED BY <2>1, <2>2, <2>3, <2>4, <2>5 DEF CountPart
<1> QED BY <1>5, <1>6, <1>7 DEF LookupInv

LEMMA ExactHitStep ==
  ASSUME LookupInv, NEW a \in Asks, NEW c \in DOMAIN Callers, ExactHit(a, c)
  PROVE  LookupInv'
<1>0. PICK x \in exact : Key[x.by] = Key[c] /\ Begins(a, Asking(c, "served", TRUE, x.by))
  BY DEF ExactHit, Under
<1> DEFINE r == Asking(c, "served", TRUE, x.by)
<1>1. Begins(a, r) /\ emit("exact_hit") /\ Refusal[c] = "" /\ UNCHANGED <<exact, silent>>
  BY <1>0 DEF ExactHit, Cacheable
<1>x. x.by \in DOMAIN Callers /\ Refusal[x.by] = ""
  BY DEF LookupInv, Types, ExactPart, Entry
<1>n. c \in Nat /\ x.by \in Nat
  BY <1>x, CallerFacts
<1>2. r \in Request /\ r.pc = "served" /\ r.who = c /\ r.eligible /\ r.entry = x.by
  BY <1>n DEF Asking, Request, NoVector, Vector, toUsage
<1> HIDE DEF r
<1>3. AskInv(r) /\ ~Waiting(r) /\ ~Holding(r) /\ ~Embeds(r)
  BY <1>0, <1>1, <1>2, <1>x DEF AskInv, Waiting, Holding, Embeds
<1>e. /\ events' \in [Event -> Nat] /\ events'["exact_hit"] = events["exact_hit"] + 1
      /\ \A d \in Event : d # "exact_hit" => events'[d] = events[d]
  BY <1>1, EmitFacts DEF LookupInv, Event
<1>v. /\ events'["exact_hit"] = events["exact_hit"] + 1 /\ events'["semantic_hit"] = events["semantic_hit"]
      /\ events'["miss"] = events["miss"] /\ events'["ineligible"] = events["ineligible"]
      /\ events'["stored"] = events["stored"] /\ events'["evicted"] = events["evicted"]
      /\ events'["embed_failed"] = events["embed_failed"]
  BY <1>e, EventNames
<1>s. silent' = silent
  BY <1>1
<1>4. exact' \in SUBSET Entry /\ silent' \in Nat /\ ExactPart
  BY <1>1 DEF LookupInv, Types
<1>5. /\ Types' /\ AsksPart' /\ SemPart' /\ Cardinality(Held)' = Cardinality(Held) /\ asked' = asked + 1
      /\ UNCHANGED <<paid, declined, added>> /\ (Enabled' <=> Enabled)
      /\ Cardinality(Waits)' = Cardinality(Waits) /\ Cardinality(Holds)' = Cardinality(Holds)
      /\ Cardinality(Embedders)' = Cardinality(Embedders)
  BY <1>1, <1>2, <1>3, <1>4, <1>e, Arrival
<1>6. ExactPart' /\ Cardinality(exact)' = Cardinality(exact)
  BY <1>1, <1>4, ExactKept
<1>7. CountPart'
  <2>0. CountPart
    BY DEF LookupInv
  <2>n. /\ events["exact_hit"] \in Nat /\ events["semantic_hit"] \in Nat /\ events["miss"] \in Nat
        /\ events["ineligible"] \in Nat /\ events["stored"] \in Nat /\ events["evicted"] \in Nat
        /\ events["embed_failed"] \in Nat
        /\ asked \in Nat /\ paid \in Nat /\ declined \in Nat /\ added \in Nat /\ silent \in Nat
        /\ Cardinality(exact) \in Nat /\ Cardinality(Held) \in Int
    BY NumberFacts, SizeFacts
  <2>1. Enabled' => (events["exact_hit"] + events["miss"] + events["ineligible"] = asked)'
    <3>1. Enabled => events["exact_hit"] + events["miss"] + events["ineligible"] = asked
      BY <2>0 DEF CountPart
    <3> QED BY <3>1, <2>n, <1>s, <1>v, <1>5, <1>6
  <2>2. (events["miss"] + declined = events["semantic_hit"] + paid + Cardinality(Waits))'
    <3>1. events["miss"] + declined = events["semantic_hit"] + paid + Cardinality(Waits)
      BY <2>0 DEF CountPart
    <3> QED BY <3>1, <2>n, <1>s, <1>v, <1>5, <1>6
  <2>3. (events["stored"] + Cardinality(Holds) <= paid)'
    <3>1. events["stored"] + Cardinality(Holds) <= paid
      BY <2>0 DEF CountPart
    <3> QED BY <3>1, <2>n, <1>s, <1>v, <1>5, <1>6
  <2>4. (events["embed_failed"] + events["semantic_hit"] + added + Cardinality(Embedders)
           <= events["miss"] + events["stored"])'
    <3>1. events["embed_failed"] + events["semantic_hit"] + added + Cardinality(Embedders)
              <= events["miss"] + events["stored"]
      BY <2>0 DEF CountPart
    <3> QED BY <3>1, <2>n, <1>s, <1>v, <1>5, <1>6
  <2>5. (events["stored"] + added = events["evicted"] + silent + Cardinality(exact) + Cardinality(Held))'
    <3>1. events["stored"] + added = events["evicted"] + silent + Cardinality(exact) + Cardinality(Held)
      BY <2>0 DEF CountPart
    <3> QED BY <3>1, <2>n, <1>s, <1>v, <1>5, <1>6
  <2> QED BY <2>1, <2>2, <2>3, <2>4, <2>5 DEF CountPart
<1> QED BY <1>5, <1>6, <1>7 DEF LookupInv

\* What lies under a key, and the rest of the exact tier.
LEMMA UnderFacts ==
  ASSUME LookupInv, NEW c
  PROVE  /\ Under(c) \subseteq exact /\ IsFiniteSet(Under(c)) /\ Cardinality(Under(c)) \in Nat
         /\ IsFiniteSet(exact \ Under(c)) /\ Cardinality(exact \ Under(c)) \in Nat
         /\ Cardinality(exact \ Under(c)) = Cardinality(exact) - Cardinality(Under(c))
         /\ Cardinality(exact) \in Nat
<1>1. IsFiniteSet(exact) /\ Under(c) \subseteq exact
  BY DEF LookupInv, ExactPart, Under
<1>2. IsFiniteSet(Under(c))
  BY <1>1, FS_Subset
<1>3. /\ IsFiniteSet(exact \ Under(c))
      /\ Cardinality(exact \ Under(c)) = Cardinality(exact) - Cardinality(exact \cap Under(c))
  BY <1>1, FS_Difference
<1>4. exact \cap Under(c) = Under(c)
  BY <1>1
<1> QED BY <1>1, <1>2, <1>3, <1>4, FS_CardinalityType

LEMMA ExactMissStep ==
  ASSUME LookupInv, NEW a \in Asks, NEW c \in DOMAIN Callers, ExactMiss(a, c)
  PROVE  LookupInv'
<1> DEFINE pc == IF Comparable(c) THEN "embedding" ELSE "calling"
           r == Asking(c, pc, TRUE, 0)
<1>1. /\ Begins(a, r) /\ emit("miss") /\ Refusal[c] = "" /\ c \in Nat
      /\ exact' = exact \ Under(c) /\ silent' = silent + Cardinality(Under(c))
  BY CallerFacts DEF ExactMiss, Missed, Cacheable
<1>n. c \in Nat
  BY <1>1
<1>2. pc \in {"embedding", "calling"}
  OBVIOUS
<1> HIDE DEF pc
<1>3. r \in Request /\ r.pc = pc /\ r.who = c /\ r.eligible
  BY <1>n, <1>2 DEF Asking, Request, NoVector, Vector, toUsage
<1> HIDE DEF r
<1>4. AskInv(r) /\ Waiting(r) /\ ~Holding(r)
  BY <1>1, <1>2, <1>3 DEF AskInv, Waiting, Holding
<1>u. /\ Under(c) \subseteq exact /\ Cardinality(Under(c)) \in Nat /\ IsFiniteSet(exact \ Under(c))
      /\ Cardinality(exact)' = Cardinality(exact) - Cardinality(Under(c)) /\ Cardinality(exact) \in Nat
  BY <1>1, UnderFacts
<1>s. silent' = silent + Cardinality(Under(c)) /\ exact' = exact \ Under(c)
  BY <1>1
<1>x. exact' \in SUBSET Entry /\ silent' \in Nat
  <2>1. exact \in SUBSET Entry /\ silent \in Nat
    BY DEF LookupInv, Types
  <2> QED BY <1>s, <1>u, <2>1
<1>p. ExactPart'
  <2>1. IsFiniteSet(exact') /\ \A x \in exact' : x \in exact
    BY <1>1, <1>u
  <2>2. Cardinality(exact)' <= maxEntries
    <3>1. Cardinality(exact) <= maxEntries
      BY DEF LookupInv, ExactPart
    <3> QED BY <3>1, <1>u, BoundFacts
  <2> QED BY <2>1, <2>2 DEF LookupInv, ExactPart
<1>e. /\ events' \in [Event -> Nat] /\ events'["miss"] = events["miss"] + 1
      /\ \A d \in Event : d # "miss" => events'[d] = events[d]
  BY <1>1, EmitFacts DEF LookupInv, Event
<1>v. /\ events'["exact_hit"] = events["exact_hit"] /\ events'["semantic_hit"] = events["semantic_hit"]
      /\ events'["miss"] = events["miss"] + 1 /\ events'["ineligible"] = events["ineligible"]
      /\ events'["stored"] = events["stored"] /\ events'["evicted"] = events["evicted"]
      /\ events'["embed_failed"] = events["embed_failed"]
  BY <1>e, EventNames
<1>6. /\ Types' /\ AsksPart' /\ SemPart' /\ Cardinality(Held)' = Cardinality(Held) /\ asked' = asked + 1
      /\ UNCHANGED <<paid, declined, added>> /\ (Enabled' <=> Enabled) /\ Cardinality(Waits) \in Nat
      /\ Cardinality(Waits)' = Cardinality(Waits) + 1 /\ Cardinality(Holds)' = Cardinality(Holds)
      /\ Cardinality(Embedders) \in Nat
      /\ Cardinality(Embedders)' \in {Cardinality(Embedders), Cardinality(Embedders) + 1}
  <2> HIDE DEF Embeds, Waiting, Holding
  <2> QED BY <1>1, <1>3, <1>4, <1>e, <1>x, Arrival
<1>7. CountPart'
  <2>0. CountPart
    BY DEF LookupInv
  <2>n. /\ events["exact_hit"] \in Nat /\ events["semantic_hit"] \in Nat /\ events["miss"] \in Nat
        /\ events["ineligible"] \in Nat /\ events["stored"] \in Nat /\ events["evicted"] \in Nat
        /\ events["embed_failed"] \in Nat
        /\ asked \in Nat /\ paid \in Nat /\ declined \in Nat /\ added \in Nat /\ silent \in Nat
        /\ Cardinality(exact) \in Nat /\ Cardinality(Held) \in Int
    BY NumberFacts, SizeFacts
  <2>1. Enabled' => (events["exact_hit"] + events["miss"] + events["ineligible"] = asked)'
    <3>1. Enabled => events["exact_hit"] + events["miss"] + events["ineligible"] = asked
      BY <2>0 DEF CountPart
    <3> QED BY <3>1, <2>n, <1>s, <1>u, <1>v, <1>6
  <2>2. (events["miss"] + declined = events["semantic_hit"] + paid + Cardinality(Waits))'
    <3>1. events["miss"] + declined = events["semantic_hit"] + paid + Cardinality(Waits)
      BY <2>0 DEF CountPart
    <3> QED BY <3>1, <2>n, <1>s, <1>u, <1>v, <1>6
  <2>3. (events["stored"] + Cardinality(Holds) <= paid)'
    <3>1. events["stored"] + Cardinality(Holds) <= paid
      BY <2>0 DEF CountPart
    <3> QED BY <3>1, <2>n, <1>s, <1>u, <1>v, <1>6
  <2>4. (events["embed_failed"] + events["semantic_hit"] + added + Cardinality(Embedders)
           <= events["miss"] + events["stored"])'
    <3>1. events["embed_failed"] + events["semantic_hit"] + added + Cardinality(Embedders)
              <= events["miss"] + events["stored"]
      BY <2>0 DEF CountPart
    <3> QED BY <3>1, <2>n, <1>s, <1>u, <1>v, <1>6
  <2>5. (events["stored"] + added = events["evicted"] + silent + Cardinality(exact) + Cardinality(Held))'
    <3>1. events["stored"] + added = events["evicted"] + silent + Cardinality(exact) + Cardinality(Held)
      BY <2>0 DEF CountPart
    <3> QED BY <3>1, <2>n, <1>s, <1>u, <1>v, <1>6
  <2> QED BY <2>1, <2>2, <2>3, <2>4, <2>5 DEF CountPart
<1> QED BY <1>6, <1>7, <1>p DEF LookupInv

\* A request moves on, and the step leaves both tiers alone.
LEMMA StepKept ==
  ASSUME LookupInv, NEW a \in Asks, NEW q \in Request, AskInv(q), Step(a, q),
         UNCHANGED <<exact, sem, dims, silent, added>>, events' \in [Event -> Nat], faults' \in Nat,
         paid' \in Nat, declined' \in Nat
  PROVE  /\ Types' /\ AsksPart' /\ ExactPart' /\ SemPart'
         /\ Cardinality(exact)' = Cardinality(exact) /\ Cardinality(Held)' = Cardinality(Held)
         /\ asked' = asked /\ (Enabled' <=> Enabled) /\ ask' = [ask EXCEPT ![a] = q]
<1>1. ask' = [ask EXCEPT ![a] = q] /\ UNCHANGED <<tiers, clock, asked>>
  BY DEF Step
<1>2. exact' \in SUBSET Entry /\ asked' \in 0..MaxAsks /\ added' \in Nat /\ silent' \in Nat /\ ExactPart
  BY <1>1 DEF LookupInv, Types
<1>3. Types' /\ AsksPart' /\ SemPart' /\ Cardinality(Held)' = Cardinality(Held) /\ (Enabled' <=> Enabled)
  BY <1>1, <1>2, Moved
<1>4. ExactPart' /\ Cardinality(exact)' = Cardinality(exact)
  BY <1>2, ExactKept
<1> QED BY <1>1, <1>3, <1>4

\* A step of a request that counts nothing, or a failed embedding.
LEMMA Uncounted ==
  ASSUME LookupInv, NEW a \in Asks, NEW q \in Request, AskInv(q), Step(a, q),
         UNCHANGED <<exact, sem, dims, paid, declined, added, silent>>,
         events' \in [Event -> Nat], faults' \in Nat,
         \A e \in Event \ {"embed_failed"} : events'[e] = events[e],
         Waiting(q) <=> Waiting(ask[a]), ~Holding(q),
         \/ events' = events /\ (Embeds(q) => Embeds(ask[a]))
         \/ events'["embed_failed"] = events["embed_failed"] + 1 /\ ~Embeds(q) /\ Embeds(ask[a])
  PROVE  LookupInv'
<1>1. Types /\ AsksPart /\ paid' \in Nat /\ declined' \in Nat
  BY DEF LookupInv, Types
<1>2. /\ Types' /\ AsksPart' /\ ExactPart' /\ SemPart'
      /\ Cardinality(exact)' = Cardinality(exact) /\ Cardinality(Held)' = Cardinality(Held)
      /\ asked' = asked /\ (Enabled' <=> Enabled) /\ ask' = [ask EXCEPT ![a] = q]
  BY <1>1, StepKept
<1> HIDE DEF Waiting, Holding, Embeds, Request, AskInv
<1>3. /\ Cardinality(Waits)' = Cardinality(Waits)
      /\ Cardinality(Holds) \in Nat /\ Cardinality(Holds)' \in Nat
      /\ Cardinality(Holds)' <= Cardinality(Holds)
  <2>1. /\ Cardinality(Waits)' = Cardinality(Waits)
        /\ Cardinality(Holds) \in Nat /\ Cardinality(Holds)' \in Nat
        /\ Cardinality(Holds)' \in {Cardinality(Holds), Cardinality(Holds) - 1}
    BY <1>1, <1>2, AskSet
  <2> QED BY <2>1
<1>4. /\ Cardinality(Embedders) \in Nat /\ Cardinality(Embedders)' \in Nat
      /\ (Embeds(q) <=> Embeds(ask[a])) => Cardinality(Embedders)' = Cardinality(Embedders)
      /\ ~Embeds(q) /\ Embeds(ask[a]) => Cardinality(Embedders)' = Cardinality(Embedders) - 1
  BY <1>1, <1>2, AskSet
<1>5. events["embed_failed"] \in Nat
  BY NumberFacts
<1>6. events'["embed_failed"] + Cardinality(Embedders)'
         <= events["embed_failed"] + Cardinality(Embedders)
  BY <1>4, <1>5
<1>7. CountPart'
  BY <1>2, <1>3, <1>4, <1>6, CountsKept
<1> QED BY <1>2, <1>7 DEF LookupInv

\* A request that goes on to its call.
LEMMA CallingFacts ==
  ASSUME NEW q \in Request
  PROVE  /\ [q EXCEPT !.pc = "calling"] \in Request
         /\ [q EXCEPT !.pc = "calling"].pc = "calling"
         /\ [q EXCEPT !.pc = "calling"].who = q.who
         /\ [q EXCEPT !.pc = "calling"].eligible = q.eligible
BY DEF Request

LEMMA EmbedStep ==
  ASSUME LookupInv, NEW a \in Asks, Embed(a)
  PROVE  LookupInv'
<1>1. /\ ask[a].pc \in {"embedding", "putting"}
      /\ UNCHANGED <<exact, sem, dims, paid, declined, added, silent>>
  BY DEF Embed
<1>2. PICK reply \in {Width} \cup (IF faults < MaxFaults THEN Replies ELSE {}) :
          /\ faults' = IF reply = Width THEN faults ELSE faults + 1
          /\ IF decode(reply)
             THEN /\ Step(a, [ask[a] EXCEPT !.pc = IF @ = "embedding" THEN "nearest" ELSE "adding",
                                 !.vector = [of |-> ask[a].who, width |-> reply],
                                 !.now = clock])
                  /\ UNCHANGED events
             ELSE /\ Step(a, IF ask[a].pc = "embedding" THEN [ask[a] EXCEPT !.pc = "calling"] ELSE Idle)
                  /\ emit("embed_failed")
  BY DEF Embed
<1>3. reply \in Nat /\ faults' \in Nat /\ events \in [Event -> Nat]
  <2>1. faults \in Nat /\ events \in [Event -> Nat]
    BY NumberFacts
  <2>2. reply \in Nat
    BY <1>2, LookupAssumption
  <2> QED BY <1>2, <2>1, <2>2
<1>4. /\ ask[a] \in Request /\ AskInv(ask[a]) /\ ask[a].who \in Nat /\ clock \in Nat
  BY AskFacts
<1>6. CASE decode(reply)
  <2> DEFINE pc == IF ask[a].pc = "embedding" THEN "nearest" ELSE "adding"
             v == [of |-> ask[a].who, width |-> reply]
             q == [ask[a] EXCEPT !.pc = pc, !.vector = v, !.now = clock]
  <2>1. Step(a, q) /\ events' = events
    BY <1>2, <1>6
  <2>2. pc \in {"nearest", "adding"} /\ v \in Vector /\ v.of = ask[a].who /\ v.width > 0
    BY <1>3, <1>4, <1>6 DEF Vector, decode
  <2>3. /\ q \in Request /\ q.pc = pc /\ q.who = ask[a].who /\ q.vector = v
        /\ q.eligible = ask[a].eligible
    <3> HIDE DEF pc, v
    <3> QED BY <1>4, <2>2 DEF Request
  <2>4. pc = "nearest" <=> ask[a].pc = "embedding"
    BY <1>1
  <2> HIDE DEF pc, v, q
  <2>5. AskInv(q)
    BY <1>1, <1>4, <2>2, <2>3, <2>4 DEF AskInv
  <2>6. (Waiting(q) <=> Waiting(ask[a])) /\ ~Holding(q) /\ Embeds(ask[a])
    BY <1>1, <2>2, <2>3, <2>4 DEF Waiting, Holding, Embeds
  <2> HIDE DEF Waiting, Holding, Embeds
  <2> QED BY <1>1, <1>3, <2>1, <2>3, <2>5, <2>6, Uncounted
<1>7. CASE ~decode(reply)
  <2>0. emit("embed_failed") /\ "embed_failed" \in Event
    BY <1>2, <1>7 DEF Event
  <2>1. /\ events' \in [Event -> Nat] /\ events'["embed_failed"] = events["embed_failed"] + 1
        /\ \A e \in Event \ {"embed_failed"} : events'[e] = events[e]
    BY <2>0, EmitFacts DEF LookupInv
  <2>2. Embeds(ask[a])
    BY <1>1 DEF Embeds
  <2>3. CASE ask[a].pc = "embedding"
    <3> DEFINE q == [ask[a] EXCEPT !.pc = "calling"]
    <3>1. Step(a, q)
      BY <1>2, <1>7, <2>3
    <3>2. q \in Request /\ q.pc = "calling" /\ q.who = ask[a].who /\ q.eligible = ask[a].eligible
      BY <1>4, CallingFacts
    <3> HIDE DEF q
    <3>3. AskInv(q)
      BY <1>4, <2>3, <3>2 DEF AskInv
    <3>4. (Waiting(q) <=> Waiting(ask[a])) /\ ~Holding(q) /\ ~Embeds(q)
      BY <2>3, <3>2 DEF Waiting, Holding, Embeds
    <3> HIDE DEF Waiting, Holding, Embeds
    <3> QED BY <1>1, <1>3, <2>1, <2>2, <3>1, <3>2, <3>3, <3>4, Uncounted
  <2>4. CASE ask[a].pc = "putting"
    <3>1. Step(a, Idle)
      BY <1>2, <1>7, <2>4
    <3>2. ~Waiting(ask[a])
      BY <2>4 DEF Waiting
    <3> HIDE DEF Waiting, Holding, Embeds
    <3> QED BY <1>1, <1>3, <2>1, <2>2, <3>1, <3>2, IdleFacts, Uncounted
  <2> QED BY <1>1, <2>3, <2>4
<1> QED BY <1>6, <1>7

\* A request that leaves with what it was served, or with an answer that is not stored.
LEMMA LeaveStep ==
  ASSUME LookupInv, NEW a \in Asks, Return(a) \/ NotPut(a)
  PROVE  LookupInv'
<1>1. /\ ask[a].pc \in {"answered", "served"} /\ Step(a, Idle)
      /\ UNCHANGED <<exact, sem, dims, events, faults, paid, declined, added, silent>>
  BY DEF Return, NotPut
<1>2. ~Waiting(ask[a])
  BY <1>1 DEF Waiting
<1>3. events' \in [Event -> Nat] /\ faults' \in Nat /\ \A e \in Event \ {"embed_failed"} : events'[e] = events[e]
  BY <1>1, NumberFacts
<1> HIDE DEF Waiting, Holding, Embeds
<1> QED BY <1>1, <1>2, <1>3, IdleFacts, Uncounted

\* A hit that cannot be served goes on as a miss does.
LEMMA DeclineStep ==
  ASSUME LookupInv, NEW a \in Asks, Decline(a)
  PROVE  LookupInv'
<1> DEFINE c == ask[a].who
           q == Asking(c, "calling", TRUE, 0)
<1>1. /\ ask[a].pc = "served" /\ Step(a, q) /\ declined' = declined + 1
      /\ UNCHANGED <<exact, sem, dims, events, faults, paid, added, silent>>
  BY DEF Decline
<1>2. c \in Nat /\ c \in DOMAIN Callers /\ Refusal[c] = ""
  <2>1. AskInv(ask[a]) /\ c \in Nat
    BY AskFacts
  <2> QED BY <1>1, <2>1 DEF AskInv
<1>n. c \in Nat
  BY <1>2
<1> HIDE DEF c
<1>3. q \in Request /\ q.pc = "calling" /\ q.who = c /\ q.eligible
  BY <1>n DEF Asking, Request, NoVector, Vector, toUsage
<1> HIDE DEF q
<1>4. /\ AskInv(q) /\ Waiting(q) /\ ~Holding(q) /\ ~Embeds(q)
      /\ ~Waiting(ask[a]) /\ ~Holding(ask[a]) /\ ~Embeds(ask[a])
  BY <1>1, <1>2, <1>3 DEF AskInv, Waiting, Holding, Embeds
<1>s. /\ declined' = declined + 1 /\ paid' = paid /\ added' = added /\ silent' = silent /\ events' = events
  BY <1>1
<1>5. Types /\ AsksPart /\ events' \in [Event -> Nat] /\ faults' \in Nat /\ paid' \in Nat /\ declined' \in Nat
  BY <1>1, NumberFacts DEF LookupInv
<1>6. /\ Types' /\ AsksPart' /\ ExactPart' /\ SemPart'
      /\ Cardinality(exact)' = Cardinality(exact) /\ Cardinality(Held)' = Cardinality(Held)
      /\ asked' = asked /\ (Enabled' <=> Enabled) /\ ask' = [ask EXCEPT ![a] = q]
  BY <1>1, <1>3, <1>4, <1>5, StepKept
<1> HIDE DEF Waiting, Holding, Embeds, Request, AskInv
<1>7. /\ Cardinality(Waits) \in Nat /\ Cardinality(Waits)' = Cardinality(Waits) + 1
      /\ Cardinality(Holds)' = Cardinality(Holds) /\ Cardinality(Embedders)' = Cardinality(Embedders)
  BY <1>3, <1>4, <1>5, <1>6, AskSet
<1>8. CountPart'
  <2>0. CountPart
    BY DEF LookupInv
  <2>n. /\ events["exact_hit"] \in Nat /\ events["semantic_hit"] \in Nat /\ events["miss"] \in Nat
        /\ events["ineligible"] \in Nat /\ events["stored"] \in Nat /\ events["evicted"] \in Nat
        /\ events["embed_failed"] \in Nat
        /\ asked \in Nat /\ paid \in Nat /\ declined \in Nat /\ added \in Nat /\ silent \in Nat
        /\ Cardinality(exact) \in Nat /\ Cardinality(Held) \in Int
    BY NumberFacts, SizeFacts
  <2>1. Enabled' => (events["exact_hit"] + events["miss"] + events["ineligible"] = asked)'
    <3>1. Enabled => events["exact_hit"] + events["miss"] + events["ineligible"] = asked
      BY <2>0 DEF CountPart
    <3> QED BY <3>1, <2>n, <1>s, <1>6, <1>7
  <2>2. (events["miss"] + declined = events["semantic_hit"] + paid + Cardinality(Waits))'
    <3>1. events["miss"] + declined = events["semantic_hit"] + paid + Cardinality(Waits)
      BY <2>0 DEF CountPart
    <3> QED BY <3>1, <2>n, <1>s, <1>6, <1>7
  <2>3. (events["stored"] + Cardinality(Holds) <= paid)'
    <3>1. events["stored"] + Cardinality(Holds) <= paid
      BY <2>0 DEF CountPart
    <3> QED BY <3>1, <2>n, <1>s, <1>6, <1>7
  <2>4. (events["embed_failed"] + events["semantic_hit"] + added + Cardinality(Embedders)
           <= events["miss"] + events["stored"])'
    <3>1. events["embed_failed"] + events["semantic_hit"] + added + Cardinality(Embedders)
              <= events["miss"] + events["stored"]
      BY <2>0 DEF CountPart
    <3> QED BY <3>1, <2>n, <1>s, <1>6, <1>7
  <2>5. (events["stored"] + added = events["evicted"] + silent + Cardinality(exact) + Cardinality(Held))'
    <3>1. events["stored"] + added = events["evicted"] + silent + Cardinality(exact) + Cardinality(Held)
      BY <2>0 DEF CountPart
    <3> QED BY <3>1, <2>n, <1>s, <1>6, <1>7
  <2> QED BY <2>1, <2>2, <2>3, <2>4, <2>5 DEF CountPart
<1> QED BY <1>6, <1>8 DEF LookupInv

\* A request that has its upstream call, answered or not, has been paid for.
LEMMA PaidStep ==
  ASSUME LookupInv, NEW a \in Asks, ask[a].pc = "calling", NEW q \in Request, AskInv(q),
         ~Waiting(q), ~Embeds(q), Holding(q) => ask[a].eligible,
         Step(a, q), UNCHANGED <<exact, sem, dims, events, faults, declined, added, silent>>,
         paid' = paid + (IF ask[a].eligible THEN 1 ELSE 0)
  PROVE  LookupInv'
<1>1. (Waiting(ask[a]) <=> ask[a].eligible) /\ ~Holding(ask[a]) /\ ~Embeds(ask[a])
  BY DEF Waiting, Holding, Embeds
<1>2. Types /\ AsksPart /\ events' \in [Event -> Nat] /\ faults' \in Nat /\ paid \in Nat /\ declined' \in Nat
  BY NumberFacts DEF LookupInv
<1>3. paid' \in Nat
  BY <1>2
<1>4. /\ Types' /\ AsksPart' /\ ExactPart' /\ SemPart'
      /\ Cardinality(exact)' = Cardinality(exact) /\ Cardinality(Held)' = Cardinality(Held)
      /\ asked' = asked /\ (Enabled' <=> Enabled) /\ ask' = [ask EXCEPT ![a] = q]
  BY <1>2, <1>3, StepKept
<1> HIDE DEF Waiting, Holding, Embeds, Request, AskInv
<1>5. /\ Cardinality(Waits) \in Nat /\ Cardinality(Waits)' \in Nat
      /\ Cardinality(Holds) \in Nat /\ Cardinality(Holds)' \in Nat
      /\ Cardinality(Embedders)' = Cardinality(Embedders)
      /\ ask[a].eligible => Cardinality(Waits)' = Cardinality(Waits) - 1
      /\ ~ask[a].eligible => Cardinality(Waits)' = Cardinality(Waits)
      /\ Cardinality(Holds)' \in {Cardinality(Holds), Cardinality(Holds) + 1}
      /\ ~ask[a].eligible => Cardinality(Holds)' = Cardinality(Holds)
  BY <1>1, <1>2, <1>4, AskSet
<1>s. /\ declined' = declined /\ added' = added /\ silent' = silent /\ events' = events
      /\ paid' = IF ask[a].eligible THEN paid + 1 ELSE paid
  BY <1>2
<1>6. CountPart'
  <2>0. CountPart
    BY DEF LookupInv
  <2>n. /\ events["exact_hit"] \in Nat /\ events["semantic_hit"] \in Nat /\ events["miss"] \in Nat
        /\ events["ineligible"] \in Nat /\ events["stored"] \in Nat /\ events["evicted"] \in Nat
        /\ events["embed_failed"] \in Nat
        /\ asked \in Nat /\ paid \in Nat /\ declined \in Nat /\ added \in Nat /\ silent \in Nat
        /\ Cardinality(exact) \in Nat /\ Cardinality(Held) \in Int
    BY NumberFacts, SizeFacts
  <2>1. Enabled' => (events["exact_hit"] + events["miss"] + events["ineligible"] = asked)'
    <3>1. Enabled => events["exact_hit"] + events["miss"] + events["ineligible"] = asked
      BY <2>0 DEF CountPart
    <3> QED BY <3>1, <2>n, <1>s, <1>4, <1>5
  <2>2. (events["miss"] + declined = events["semantic_hit"] + paid + Cardinality(Waits))'
    <3>1. events["miss"] + declined = events["semantic_hit"] + paid + Cardinality(Waits)
      BY <2>0 DEF CountPart
    <3> QED BY <3>1, <2>n, <1>s, <1>4, <1>5
  <2>3. (events["stored"] + Cardinality(Holds) <= paid)'
    <3>1. events["stored"] + Cardinality(Holds) <= paid
      BY <2>0 DEF CountPart
    <3> QED BY <3>1, <2>n, <1>s, <1>4, <1>5
  <2>4. (events["embed_failed"] + events["semantic_hit"] + added + Cardinality(Embedders)
           <= events["miss"] + events["stored"])'
    <3>1. events["embed_failed"] + events["semantic_hit"] + added + Cardinality(Embedders)
              <= events["miss"] + events["stored"]
      BY <2>0 DEF CountPart
    <3> QED BY <3>1, <2>n, <1>s, <1>4, <1>5
  <2>5. (events["stored"] + added = events["evicted"] + silent + Cardinality(exact) + Cardinality(Held))'
    <3>1. events["stored"] + added = events["evicted"] + silent + Cardinality(exact) + Cardinality(Held)
      BY <2>0 DEF CountPart
    <3> QED BY <3>1, <2>n, <1>s, <1>4, <1>5
  <2> QED BY <2>1, <2>2, <2>3, <2>4, <2>5 DEF CountPart
<1> QED BY <1>4, <1>6 DEF LookupInv

LEMMA AnsweredStep ==
  ASSUME LookupInv, NEW a \in Asks, Answered(a)
  PROVE  LookupInv'
<1> DEFINE c == ask[a].who
           b == Of(c).body
           kind == Of(c).kind
<1>1. /\ ask[a].pc = "calling" /\ UNCHANGED <<exact, sem, dims, events, faults, declined, added, silent>>
      /\ paid' = paid + (IF ask[a].eligible THEN 1 ELSE 0)
  BY DEF Answered
<1>o. PICK output \in Produced(kind, b) : \E prompt \in PromptCounts :
         \E usage \in Billed(kind, prompt, output) :
            Step(a, [ask[a] EXCEPT !.pc = "answered", !.output = output, !.usage = usage])
  BY DEF Answered
<1>p. PICK prompt \in PromptCounts : \E usage \in Billed(kind, prompt, output) :
         Step(a, [ask[a] EXCEPT !.pc = "answered", !.output = output, !.usage = usage])
  BY <1>o
<1>2. PICK usage \in Billed(kind, prompt, output) :
         Step(a, [ask[a] EXCEPT !.pc = "answered", !.output = output, !.usage = usage])
  BY <1>p
<1>3. ask[a] \in Request /\ AskInv(ask[a])
  BY AskFacts
<1>4. c \in DOMAIN Callers
  BY <1>1, <1>3 DEF AskInv
<1>5. /\ output \in Int /\ usage \in [prompt: Int, completion: Int]
      /\ Covered(c, output, usage)
  <2> HIDE DEF c
  <2> QED BY <1>4, <1>2, BillCovered
<1> DEFINE q == [ask[a] EXCEPT !.pc = "answered", !.output = output, !.usage = usage]
<1>6. /\ q \in Request /\ q.pc = "answered" /\ q.who = c /\ q.output = output /\ q.usage = usage
      /\ q.eligible = ask[a].eligible
  BY <1>3, <1>5 DEF Request
<1>7. Step(a, q)
  BY <1>2
<1> HIDE DEF q
<1>8. AskInv(q)
  BY <1>3, <1>4, <1>5, <1>6 DEF AskInv
<1>9. ~Waiting(q) /\ ~Embeds(q) /\ (Holding(q) => ask[a].eligible)
  BY <1>6 DEF Waiting, Embeds, Holding
<1> QED BY <1>1, <1>6, <1>7, <1>8, <1>9, PaidStep

LEMMA CallFailsStep ==
  ASSUME LookupInv, NEW a \in Asks, CallFails(a)
  PROVE  LookupInv'
<1>1. /\ ask[a].pc = "calling" /\ UNCHANGED <<exact, sem, dims, events, faults, declined, added, silent>>
      /\ paid' = paid + (IF ask[a].eligible THEN 1 ELSE 0) /\ Step(a, Idle)
  BY DEF CallFails
<1> QED BY <1>1, IdleFacts, PaidStep

\* The similarity of two vectors of callers is a number.
LEMMA SimilarityType ==
  ASSUME NEW u \in Vector, NEW v \in Vector, u.of \in DOMAIN Callers, v.of \in DOMAIN Callers
  PROVE  cosineSimilarity(u, v) \in Int
BY LookupAssumption DEF cosineSimilarity

\* What scanTenant finds: a record that has not expired, at or above the threshold,
\* and no other such record is closer.  That there is a best one among the close is
\* by taking the least place of the greatest similarity.
LEMMA ScanFinds ==
  ASSUME NEW records \in Seq(Record), NEW query \in Vector, NEW now \in Nat,
         query.of \in DOMAIN Callers,
         \A i \in DOMAIN records : records[i].vector.of \in DOMAIN Callers,
         scanTenant(records, query, now) # 0
  PROVE  \E i \in DOMAIN records :
            /\ scanTenant(records, query, now) = records[i].by
            /\ ~expired(records[i].storedAt, now)
            /\ cosineSimilarity(query, records[i].vector) >= threshold
            /\ \A j \in DOMAIN records :
                  ~expired(records[j].storedAt, now)
                  /\ cosineSimilarity(query, records[j].vector) >= threshold
                  => cosineSimilarity(query, records[j].vector)
                        <= cosineSimilarity(query, records[i].vector)
<1> DEFINE score(i) == cosineSimilarity(query, records[i].vector)
           close == {i \in DOMAIN records :
                       ~expired(records[i].storedAt, now) /\ score(i) >= threshold}
           IsBest(i) == \A j \in close : score(i) > score(j) \/ (score(i) = score(j) /\ i <= j)
           best == CHOOSE i \in close : \A j \in close :
                      score(i) > score(j) \/ (score(i) = score(j) /\ i <= j)
<1>1. scanTenant(records, query, now) = IF close = {} THEN 0 ELSE records[best].by
  BY Zenon DEF scanTenant
<1>2. close # {}
  BY <1>1
<1>3. DOMAIN records = 1..Len(records) /\ Len(records) \in Nat
      /\ \A i \in DOMAIN records : records[i].vector \in Vector
  <2>1. DOMAIN records = 1..Len(records) /\ Len(records) \in Nat
        /\ \A i \in DOMAIN records : records[i] \in Record
    BY LenProperties
  <2> QED BY <2>1 DEF Record
<1>4. \A i \in DOMAIN records : score(i) \in Int
  BY <1>3, SimilarityType
<1>5. \E i \in close : IsBest(i)
  <2> DEFINE n == Len(records)
             Upto(m) == {i \in close : i <= m}
             Top(i, m) == /\ i \in Upto(m)
                          /\ \A j \in Upto(m) : score(i) > score(j) \/ (score(i) = score(j) /\ i <= j)
             Bad == {m \in 0..n : Upto(m) # {} /\ ~ \E i \in Upto(m) : Top(i, m)}
  <2>c. \A i \in close : i \in 1..n /\ score(i) \in Int
    BY <1>3, <1>4, Zenon
  <2>1. ASSUME NEW b \in Bad PROVE FALSE
    <3>1. PICK m \in Bad : \A y \in Bad : m <= y
      <4>1. \A i \in Bad : i \in 0..n
        BY Zenon
      <4> HIDE DEF Bad
      <4>2. Bad \in SUBSET Nat /\ b \in Bad
        BY <4>1, <2>1, <1>3
      <4> QED BY <4>2, LeastElement
    <3>m. m \in 0..n /\ n \in Nat
      BY <1>3, Zenon
    <3>b. Upto(m) # {} /\ ~ \E i \in Upto(m) : Top(i, m)
      BY <3>1, Zenon
    <3> HIDE DEF Bad, close, score
    <3>2. m # 0
      BY <2>c, <3>b, <3>m
    <3>3. m - 1 \in 0..n /\ m - 1 \notin Bad
      BY <3>1, <3>2, <3>m
    <3>4. \A j \in Upto(m) : j \in close /\ j \in 1..n /\ score(j) \in Int /\ (j = m \/ j \in Upto(m - 1))
      BY <2>c, <3>m
    <3>5. \A j \in Upto(m - 1) : j \in Upto(m) /\ j < m
      BY <2>c, <3>m
    <3>6. CASE Upto(m - 1) = {}
      <4>1. \A j \in Upto(m) : j = m
        BY <3>4, <3>6
      <4>2. m \in Upto(m)
        BY <4>1, <3>b
      <4>3. Top(m, m)
        BY <4>1, <4>2
      <4> QED BY <4>2, <4>3, <3>b
    <3>7. CASE Upto(m - 1) # {}
      <4>1. PICK i \in Upto(m - 1) : Top(i, m - 1)
        <5>1. ~(Upto(m - 1) # {} /\ ~ \E i \in Upto(m - 1) : Top(i, m - 1))
          BY <3>3 DEF Bad
        <5> QED BY <5>1, <3>7
      <4> HIDE DEF Upto
      <4>2. CASE m \in Upto(m) /\ score(m) > score(i)
        <5>1. Top(m, m)
          BY <4>1, <4>2, <3>4, <3>5
        <5> QED BY <5>1, <4>2, <3>b
      <4>3. CASE ~(m \in Upto(m) /\ score(m) > score(i))
        <5>1. i \in Upto(m) /\ i < m /\ m \in Int /\ i \in Int
          BY <3>4, <3>5, <3>m
        <5>2. Top(i, m)
          <6> SUFFICES ASSUME NEW j \in Upto(m)
                       PROVE  score(i) > score(j) \/ (score(i) = score(j) /\ i <= j)
            BY <5>1
          <6>1. score(i) \in Int /\ score(j) \in Int
            BY <5>1, <3>4
          <6>2. CASE j = m
            BY <6>1, <6>2, <5>1, <4>3
          <6>3. CASE j \in Upto(m - 1)
            BY <6>3, <4>1
          <6> QED BY <6>2, <6>3, <3>4
        <5> QED BY <5>1, <5>2, <3>b
      <4> QED BY <4>2, <4>3
    <3> QED BY <3>6, <3>7
  <2>2. Upto(n) = close
    <3> HIDE DEF close, score
    <3> QED BY <2>c
  <2>3. \E i \in Upto(n) : Top(i, n)
    <3>1. n \in 0..n /\ n \notin Bad
      <4>1. n \in 0..n
        BY <1>3
      <4> HIDE DEF Bad
      <4> QED BY <4>1, <2>1
    <3> QED BY <3>1, <2>2, <1>2, Zenon
  <2> QED BY <2>2, <2>3, Zenon
<1>6. best \in close /\ IsBest(best)
  BY <1>5, Zenon
<1>7. scanTenant(records, query, now) = records[best].by
  BY <1>1, <1>2
<1> HIDE DEF best
<1>8. /\ best \in DOMAIN records /\ ~expired(records[best].storedAt, now) /\ score(best) >= threshold
  BY <1>6, Zenon
<1>9. ASSUME NEW j \in DOMAIN records, ~expired(records[j].storedAt, now), score(j) >= threshold
      PROVE  score(j) <= score(best)
  <2>1. j \in close
    BY <1>9, Zenon
  <2>2. score(j) \in Int /\ score(best) \in Int
    BY <1>4, <1>8, Zenon
  <2>3. score(best) > score(j) \/ score(best) = score(j)
    BY <2>1, <1>6, Zenon
  <2> HIDE DEF score
  <2> QED BY <2>2, <2>3
<1> QED BY <1>7, <1>8, <1>9, Zenon

\* What Nearest looks for, and where.
Found(a) ==
    IF ask[a].vector.width = dims
    THEN scanTenant(sem[Of(ask[a].who).tenant], ask[a].vector, ask[a].now) ELSE 0

\* The records of a tenant.
LEMMA HeldFacts ==
  ASSUME LookupInv, NEW t \in Tenants
  PROVE  /\ sem[t] \in Seq(Record) /\ Len(sem[t]) \in Nat /\ DOMAIN sem[t] = 1..Len(sem[t])
         /\ \A i \in DOMAIN sem[t] :
               /\ sem[t][i] \in Record /\ RecordInv(sem[t][i], t, dims)
               /\ sem[t][i].by \in DOMAIN Callers /\ sem[t][i].vector \in Vector
               /\ sem[t][i].storedAt \in Nat
<1>1. sem[t] \in Seq(Record)
  BY DEF LookupInv, Types
<1>2. Len(sem[t]) \in Nat /\ DOMAIN sem[t] = 1..Len(sem[t]) /\ \A i \in DOMAIN sem[t] : sem[t][i] \in Record
  BY <1>1, LenProperties
<1>3. \A i \in DOMAIN sem[t] : RecordInv(sem[t][i], t, dims)
  BY DEF LookupInv, SemPart
<1>4. \A r \in Record : r.by \in DOMAIN Callers /\ r.vector \in Vector /\ r.storedAt \in Nat
  BY DEF Record
<1> QED BY <1>1, <1>2, <1>3, <1>4

\* A record that Nearest finds is one of the tenant's, of the same width.
LEMMA FoundFacts ==
  ASSUME LookupInv, NEW a \in Asks, ask[a].pc = "nearest", Found(a) # 0
  PROVE  LET t == Of(ask[a].who).tenant
         IN  /\ t \in Tenants /\ ask[a].who \in DOMAIN Callers /\ ask[a].vector.of = ask[a].who
             /\ ask[a].vector.width = dims /\ ask[a].now \in Nat
             /\ \E i \in DOMAIN sem[t] :
                  /\ Found(a) = sem[t][i].by
                  /\ ~expired(sem[t][i].storedAt, ask[a].now)
                  /\ cosineSimilarity(ask[a].vector, sem[t][i].vector) >= threshold
                  /\ \A j \in DOMAIN sem[t] :
                        ~expired(sem[t][j].storedAt, ask[a].now)
                        /\ cosineSimilarity(ask[a].vector, sem[t][j].vector) >= threshold
                        => cosineSimilarity(ask[a].vector, sem[t][j].vector)
                              <= cosineSimilarity(ask[a].vector, sem[t][i].vector)
<1> DEFINE t == Of(ask[a].who).tenant
           query == ask[a].vector
           now == ask[a].now
           records == sem[t]
<1>1. AskInv(ask[a]) /\ query \in Vector /\ now \in Nat
  BY AskFacts
<1>2. ask[a].who \in DOMAIN Callers /\ query.of = ask[a].who
  BY <1>1 DEF AskInv
<1>3. t \in Tenants
  BY <1>2, CallerFacts
<1>4. Found(a) = scanTenant(records, query, now) /\ query.width = dims
  BY DEF Found
<1>5. records \in Seq(Record) /\ \A i \in DOMAIN records : records[i].vector.of \in DOMAIN Callers
  <2> HIDE DEF t
  <2> QED BY <1>3, HeldFacts DEF RecordInv
<1>6. \E i \in DOMAIN records :
         /\ scanTenant(records, query, now) = records[i].by
         /\ ~expired(records[i].storedAt, now)
         /\ cosineSimilarity(query, records[i].vector) >= threshold
         /\ \A j \in DOMAIN records :
               ~expired(records[j].storedAt, now)
               /\ cosineSimilarity(query, records[j].vector) >= threshold
               => cosineSimilarity(query, records[j].vector)
                     <= cosineSimilarity(query, records[i].vector)
  <2>1. scanTenant(records, query, now) # 0 /\ query.of \in DOMAIN Callers
    BY <1>2, <1>4
  <2> HIDE DEF records, query, now
  <2> QED BY <1>1, <1>5, <2>1, ScanFinds
<1> QED BY <1>1, <1>2, <1>3, <1>4, <1>6

\* A miss ends as a semantic hit, or goes on to its call.
LEMMA NearestStep ==
  ASSUME LookupInv, NEW a \in Asks, Nearest(a)
  PROVE  LookupInv'
<1>1. ask[a].pc = "nearest" /\ UNCHANGED <<exact, sem, dims, faults, paid, declined, added, silent>>
  BY DEF Nearest
<1>2. \/ /\ Found(a) # 0 /\ emit("semantic_hit")
         /\ Step(a, [ask[a] EXCEPT !.pc = "served", !.semantic = TRUE, !.entry = Found(a),
                                   !.vector = NoVector, !.now = 0])
      \/ /\ Found(a) = 0
         /\ Step(a, [ask[a] EXCEPT !.pc = "calling", !.vector = NoVector, !.now = 0])
         /\ UNCHANGED events
  BY Zenon DEF Nearest, Found
<1>3. ask[a] \in Request /\ AskInv(ask[a])
  BY AskFacts
<1>4. /\ events \in [Event -> Nat] /\ faults' \in Nat /\ declined' \in Nat /\ paid' \in Nat
      /\ Types /\ AsksPart
  BY <1>1, NumberFacts DEF LookupInv
<1>5. Waiting(ask[a]) /\ ask[a].eligible /\ ~Holding(ask[a]) /\ Embeds(ask[a])
  BY <1>1, <1>3 DEF AskInv, Waiting, Holding, Embeds
<1>6. CASE Found(a) # 0
  <2> DEFINE f == Found(a)
             q == [ask[a] EXCEPT !.pc = "served", !.semantic = TRUE, !.entry = f,
                                 !.vector = NoVector, !.now = 0]
  <2>1. Step(a, q) /\ emit("semantic_hit") /\ "semantic_hit" \in Event
    BY <1>2, <1>6 DEF Event
  <2>2. f \in Nat
    <3> DEFINE t == Of(ask[a].who).tenant
    <3>1. t \in Tenants /\ \E i \in DOMAIN sem[t] : f = sem[t][i].by
      BY <1>1, <1>6, FoundFacts
    <3>2. f \in DOMAIN Callers
      <4> HIDE DEF t, f
      <4> QED BY <3>1, HeldFacts
    <3> QED BY <3>2, CallerFacts
  <2>3. q \in Request /\ q.pc = "served" /\ q.semantic /\ q.who = ask[a].who /\ q.eligible = ask[a].eligible
    <3> HIDE DEF f
    <3> QED BY <1>3, <2>2 DEF Request, NoVector, Vector
  <2> HIDE DEF q
  <2>4. AskInv(q) /\ ~Waiting(q) /\ ~Holding(q) /\ ~Embeds(q)
    BY <1>1, <1>3, <1>5, <2>3 DEF AskInv, Waiting, Holding, Embeds
  <2>e. /\ events' \in [Event -> Nat] /\ events'["semantic_hit"] = events["semantic_hit"] + 1
        /\ \A d \in Event : d # "semantic_hit" => events'[d] = events[d]
    BY <2>1, EmitFacts DEF LookupInv
  <2>v. /\ events'["exact_hit"] = events["exact_hit"] /\ events'["semantic_hit"] = events["semantic_hit"] + 1
        /\ events'["miss"] = events["miss"] /\ events'["ineligible"] = events["ineligible"]
        /\ events'["stored"] = events["stored"] /\ events'["evicted"] = events["evicted"]
        /\ events'["embed_failed"] = events["embed_failed"]
    BY <2>e, EventNames
  <2>6. /\ Types' /\ AsksPart' /\ ExactPart' /\ SemPart'
        /\ Cardinality(exact)' = Cardinality(exact) /\ Cardinality(Held)' = Cardinality(Held)
        /\ asked' = asked /\ (Enabled' <=> Enabled) /\ ask' = [ask EXCEPT ![a] = q]
    BY <1>1, <1>4, <2>1, <2>3, <2>4, <2>e, StepKept
  <2> HIDE DEF Waiting, Holding, Embeds, Request, AskInv
  <2>7. /\ Cardinality(Waits) \in Nat /\ Cardinality(Waits)' = Cardinality(Waits) - 1
        /\ Cardinality(Holds)' = Cardinality(Holds)
        /\ Cardinality(Embedders) \in Nat /\ Cardinality(Embedders)' = Cardinality(Embedders) - 1
    BY <1>4, <1>5, <2>3, <2>4, <2>6, AskSet
  <2>s. paid' = paid /\ declined' = declined /\ added' = added /\ silent' = silent
    BY <1>1
  <2>8. CountPart'
    <3>0. CountPart
      BY DEF LookupInv
    <3>n. /\ events["exact_hit"] \in Nat /\ events["semantic_hit"] \in Nat /\ events["miss"] \in Nat
          /\ events["ineligible"] \in Nat /\ events["stored"] \in Nat /\ events["evicted"] \in Nat
          /\ events["embed_failed"] \in Nat
          /\ asked \in Nat /\ paid \in Nat /\ declined \in Nat /\ added \in Nat /\ silent \in Nat
          /\ Cardinality(exact) \in Nat /\ Cardinality(Held) \in Int
      BY NumberFacts, SizeFacts
    <3>1. Enabled' => (events["exact_hit"] + events["miss"] + events["ineligible"] = asked)'
      <4>1. Enabled => events["exact_hit"] + events["miss"] + events["ineligible"] = asked
        BY <3>0 DEF CountPart
      <4> QED BY <4>1, <3>n, <2>s, <2>v, <2>6, <2>7
    <3>2. (events["miss"] + declined = events["semantic_hit"] + paid + Cardinality(Waits))'
      <4>1. events["miss"] + declined = events["semantic_hit"] + paid + Cardinality(Waits)
        BY <3>0 DEF CountPart
      <4> QED BY <4>1, <3>n, <2>s, <2>v, <2>6, <2>7
    <3>3. (events["stored"] + Cardinality(Holds) <= paid)'
      <4>1. events["stored"] + Cardinality(Holds) <= paid
        BY <3>0 DEF CountPart
      <4> QED BY <4>1, <3>n, <2>s, <2>v, <2>6, <2>7
    <3>4. (events["embed_failed"] + events["semantic_hit"] + added + Cardinality(Embedders)
             <= events["miss"] + events["stored"])'
      <4>1. events["embed_failed"] + events["semantic_hit"] + added + Cardinality(Embedders)
                <= events["miss"] + events["stored"]
        BY <3>0 DEF CountPart
      <4> QED BY <4>1, <3>n, <2>s, <2>v, <2>6, <2>7
    <3>5. (events["stored"] + added = events["evicted"] + silent + Cardinality(exact) + Cardinality(Held))'
      <4>1. events["stored"] + added = events["evicted"] + silent + Cardinality(exact) + Cardinality(Held)
        BY <3>0 DEF CountPart
      <4> QED BY <4>1, <3>n, <2>s, <2>v, <2>6, <2>7
    <3> QED BY <3>1, <3>2, <3>3, <3>4, <3>5 DEF CountPart
  <2> QED BY <2>6, <2>8 DEF LookupInv
<1>7. CASE Found(a) = 0
  <2> DEFINE q == [ask[a] EXCEPT !.pc = "calling", !.vector = NoVector, !.now = 0]
  <2>1. Step(a, q) /\ events' = events
    BY <1>2, <1>7
  <2>3. q \in Request /\ q.pc = "calling" /\ q.who = ask[a].who /\ q.eligible = ask[a].eligible
    BY <1>3 DEF Request, NoVector, Vector
  <2> HIDE DEF q
  <2>4. AskInv(q) /\ Waiting(q) /\ ~Holding(q)
    BY <1>1, <1>3, <1>5, <2>3 DEF AskInv, Waiting, Holding
  <2>5. events' \in [Event -> Nat] /\ \A e \in Event \ {"embed_failed"} : events'[e] = events[e]
    BY <1>4, <2>1
  <2> HIDE DEF Waiting, Holding, Embeds
  <2> QED BY <1>1, <1>4, <1>5, <2>1, <2>3, <2>4, <2>5, Uncounted
<1> QED BY <1>6, <1>7

\* What the exact tier holds after an entry was stored: no more than its bound, and
\* what it held less what was replaced and what made room.
LEMMA StoredFacts ==
  ASSUME LookupInv, NEW c, NEW x, x.by = c, NEW out \in Victims(exact \ Under(c))
  PROVE  LET new == ((exact \ Under(c)) \ out) \cup {x}
         IN  /\ IsFiniteSet(new) /\ Cardinality(out) \in Nat /\ Cardinality(new) \in Nat
             /\ Cardinality(new) = Cardinality(exact) - Cardinality(Under(c)) - Cardinality(out) + 1
             /\ Cardinality(new) <= maxEntries
<1> DEFINE kept == exact \ Under(c)
           rest == kept \ out
           excess == Cardinality(kept) + 1 - maxEntries
<1>1. /\ IsFiniteSet(kept) /\ Cardinality(kept) \in Nat /\ Cardinality(Under(c)) \in Nat
      /\ Cardinality(kept) = Cardinality(exact) - Cardinality(Under(c))
      /\ Cardinality(exact) \in Nat
  BY UnderFacts
<1>2. out \in SUBSET kept /\ Cardinality(out) = IF excess > 0 THEN excess ELSE 0
  BY DEF Victims
<1>3. x \notin kept
  BY DEF Under
<1> HIDE DEF kept
<1>4. IsFiniteSet(out) /\ Cardinality(out) \in Nat
  BY <1>1, <1>2, FS_Subset, FS_CardinalityType
<1>5. IsFiniteSet(rest) /\ Cardinality(rest) = Cardinality(kept) - Cardinality(out)
  <2>1. kept \cap out = out
    BY <1>2
  <2>2. IsFiniteSet(kept \ out) /\ Cardinality(kept \ out) = Cardinality(kept) - Cardinality(kept \cap out)
    BY <1>1, FS_Difference
  <2> QED BY <2>1, <2>2
<1>6. x \notin rest
  BY <1>3
<1> HIDE DEF rest
<1>7. IsFiniteSet(rest \cup {x}) /\ Cardinality(rest \cup {x}) = Cardinality(rest) + 1
  BY <1>5, <1>6, FS_AddElement
<1>8. Cardinality(rest \cup {x}) \in Nat
  BY <1>7, FS_CardinalityType
<1>9. Cardinality(rest \cup {x}) <= maxEntries
  BY <1>1, <1>2, <1>4, <1>5, <1>7, BoundFacts
<1>10. Cardinality(rest \cup {x}) = Cardinality(exact) - Cardinality(Under(c)) - Cardinality(out) + 1
  BY <1>1, <1>4, <1>5, <1>7
<1> QED BY <1>4, <1>7, <1>8, <1>9, <1>10 DEF rest, kept

\* Put: the exact tier takes the answer of a request the policy accepted.
LEMMA PutStep ==
  ASSUME LookupInv, NEW a \in Asks, Put(a)
  PROVE  LookupInv'
<1> DEFINE c == ask[a].who
           x == [by |-> c, expiresAt |-> clock + exactTTL]
           q == IF Comparable(c) THEN Asking(c, "putting", FALSE, 0) ELSE Idle
<1>1. /\ ask[a].pc = "answered" /\ ask[a].eligible /\ Step(a, q)
      /\ silent' = silent + Cardinality(Under(c))
      /\ UNCHANGED <<sem, dims, faults, paid, declined, added>>
  BY DEF Put, Storable
<1>o. PICK out \in Victims(exact \ Under(c)) :
         /\ exact' = ((exact \ Under(c)) \ out) \cup {x}
         /\ events' = [events EXCEPT !["evicted"] = @ + Cardinality(out), !["stored"] = @ + 1]
  BY DEF Put
<1>3. c \in DOMAIN Callers /\ Refusal[c] = "" /\ c \in Nat /\ clock \in Nat
  <2>1. AskInv(ask[a])
    BY AskFacts
  <2> QED BY <1>1, <2>1, AskFacts DEF AskInv
<1>4. q \in Request /\ AskInv(q) /\ ~Waiting(q) /\ ~Holding(q)
  <2>1. CASE Comparable(c)
    <3>1. /\ Asking(c, "putting", FALSE, 0) \in Request
          /\ Asking(c, "putting", FALSE, 0).pc = "putting" /\ Asking(c, "putting", FALSE, 0).who = c
          /\ ~Asking(c, "putting", FALSE, 0).eligible
      <4> HIDE DEF c
      <4> QED BY <1>3, UnacceptedFacts
    <3>2. q = Asking(c, "putting", FALSE, 0)
      BY <2>1
    <3> HIDE DEF q
    <3>3. q \in Request /\ q.pc = "putting" /\ q.who = c /\ ~q.eligible
      BY <3>1, <3>2
    <3> QED BY <1>3, <3>3 DEF AskInv, Waiting, Holding
  <2>2. CASE ~Comparable(c)
    BY <2>2, IdleFacts
  <2> QED BY <2>1, <2>2
<1>x. x \in Entry /\ x.by = c
  <2>1. clock + exactTTL \in Nat
    <3>1. clock \in Nat
      BY <1>3
    <3>2. exactTTL \in Nat
      BY BoundFacts
    <3> QED BY <3>1, <3>2
  <2> HIDE DEF c
  <2> QED BY <1>3, <2>1 DEF Entry
<1> HIDE DEF q, c, x
<1>5. /\ IsFiniteSet(exact') /\ Cardinality(out) \in Nat
      /\ Cardinality(exact)' = Cardinality(exact) - Cardinality(Under(c)) - Cardinality(out) + 1
      /\ Cardinality(exact)' <= maxEntries /\ Cardinality(exact) \in Nat /\ Cardinality(Under(c)) \in Nat
  <2> DEFINE new == ((exact \ Under(c)) \ out) \cup {x}
  <2>1. /\ IsFiniteSet(new) /\ Cardinality(out) \in Nat /\ Cardinality(new) <= maxEntries
        /\ Cardinality(new) = Cardinality(exact) - Cardinality(Under(c)) - Cardinality(out) + 1
    BY <1>x, StoredFacts
  <2>2. exact' = new
    BY <1>o
  <2>3. Cardinality(exact) \in Nat /\ Cardinality(Under(c)) \in Nat
    BY UnderFacts
  <2> HIDE DEF new
  <2> QED BY <2>1, <2>2, <2>3
<1>6. exact' \in SUBSET Entry /\ ExactPart'
  <2>1. \A y \in exact' : y \in exact \/ y = x
    BY <1>o
  <2>2. \A y \in exact' : y \in Entry /\ Refusal[y.by] = ""
    <3>1. \A y \in exact : y \in Entry /\ Refusal[y.by] = ""
      BY DEF LookupInv, Types, ExactPart
    <3> QED BY <2>1, <3>1, <1>x, <1>3
  <2> QED BY <2>2, <1>5 DEF ExactPart
<1>v. /\ events' \in [Event -> Nat]
      /\ events'["exact_hit"] = events["exact_hit"] /\ events'["semantic_hit"] = events["semantic_hit"]
      /\ events'["miss"] = events["miss"] /\ events'["ineligible"] = events["ineligible"]
      /\ events'["stored"] = events["stored"] + 1
      /\ events'["evicted"] = events["evicted"] + Cardinality(out)
      /\ events'["embed_failed"] = events["embed_failed"]
  <2>1. events \in [Event -> Nat] /\ Cardinality(out) \in Nat
    BY <1>5, NumberFacts
  <2>2. \A d \in Event : events'[d] = IF d = "stored" THEN events[d] + 1
                         ELSE IF d = "evicted" THEN events[d] + Cardinality(out) ELSE events[d]
    BY <1>o, <2>1 DEF Event
  <2>3. events' \in [Event -> Nat]
    BY <1>o, <2>1 DEF Event
  <2> QED BY <2>2, <2>3, EventNames
<1>7. /\ ask' = [ask EXCEPT ![a] = q] /\ UNCHANGED <<tiers, clock, asked>>
      /\ ~Waiting(ask[a]) /\ Holding(ask[a]) /\ ~Embeds(ask[a])
  BY <1>1 DEF Step, Waiting, Holding, Embeds
<1>s. /\ silent' = silent + Cardinality(Under(c)) /\ paid' = paid /\ declined' = declined /\ added' = added
      /\ asked' = asked
  BY <1>1, <1>7
<1>8. /\ Types /\ AsksPart /\ asked' \in 0..MaxAsks /\ faults' \in Nat
      /\ paid' \in Nat /\ declined' \in Nat /\ added' \in Nat /\ silent' \in Nat
  <2>1. Types /\ AsksPart /\ asked \in 0..MaxAsks /\ silent \in Nat
    BY DEF LookupInv, Types
  <2> QED BY <1>1, <1>5, <1>s, <2>1, NumberFacts
<1>9. Types' /\ AsksPart' /\ SemPart' /\ Cardinality(Held)' = Cardinality(Held) /\ (Enabled' <=> Enabled)
  BY <1>1, <1>4, <1>6, <1>7, <1>8, <1>v, Moved
<1>10. /\ Cardinality(Waits)' = Cardinality(Waits)
       /\ Cardinality(Holds) \in Nat /\ Cardinality(Holds)' = Cardinality(Holds) - 1
       /\ Cardinality(Embedders) \in Nat
       /\ Cardinality(Embedders)' \in {Cardinality(Embedders), Cardinality(Embedders) + 1}
  <2> HIDE DEF Waiting, Holding, Embeds, Request, AskInv
  <2> QED BY <1>4, <1>7, <1>8, AskSet
<1>11. CountPart'
  <2>0. CountPart
    BY DEF LookupInv
  <2>n. /\ events["exact_hit"] \in Nat /\ events["semantic_hit"] \in Nat /\ events["miss"] \in Nat
        /\ events["ineligible"] \in Nat /\ events["stored"] \in Nat /\ events["evicted"] \in Nat
        /\ events["embed_failed"] \in Nat
        /\ asked \in Nat /\ paid \in Nat /\ declined \in Nat /\ added \in Nat /\ silent \in Nat
        /\ Cardinality(exact) \in Nat /\ Cardinality(Held) \in Int
    BY NumberFacts, SizeFacts
  <2>1. Enabled' => (events["exact_hit"] + events["miss"] + events["ineligible"] = asked)'
    <3>1. Enabled => events["exact_hit"] + events["miss"] + events["ineligible"] = asked
      BY <2>0 DEF CountPart
    <3> QED BY <3>1, <2>n, <1>s, <1>v, <1>5, <1>9, <1>10
  <2>2. (events["miss"] + declined = events["semantic_hit"] + paid + Cardinality(Waits))'
    <3>1. events["miss"] + declined = events["semantic_hit"] + paid + Cardinality(Waits)
      BY <2>0 DEF CountPart
    <3> QED BY <3>1, <2>n, <1>s, <1>v, <1>5, <1>9, <1>10
  <2>3. (events["stored"] + Cardinality(Holds) <= paid)'
    <3>1. events["stored"] + Cardinality(Holds) <= paid
      BY <2>0 DEF CountPart
    <3> QED BY <3>1, <2>n, <1>s, <1>v, <1>5, <1>9, <1>10
  <2>4. (events["embed_failed"] + events["semantic_hit"] + added + Cardinality(Embedders)
           <= events["miss"] + events["stored"])'
    <3>1. events["embed_failed"] + events["semantic_hit"] + added + Cardinality(Embedders)
              <= events["miss"] + events["stored"]
      BY <2>0 DEF CountPart
    <3> QED BY <3>1, <2>n, <1>s, <1>v, <1>5, <1>9, <1>10
  <2>5. (events["stored"] + added = events["evicted"] + silent + Cardinality(exact) + Cardinality(Held))'
    <3>1. events["stored"] + added = events["evicted"] + silent + Cardinality(exact) + Cardinality(Held)
      BY <2>0 DEF CountPart
    <3>2. \A st, ad, ev, si, z, h, u, o \in Int :
             st + ad = ev + si + z + h => (st + 1) + ad = (ev + o) + (si + u) + (z - u - o + 1) + h
      OBVIOUS
    <3>3. /\ events["stored"] \in Int /\ added \in Int /\ events["evicted"] \in Int /\ silent \in Int
          /\ Cardinality(exact) \in Int /\ Cardinality(Held) \in Int
          /\ Cardinality(Under(c)) \in Int /\ Cardinality(out) \in Int
      BY <2>n, <1>5
    <3>4. (events["stored"] + 1) + added = (events["evicted"] + Cardinality(out)) + (silent + Cardinality(Under(c)))
             + (Cardinality(exact) - Cardinality(Under(c)) - Cardinality(out) + 1) + Cardinality(Held)
      BY <3>1, <3>2, <3>3
    <3>5. /\ events'["stored"] = events["stored"] + 1 /\ added' = added
          /\ events'["evicted"] = events["evicted"] + Cardinality(out)
          /\ silent' = silent + Cardinality(Under(c))
          /\ Cardinality(exact)' = Cardinality(exact) - Cardinality(Under(c)) - Cardinality(out) + 1
          /\ Cardinality(Held)' = Cardinality(Held)
      BY <1>s, <1>v, <1>5, <1>9
    <3> QED BY <3>4, <3>5
  <2> QED BY <2>1, <2>2, <2>3, <2>4, <2>5 DEF CountPart
<1> QED BY <1>6, <1>9, <1>11 DEF LookupInv

\* There is a number of leading records that have expired.
LEMMA SpentFacts ==
  ASSUME NEW records \in Seq(Record), NEW now
  PROVE  Spent(records, now) \in 0..Len(records)
<1> DEFINE n == Len(records)
           Ends(k) == k < n => ~expired(records[k + 1].storedAt, now)
           T == {k \in 0..n : Ends(k)}
<1>1. n \in Nat
  BY LenProperties
<1>2. n \in T /\ T \in SUBSET Nat
  <2>1. n \in 0..n /\ ~(n < n)
    BY <1>1
  <2> HIDE DEF n
  <2> QED BY <1>1, <2>1
<1>3. PICK k \in T : \A y \in T : k <= y
  <2> HIDE DEF T
  <2> QED BY <1>2, LeastElement
<1>4. k \in 0..n /\ Ends(k)
  OBVIOUS
<1>5. ASSUME NEW i \in 1..k PROVE expired(records[i].storedAt, now)
  <2>1. i - 1 \in 0..n /\ i - 1 < k /\ i - 1 < n /\ (i - 1) + 1 = i
    <3> HIDE DEF n, T
    <3> QED BY <1>1, <1>4
  <2>2. i - 1 \notin T
    <3> HIDE DEF T
    <3> QED BY <1>3, <1>4, <2>1
  <2>3. ~Ends(i - 1)
    BY <2>1, <2>2, Zenon
  <2> HIDE DEF n, T
  <2>4. expired(records[(i - 1) + 1].storedAt, now)
    BY <2>3
  <2> QED BY <2>1, <2>4
<1>6. \E m \in 0..Len(records) :
        /\ \A i \in 1..m : expired(records[i].storedAt, now)
        /\ m < Len(records) => ~expired(records[m + 1].storedAt, now)
  BY <1>4, <1>5, Zenon
<1> HIDE DEF n, T
<1> QED BY <1>6, Zenon DEF Spent

\* What a tenant holds after a record was added: the newest of what it held and the
\* new one, never more than its bound.
LEMMA AddedFacts ==
  ASSUME NEW old \in Seq(Record), NEW r \in Record, NEW now
  PROVE  LET new == Newest(Append(dropExpired(old, now), r))
         IN  /\ new \in Seq(Record) /\ Len(new) \in Nat /\ Len(new) <= maxPerTenant
             /\ Len(new) <= Len(old) + 1
             /\ \A i \in DOMAIN new : new[i] = r \/ \E j \in DOMAIN old : new[i] = old[j]
<1> DEFINE s == Spent(old, now)
           kept == SubSeq(old, s + 1, Len(old))
           all == Append(kept, r)
           from == IF Len(all) > maxPerTenant THEN Len(all) - maxPerTenant + 1 ELSE 1
           new == SubSeq(all, from, Len(all))
<1>0. s \in 0..Len(old) /\ Len(old) \in Nat /\ DOMAIN old = 1..Len(old)
      /\ \A i \in 1..Len(old) : old[i] \in Record
  BY SpentFacts, LenProperties
<1>1. kept = dropExpired(old, now) /\ new = Newest(Append(dropExpired(old, now), r))
  BY DEF dropExpired, Newest
<1>2. /\ kept \in Seq(Record) /\ Len(kept) = Len(old) - s
      /\ \A i \in 1..Len(kept) : \E j \in DOMAIN old : kept[i] = old[j]
  <2> HIDE DEF s
  <2>1. \A i \in (s + 1)..Len(old) : old[i] \in Record
    BY <1>0
  <2>2. /\ kept \in Seq(Record)
        /\ Len(kept) = IF s + 1 <= Len(old) THEN Len(old) - (s + 1) + 1 ELSE 0
        /\ \A i \in 1..(Len(old) - (s + 1) + 1) : kept[i] = old[(s + 1) + i - 1]
    BY <1>0, <2>1, SubSeqProperties
  <2> HIDE DEF kept
  <2>3. Len(kept) = Len(old) - s
    <3>1. \A x \in Nat : \A y \in 0..x : (IF y + 1 <= x THEN x - (y + 1) + 1 ELSE 0) = x - y
      OBVIOUS
    <3>2. (IF s + 1 <= Len(old) THEN Len(old) - (s + 1) + 1 ELSE 0) = Len(old) - s
      BY <3>1, <1>0
    <3> QED BY <3>2, <2>2
  <2>4. ASSUME NEW i \in 1..Len(kept) PROVE \E j \in DOMAIN old : kept[i] = old[j]
    <3>1. i \in 1..(Len(old) - (s + 1) + 1) /\ (s + 1) + i - 1 \in DOMAIN old
      BY <1>0, <2>3
    <3> QED BY <3>1, <2>2
  <2> QED BY <2>2, <2>3, <2>4
<1> HIDE DEF kept, s
<1>3. /\ all \in Seq(Record) /\ Len(all) = Len(kept) + 1 /\ Len(kept) \in Nat
      /\ DOMAIN all = 1..Len(all)
      /\ \A i \in 1..Len(all) : all[i] = r \/ \E j \in DOMAIN old : all[i] = old[j]
  <2>1. Len(kept) \in Nat /\ all \in Seq(Record) /\ Len(all) = Len(kept) + 1
    BY <1>2, AppendProperties, LenProperties
  <2>2. \A i \in 1..Len(kept) : all[i] = kept[i]
    BY <1>2, AppendProperties
  <2>3. all[Len(kept) + 1] = r
    BY <1>2, AppendProperties
  <2>4. DOMAIN all = 1..Len(all)
    BY <2>1, LenProperties
  <2> HIDE DEF all
  <2>5. ASSUME NEW i \in 1..Len(all) PROVE all[i] = r \/ \E j \in DOMAIN old : all[i] = old[j]
    <3>1. i \in 1..Len(kept) \/ i = Len(kept) + 1
      BY <2>1
    <3> QED BY <3>1, <2>2, <2>3, <1>2
  <2> QED BY <2>1, <2>4, <2>5
<1> HIDE DEF all
<1>4. from \in 1..Len(all) /\ Len(all) - from + 1 <= maxPerTenant
  BY <1>3, BoundFacts
<1> HIDE DEF from
<1>5. /\ new \in Seq(Record) /\ Len(new) = Len(all) - from + 1
      /\ \A i \in 1..(Len(all) - from + 1) : new[i] = all[from + i - 1]
  <2>1. \A i \in from..Len(all) : all[i] \in Record
    <3>1. \A i \in 1..Len(all) : all[i] \in Record
      BY <1>3, ElementOfSeq
    <3> QED BY <1>3, <1>4, <3>1
  <2>2. from \in Int /\ Len(all) \in Int /\ from <= Len(all)
    BY <1>3, <1>4
  <2> QED BY <2>1, <2>2, SubSeqProperties
<1> HIDE DEF new
<1>6. DOMAIN new = 1..Len(new) /\ Len(new) \in Nat
  BY <1>5, LenProperties
<1>7. ASSUME NEW i \in DOMAIN new PROVE new[i] = r \/ \E j \in DOMAIN old : new[i] = old[j]
  <2>1. i \in 1..(Len(all) - from + 1) /\ from + i - 1 \in 1..Len(all)
    BY <1>3, <1>4, <1>5, <1>6
  <2> QED BY <2>1, <1>3, <1>5
<1>8. Len(new) <= maxPerTenant /\ Len(new) <= Len(old) + 1
  BY <1>0, <1>2, <1>3, <1>4, <1>5, BoundFacts
<1> QED BY <1>1, <1>5, <1>6, <1>7, <1>8

\* A tenant that comes to hold other records changes the places held by as many.
LEMMA HeldMoves ==
  ASSUME Types, NEW t \in Tenants, NEW new \in Seq(Record), sem' = [sem EXCEPT ![t] = new]
  PROVE  /\ Cardinality(Held) \in Nat /\ Cardinality(Held)' \in Nat
         /\ Cardinality(Held)' = Cardinality(Held) + Len(new) - Len(sem[t])
<1> DEFINE Place(u) == {u} \X DOMAIN sem[u]
           Others == UNION {Place(u) : u \in Tenants \ {t}}
           Old == {t} \X (1..Len(sem[t]))
           New == {t} \X (1..Len(new))
<1>1. /\ \A u \in Tenants : sem[u] \in Seq(Record) /\ DOMAIN sem[u] = 1..Len(sem[u]) /\ Len(sem[u]) \in Nat
      /\ DOMAIN new = 1..Len(new) /\ Len(new) \in Nat
  <2>1. \A u \in Tenants : sem[u] \in Seq(Record)
    BY DEF Types
  <2> QED BY <2>1, LenProperties
<1>2. \A u \in Tenants : sem'[u] = IF u = t THEN new ELSE sem[u]
  BY DEF Types
<1>3. Held = Others \cup Old
  <2>1. Place(t) = Old
    BY <1>1
  <2> QED BY <2>1 DEF Held
<1>4. Held' = Others \cup New
  <2>1. Held' = UNION {{u} \X DOMAIN sem'[u] : u \in Tenants}
    BY DEF Held
  <2>2. {t} \X DOMAIN sem'[t] = New
    BY <1>1, <1>2
  <2>3. \A u \in Tenants \ {t} : {u} \X DOMAIN sem'[u] = Place(u)
    BY <1>2
  <2> QED BY <2>1, <2>2, <2>3
<1>7. IsFiniteSet(Others)
  BY PlacesFinite
<1>8. /\ IsFiniteSet(Old) /\ Cardinality(Old) = Len(sem[t])
      /\ IsFiniteSet(New) /\ Cardinality(New) = Len(new)
  <2>1. ASSUME NEW n \in Nat
        PROVE  IsFiniteSet({t} \X (1..n)) /\ Cardinality({t} \X (1..n)) = n
    <3>1. IsFiniteSet({t}) /\ Cardinality({t}) = 1
      BY FS_Singleton
    <3>2. IsFiniteSet(1..n) /\ Cardinality(1..n) = n
      BY FS_Interval
    <3>3. IsFiniteSet({t} \X (1..n)) /\ Cardinality({t} \X (1..n)) = 1 * n
      BY <3>1, <3>2, FS_Product
    <3> QED BY <3>3
  <2> QED BY <2>1, <1>1
<1>9. Others \cap Old = {} /\ Others \cap New = {}
  OBVIOUS
<1> HIDE DEF Others, Old, New
<1>10. /\ Cardinality(Others \cup Old) = Cardinality(Others) + Len(sem[t]) - Cardinality({})
       /\ Cardinality(Others \cup New) = Cardinality(Others) + Len(new) - Cardinality({})
  BY <1>7, <1>8, <1>9, FS_Union
<1>11. Cardinality({}) = 0 /\ Cardinality(Others) \in Nat
  BY <1>7, FS_EmptySet, FS_CardinalityType
<1>12. /\ Cardinality(Held) = Cardinality(Others) + Len(sem[t])
       /\ Cardinality(Held)' = Cardinality(Others) + Len(new)
       /\ Len(sem[t]) \in Nat /\ Len(new) \in Nat
  BY <1>1, <1>3, <1>4, <1>10, <1>11
<1> QED BY <1>11, <1>12

\* Add: the records of one tenant change, and what was dropped is reported.
LEMMA AddStep ==
  ASSUME LookupInv, NEW a \in Asks, Add(a)
  PROVE  LookupInv'
<1> DEFINE c == ask[a].who
           t == Of(c).tenant
           width == ask[a].vector.width
           r == [vector |-> ask[a].vector, by |-> c, storedAt |-> ask[a].now]
           new == Newest(Append(dropExpired(sem[t], ask[a].now), r))
<1>1. /\ ask[a].pc = "adding" /\ dims' = (IF dims = 0 THEN width ELSE dims)
      /\ Step(a, Idle) /\ UNCHANGED <<exact, faults, paid, declined, silent>>
  BY DEF Add
<1>2. \/ /\ width = dims'
         /\ sem' = [sem EXCEPT ![t] = new]
         /\ events' = [events EXCEPT !["evicted"] = @ + Len(sem[t]) + 1 - Len(new)]
         /\ added' = added + 1
      \/ width # dims' /\ UNCHANGED <<sem, events, added>>
  BY Zenon DEF Add
<1>3. Types /\ AsksPart /\ ExactPart /\ SemPart /\ CountPart
  BY DEF LookupInv
<1>4. /\ AskInv(ask[a]) /\ c \in Nat /\ ask[a].vector \in Vector /\ ask[a].now \in Nat
  BY AskFacts
<1>5. c \in DOMAIN Callers /\ ask[a].vector.of = c /\ width > 0 /\ width \in Nat
  BY <1>1, <1>4 DEF AskInv, Vector
<1>6. t \in Tenants
  BY <1>5, CallerFacts
<1>7. /\ ask' = [ask EXCEPT ![a] = Idle] /\ UNCHANGED <<tiers, clock, asked>>
      /\ ~Waiting(ask[a]) /\ ~Holding(ask[a]) /\ Embeds(ask[a])
  BY <1>1 DEF Step, Waiting, Holding, Embeds
<1>8. /\ ask' \in [Asks -> Request] /\ AsksPart' /\ Cardinality(Waits)' = Cardinality(Waits)
      /\ Cardinality(Holds)' = Cardinality(Holds) /\ Cardinality(Holds) \in Nat
      /\ Cardinality(Embedders) \in Nat /\ Cardinality(Embedders)' \in Nat
      /\ Cardinality(Embedders)' = Cardinality(Embedders) - 1
  <2> HIDE DEF Waiting, Holding, Embeds, Request, AskInv
  <2> QED BY <1>3, <1>7, AskSet, IdleFacts
<1>9. /\ ExactPart' /\ Cardinality(exact)' = Cardinality(exact) /\ (Enabled' <=> Enabled)
      /\ dims' \in Nat
  <2>1. ExactPart' /\ Cardinality(exact)' = Cardinality(exact)
    BY <1>1, <1>3, ExactKept
  <2>2. dims' \in Nat
    BY <1>1, <1>3, <1>5 DEF Types
  <2> QED BY <1>7, <2>1, <2>2 DEF Enabled
<1>s. asked' = asked /\ paid' = paid /\ declined' = declined /\ silent' = silent
  BY <1>1, <1>7
\* The first width is taken while nothing is held.
<1>10. \A u \in Tenants : \A i \in DOMAIN sem[u] : dims' = dims /\ RecordInv(sem[u][i], u, dims')
  <2> SUFFICES ASSUME NEW u \in Tenants, NEW i \in DOMAIN sem[u]
               PROVE  dims' = dims /\ RecordInv(sem[u][i], u, dims')
    OBVIOUS
  <2>1. RecordInv(sem[u][i], u, dims)
    BY <1>3 DEF SemPart
  <2>2. dims' = dims
    BY <2>1, <1>1 DEF RecordInv
  <2> QED BY <2>1, <2>2
<1> DEFINE Adds == /\ width = dims'
                   /\ sem' = [sem EXCEPT ![t] = new]
                   /\ events' = [events EXCEPT !["evicted"] = @ + Len(sem[t]) + 1 - Len(new)]
                   /\ added' = added + 1
<1>11. CASE Adds
  <2>0. width = dims'
    BY <1>11
  <2>1. sem[t] \in Seq(Record) /\ Len(sem[t]) \in Nat
    BY <1>6, HeldFacts
  <2>2. r \in Record
    BY <1>4, <1>5 DEF Record
  <2>3. RecordInv(r, t, dims')
    BY <1>5, <2>0 DEF RecordInv
  <2>4. /\ new \in Seq(Record) /\ Len(new) \in Nat /\ Len(new) <= maxPerTenant
        /\ Len(new) <= Len(sem[t]) + 1
        /\ \A i \in DOMAIN new : new[i] = r \/ \E j \in DOMAIN sem[t] : new[i] = sem[t][j]
    <3> HIDE DEF t, r
    <3> QED BY <2>1, <2>2, AddedFacts
  <2>5. \A i \in DOMAIN new : RecordInv(new[i], t, dims')
    <3> HIDE DEF new, t, r
    <3> QED BY <1>6, <1>10, <2>3, <2>4
  <2>6. /\ sem' = [sem EXCEPT ![t] = new] /\ added' = added + 1
        /\ events' = [events EXCEPT !["evicted"] = @ + Len(sem[t]) + 1 - Len(new)]
    BY <1>11
  <2> HIDE DEF new, t, r, Adds
  <2>7. /\ \A u \in Tenants : sem'[u] = IF u = t THEN new ELSE sem[u]
        /\ sem' \in [Tenants -> Seq(Record)]
    BY <1>3, <2>4, <2>6 DEF Types
  <2>8. SemPart'
    <3>1. \A u \in Tenants : /\ Len(sem'[u]) <= maxPerTenant
                             /\ \A i \in DOMAIN sem'[u] : RecordInv(sem'[u][i], u, dims')
      <4> SUFFICES ASSUME NEW u \in Tenants
                   PROVE  /\ Len(sem'[u]) <= maxPerTenant
                          /\ \A i \in DOMAIN sem'[u] : RecordInv(sem'[u][i], u, dims')
        OBVIOUS
      <4>1. CASE u = t
        BY <4>1, <2>4, <2>5, <2>7
      <4>2. CASE u # t
        <5>1. sem'[u] = sem[u]
          BY <4>2, <2>7
        <5> QED BY <5>1, <1>3, <1>10 DEF SemPart
      <4> QED BY <4>1, <4>2
    <3> QED BY <3>1 DEF SemPart, RecordInv
  <2>9. "evicted" \in Event /\ events \in [Event -> Nat] /\ events["evicted"] \in Nat /\ added \in Nat
    <3>1. "evicted" \in Event /\ events \in [Event -> Nat] /\ added \in Nat
      BY <1>3 DEF Types, Event
    <3> QED BY <3>1
  <2>10. events["evicted"] + Len(sem[t]) + 1 - Len(new) \in Nat
    BY <2>1, <2>4, <2>9
  <2>11. /\ events' \in [Event -> Nat]
         /\ events'["evicted"] = events["evicted"] + Len(sem[t]) + 1 - Len(new)
         /\ \A d \in Event : d # "evicted" => events'[d] = events[d]
    BY <2>6, <2>9, <2>10
  <2>v. /\ events'["exact_hit"] = events["exact_hit"] /\ events'["semantic_hit"] = events["semantic_hit"]
        /\ events'["miss"] = events["miss"] /\ events'["ineligible"] = events["ineligible"]
        /\ events'["stored"] = events["stored"] /\ events'["embed_failed"] = events["embed_failed"]
        /\ added' = added + 1
    BY <2>6, <2>11, EventNames
  <2>12. /\ Cardinality(Held) \in Nat /\ Cardinality(Held)' \in Nat
         /\ Cardinality(Held)' = Cardinality(Held) + Len(new) - Len(sem[t])
    BY <1>3, <1>6, <2>4, <2>6, HeldMoves
  <2>13. Types'
    BY <1>1, <1>3, <1>7, <1>8, <1>9, <2>6, <2>7, <2>9, <2>11 DEF Types
  <2>14. CountPart'
    <3>0. CountPart
      BY DEF LookupInv
    <3>n. /\ events["exact_hit"] \in Nat /\ events["semantic_hit"] \in Nat /\ events["miss"] \in Nat
          /\ events["ineligible"] \in Nat /\ events["stored"] \in Nat /\ events["evicted"] \in Nat
          /\ events["embed_failed"] \in Nat
          /\ asked \in Nat /\ paid \in Nat /\ declined \in Nat /\ added \in Nat /\ silent \in Nat
          /\ Cardinality(exact) \in Nat /\ Cardinality(Held) \in Int
      BY NumberFacts, SizeFacts
    <3>1. Enabled' => (events["exact_hit"] + events["miss"] + events["ineligible"] = asked)'
      <4>1. Enabled => events["exact_hit"] + events["miss"] + events["ineligible"] = asked
        BY <3>0 DEF CountPart
      <4> QED BY <4>1, <3>n, <1>s, <1>8, <1>9, <2>v
    <3>2. (events["miss"] + declined = events["semantic_hit"] + paid + Cardinality(Waits))'
      <4>1. events["miss"] + declined = events["semantic_hit"] + paid + Cardinality(Waits)
        BY <3>0 DEF CountPart
      <4> QED BY <4>1, <3>n, <1>s, <1>8, <1>9, <2>v
    <3>3. (events["stored"] + Cardinality(Holds) <= paid)'
      <4>1. events["stored"] + Cardinality(Holds) <= paid
        BY <3>0 DEF CountPart
      <4> QED BY <4>1, <3>n, <1>s, <1>8, <1>9, <2>v
    <3>4. (events["embed_failed"] + events["semantic_hit"] + added + Cardinality(Embedders)
             <= events["miss"] + events["stored"])'
      <4>1. events["embed_failed"] + events["semantic_hit"] + added + Cardinality(Embedders)
                <= events["miss"] + events["stored"]
        BY <3>0 DEF CountPart
      <4> QED BY <4>1, <3>n, <1>s, <1>8, <1>9, <2>v
    <3>5. (events["stored"] + added = events["evicted"] + silent + Cardinality(exact) + Cardinality(Held))'
      <4>1. events["stored"] + added = events["evicted"] + silent + Cardinality(exact) + Cardinality(Held)
        BY <3>0 DEF CountPart
      <4> DEFINE m == Len(new)
                 n == Len(sem[t])
      <4>2. /\ events["stored"] \in Int /\ added \in Int /\ events["evicted"] \in Int /\ silent \in Int
            /\ Cardinality(exact) \in Int /\ Cardinality(Held) \in Int /\ m \in Int /\ n \in Int
        BY <3>n, <2>1, <2>4
      <4>3. /\ events'["stored"] = events["stored"] /\ added' = added + 1
            /\ events'["evicted"] = events["evicted"] + n + 1 - m /\ silent' = silent
            /\ Cardinality(exact)' = Cardinality(exact) /\ Cardinality(Held)' = Cardinality(Held) + m - n
        BY <2>v, <2>11, <2>12, <1>s, <1>9
      <4> HIDE DEF m, n
      <4>4. events["stored"] + (added + 1)
               = (events["evicted"] + n + 1 - m) + silent + Cardinality(exact) + (Cardinality(Held) + m - n)
        BY <4>1, <4>2
      <4> QED BY <4>3, <4>4
    <3> QED BY <3>1, <3>2, <3>3, <3>4, <3>5 DEF CountPart
  <2> QED BY <1>8, <1>9, <2>8, <2>13, <2>14 DEF LookupInv
<1>12. CASE UNCHANGED <<sem, events, added>>
  <2>1. SemPart' /\ Cardinality(Held)' = Cardinality(Held)
    <3>1. \A u \in Tenants : /\ Len(sem'[u]) <= maxPerTenant
                             /\ \A i \in DOMAIN sem'[u] : RecordInv(sem'[u][i], u, dims')
      BY <1>3, <1>10, <1>12 DEF SemPart
    <3>2. Held' = Held
      BY <1>12 DEF Held
    <3> QED BY <3>1, <3>2 DEF SemPart, RecordInv
  <2>2. Types'
    BY <1>1, <1>3, <1>7, <1>8, <1>9, <1>12 DEF Types
  <2>3. events' = events /\ added' = added /\ events \in [Event -> Nat]
    BY <1>12, NumberFacts
  <2>4. events'["embed_failed"] + Cardinality(Embedders)' <= events["embed_failed"] + Cardinality(Embedders)
    BY <1>8, <2>3, NumberFacts
  <2>5. CountPart'
    BY <1>s, <1>8, <1>9, <2>1, <2>3, <2>4, CountsKept
  <2> QED BY <1>8, <1>9, <2>1, <2>2, <2>5 DEF LookupInv
<1> QED BY <1>2, <1>11, <1>12

LEMMA TickStep ==
  ASSUME LookupInv, Tick \/ UNCHANGED vars
  PROVE  LookupInv'
<1>1. /\ clock' \in {clock, clock + 1} /\ clock' \in 0..MaxClock
      /\ UNCHANGED <<tiers, exact, sem, dims, events, ask, asked, faults, paid, declined, added, silent>>
  BY LookupAssumption DEF Tick, vars, LookupInv, Types
<1>2. Types /\ AsksPart /\ ExactPart /\ SemPart /\ CountPart
  BY DEF LookupInv
<1>3. Types'
  BY <1>1, <1>2 DEF Types
<1>4. AsksPart' /\ ExactPart' /\ SemPart'
  <2>1. AsksPart'
    BY <1>1, <1>2, ZenonT(40) DEF AsksPart, AskInv, Covered
  <2>2. ExactPart' /\ SemPart'
    BY <1>1, <1>2, ExactKept, SemKept
  <2> QED BY <2>1, <2>2
<1>5. CountPart'
  <2>1. Waits' = Waits /\ Holds' = Holds /\ Embedders' = Embedders /\ Held' = Held /\ (Enabled' <=> Enabled)
    BY <1>1 DEF Waits, Waiting, Holds, Holding, Embedders, Embeds, Held, Enabled
  <2> QED BY <1>1, <1>2, <2>1 DEF CountPart
<1> QED BY <1>3, <1>4, <1>5 DEF LookupInv

LEMMA InitHolds == Init => LookupInv
<1> SUFFICES ASSUME Init PROVE LookupInv
  OBVIOUS
<1>1. Types
  <2>1. <<>> \in Seq(Record)
    BY EmptySeq
  <2>2. ask \in [Asks -> Request]
    BY IdleFacts DEF Init
  <2>3. 0 \in 0..MaxAsks /\ 0 \in 0..MaxClock
    BY LookupAssumption
  <2> QED BY <2>1, <2>2, <2>3 DEF Init, Types
<1>2. \A a \in Asks : ask[a] = Idle
  BY DEF Init
<1>e. IsFiniteSet({}) /\ Cardinality({}) = 0 /\ exact = {}
  BY FS_EmptySet DEF Init
<1>3. AsksPart /\ ExactPart
  <2>1. AsksPart
    BY <1>2, IdleFacts DEF AsksPart
  <2> QED BY <2>1, <1>e, BoundFacts DEF ExactPart
<1>4. \A t \in Tenants : sem[t] = <<>> /\ Len(sem[t]) = 0 /\ DOMAIN sem[t] = {}
  BY DEF Init
<1>5. SemPart
  BY <1>4, BoundFacts DEF SemPart
<1>6. CountPart
  <2>1. Waits = {} /\ Holds = {} /\ Embedders = {}
    BY <1>2, IdleFacts DEF Waits, Holds, Embedders
  <2>2. Held = {}
    BY <1>4 DEF Held
  <2>3. \A e \in Event : events[e] = 0
    BY DEF Init
  <2>4. /\ events["exact_hit"] = 0 /\ events["semantic_hit"] = 0 /\ events["miss"] = 0
        /\ events["ineligible"] = 0 /\ events["stored"] = 0 /\ events["evicted"] = 0
        /\ events["embed_failed"] = 0
    BY <2>3, EventNames
  <2>5. asked = 0 /\ paid = 0 /\ declined = 0 /\ added = 0 /\ silent = 0
    BY DEF Init
  <2> QED BY <1>e, <2>1, <2>2, <2>4, <2>5 DEF CountPart
<1> QED BY <1>1, <1>3, <1>5, <1>6 DEF LookupInv

LEMMA LookupStep == LookupInv /\ [Next]_vars => LookupInv'
<1> SUFFICES ASSUME LookupInv, [Next]_vars PROVE LookupInv'
  OBVIOUS
<1>1. ASSUME NEW a \in Asks, NEW c \in DOMAIN Callers,
             Disabled(a, c) \/ Refused(a, c) \/ ExactHit(a, c) \/ ExactMiss(a, c)
      PROVE  LookupInv'
  BY <1>1, DisabledStep, RefusedStep, ExactHitStep, ExactMissStep
<1>2. ASSUME NEW a \in Asks,
             Embed(a) \/ Nearest(a) \/ Return(a) \/ Decline(a) \/ Answered(a)
             \/ CallFails(a) \/ Put(a) \/ NotPut(a) \/ Add(a)
      PROVE  LookupInv'
  BY <1>2, EmbedStep, NearestStep, LeaveStep, DeclineStep, AnsweredStep, CallFailsStep, PutStep, AddStep
<1> QED BY <1>1, <1>2, TickStep DEF Next, Unasked

THEOREM LookupInvariant == Spec => []LookupInv
BY InitHolds, LookupStep, PTL DEF Spec

-----------------------------------------------------------------------------
(* The theorems *)

\* cache.Event: whatever is asked, embedded late, declined, replaced, expired or dropped,
\* every request is reported once as refused, hit or missed, a miss or a declined hit
\* ends as one semantic hit or one paid call, no answer is reported stored twice, every
\* awaited embedding is reported at most once, and what the two tiers took and no longer
\* hold was reported as evicted or left the exact tier by expiry or replacement.
THEOREM EventsAreCountedOnce == Spec => []EventsCountedOnce
<1>1. LookupInv => EventsCountedOnce
  <2> SUFFICES ASSUME LookupInv PROVE EventsCountedOnce
    OBVIOUS
  <2>1. TypeOK
    <3>1. \A t \in Tenants : /\ Len(sem[t]) <= maxPerTenant
                             /\ \A r \in ToSet(sem[t]) : r.vector.width = dims
      <4> SUFFICES ASSUME NEW t \in Tenants
                   PROVE  /\ Len(sem[t]) <= maxPerTenant
                          /\ \A r \in ToSet(sem[t]) : r.vector.width = dims
        OBVIOUS
      <4>1. \A i \in DOMAIN sem[t] : sem[t][i].vector.width = dims
        BY HeldFacts DEF RecordInv
      <4> QED BY <4>1 DEF ToSet, LookupInv, SemPart
    <3>2. {events[e] : e \in Event} \subseteq Nat
      BY DEF LookupInv, Types
    <3>3. Cardinality(exact) <= maxEntries
      BY DEF LookupInv, ExactPart
    <3> QED BY <3>1, <3>2, <3>3 DEF TypeOK, LookupInv, Types
  <2>2. /\ Waits = Eligibles \cap Where({"embedding", "nearest", "calling"})
        /\ Holds = Eligibles \cap Where({"answered"})
        /\ Embedders = Where({"embedding", "nearest", "putting", "adding"})
    BY DEF Waits, Waiting, Holds, Holding, Embedders, Embeds, Eligibles, Where
  <2>3. CountPart
    BY DEF LookupInv
  <2> QED BY <2>1, <2>2, <2>3 DEF EventsCountedOnce, CountPart
<1> QED BY <1>1, LookupInvariant, PTL

\* Bodies with one hash are put upstream in the same words by every adapter, but for
\* the fields of an OpenAI style body that are not hashed.
LEMMA SameHashSameWords ==
  ASSUME NEW b \in Body, NEW d \in Body, NEW model, canonicalize(b) = canonicalize(d)
  PROVE  Sampled(b, model) = Sampled(d, model)
<1> DEFINE Fields == {"readable", "model", "messages", "temperature", "top_p", "tools", "seed", "logprobs",
                      "n", "max_tokens", "max_completion_tokens", "stop", "stream", "stream_options",
                      "user", "metadata"}
           Kept == Fields \ unhashedFields
<1>1. DOMAIN b = Fields /\ DOMAIN d = Fields
  BY DEF Body
<1>2. \A f \in Kept : b[f] = d[f]
  <2>1. /\ \A f \in Kept : canonicalize(b)[f] = b[f]
        /\ \A f \in Kept : canonicalize(d)[f] = d[f]
    <3> HIDE DEF Fields
    <3> QED BY <1>1 DEF canonicalize
  <2> HIDE DEF Kept
  <2> QED BY <2>1
<1>3. /\ b.messages = d.messages /\ b.temperature = d.temperature /\ b.top_p = d.top_p
      /\ b.max_tokens = d.max_tokens /\ b.max_completion_tokens = d.max_completion_tokens
      /\ b.stop = d.stop
  <2>1. {"messages", "temperature", "top_p", "max_tokens", "max_completion_tokens", "stop"} \subseteq Kept
    BY DEF unhashedFields
  <2> HIDE DEF Kept
  <2> QED BY <1>2, <2>1
<1>4. maxTokens(b) = maxTokens(d) /\ outputTokenLimit(b) = outputTokenLimit(d)
  BY <1>3 DEF maxTokens, outputTokenLimit
<1>5. messagesRequest(b, model, FALSE) = messagesRequest(d, model, FALSE)
  BY <1>3, <1>4 DEF messagesRequest
<1>6. geminiRequest(b) = geminiRequest(d)
  BY <1>3, <1>4 DEF geminiRequest
<1> DEFINE Sent == Fields \ {"user", "metadata", "stream_options"}
           profile == [streamUsage |-> TRUE]
<1>7. \A x \in Body : \A f \in Sent :
         withStreamUsage(x, model, FALSE, profile)[f]
            = IF f = "model" THEN model ELSE IF f = "stream" THEN FALSE ELSE x[f]
  <2> SUFFICES ASSUME NEW x \in Body, NEW f \in Sent
               PROVE  withStreamUsage(x, model, FALSE, profile)[f]
                         = IF f = "model" THEN model ELSE IF f = "stream" THEN FALSE ELSE x[f]
    OBVIOUS
  <2>1. DOMAIN x = Fields
    BY DEF Body
  <2>2. f \in DOMAIN x /\ f # "stream_options"
    BY <2>1
  <2> HIDE DEF Fields, Sent
  <2> QED BY <2>1, <2>2 DEF withStreamUsage
<1>8. \A f \in Sent : withStreamUsage(b, model, FALSE, profile)[f] = withStreamUsage(d, model, FALSE, profile)[f]
  <2>1. \A f \in Sent : f = "model" \/ f = "stream" \/ f \in Kept
    BY DEF unhashedFields
  <2> HIDE DEF Sent, Kept, Fields, profile
  <2> QED BY <1>2, <1>7, <2>1
<1>9. [f \in DOMAIN b \ {"user", "metadata", "stream_options"} |->
          withStreamUsage(b, model, FALSE, [streamUsage |-> TRUE])[f]]
      = [f \in DOMAIN d \ {"user", "metadata", "stream_options"} |->
          withStreamUsage(d, model, FALSE, [streamUsage |-> TRUE])[f]]
  <2> HIDE DEF Fields
  <2> QED BY <1>1, <1>8
<1> HIDE DEF Fields, Kept, Sent, profile
<1> QED BY <1>5, <1>6, <1>9 DEF Sampled

\* BuildKey against the adapters: a caller the exact tier serves asked, as the same
\* tenant and of the same model, what Anthropic and Gemini would be sent in the same
\* words as the request the answer was made for, and an OpenAI style upstream too apart
\* from user, metadata and stream_options; the policy refuses neither.
THEOREM ExactTierAnswers == Spec => []ExactAnswersTheQuestion
<1>1. LookupInv => ExactAnswersTheQuestion
  <2> SUFFICES ASSUME LookupInv, NEW a \in Asks, ask[a].pc = "served", ~ask[a].semantic
               PROVE  LET asker == Of(ask[a].who) maker == Of(ask[a].entry)
                      IN  /\ asker.tenant = maker.tenant /\ asker.model = maker.model
                          /\ Sampled(asker.body, asker.model) = Sampled(maker.body, maker.model)
                          /\ Refusal[ask[a].who] = "" /\ Refusal[ask[a].entry] = ""
    BY Zenon DEF ExactAnswersTheQuestion
  <2> DEFINE w == ask[a].who
             e == ask[a].entry
  <2>1. AskInv(ask[a])
    BY AskFacts
  <2>2. w \in DOMAIN Callers /\ e \in DOMAIN Callers /\ Key[e] = Key[w] /\ Refusal[w] = "" /\ Refusal[e] = ""
    BY <2>1 DEF AskInv
  <2> HIDE DEF w, e
  <2>3. /\ Key[w] = BuildKey(Of(w).tenant, Of(w).model, Of(w).body)
        /\ Key[e] = BuildKey(Of(e).tenant, Of(e).model, Of(e).body)
    BY <2>2 DEF Key
  <2>4. /\ Of(w).tenant = Of(e).tenant /\ Of(w).model = Of(e).model
        /\ canonicalize(Of(w).body) = canonicalize(Of(e).body)
    <3>1. /\ Key[w].tenant = Of(w).tenant /\ Key[w].model = Of(w).model
          /\ Key[w].hash[2] = canonicalize(Of(w).body)
      BY <2>3 DEF BuildKey
    <3>2. /\ Key[e].tenant = Of(e).tenant /\ Key[e].model = Of(e).model
          /\ Key[e].hash[2] = canonicalize(Of(e).body)
      BY <2>3 DEF BuildKey
    <3> QED BY <2>2, <3>1, <3>2, Zenon
  <2>5. Of(w).body \in Body /\ Of(e).body \in Body
    BY <2>2, CallerFacts
  <2>6. Sampled(Of(w).body, Of(w).model) = Sampled(Of(e).body, Of(w).model)
    BY <2>4, <2>5, SameHashSameWords
  <2> QED BY <2>2, <2>4, <2>6 DEF w, e
<1> QED BY <1>1, LookupInvariant, PTL

\* The estimator against the adapters and the bill, for every price, every n and every
\* count a vendor may make of the prompt: the bill covers all that was produced, and with
\* a readable body and one positive cap it exceeds the reservation at most by the further
\* answers of n and by the prompt tokens the estimate missed.
THEOREM BillWithinReservation == Spec => []WithinReservation
<1>1. LookupInv => WithinReservation
  <2> SUFFICES ASSUME LookupInv, NEW a \in Asks, ask[a].pc = "answered"
               PROVE  Covered(ask[a].who, ask[a].output, ask[a].usage)
    BY DEF WithinReservation, Covered
  <2> QED BY AskFacts DEF AskInv
<1> QED BY <1>1, LookupInvariant, PTL

\* A step that takes a request from its search to an answer is Nearest.
LEMMA OnlyNearestServes ==
  ASSUME LookupInv, [Next]_vars, NEW a \in Asks, ask[a].pc = "nearest", ask'[a].pc = "served"
  PROVE  Nearest(a) /\ Found(a) # 0 /\ ask'[a].entry = Found(a)
<1>0. ask \in [Asks -> Request] /\ Idle.pc = "idle"
  BY IdleFacts DEF LookupInv, Types
<1>1. ASSUME NEW b \in Asks, NEW q, ask' = [ask EXCEPT ![b] = q]
      PROVE  ask'[b] = q /\ (b # a => ask'[a] = ask[a])
  BY <1>0, <1>1
<1>2. ASSUME NEW b \in Asks, NEW c \in DOMAIN Callers,
             Disabled(b, c) \/ Refused(b, c) \/ ExactHit(b, c) \/ ExactMiss(b, c)
      PROVE  FALSE
  <2>1. PICK q : ask[b].pc = "idle" /\ ask' = [ask EXCEPT ![b] = q]
    BY <1>2 DEF Disabled, Refused, ExactHit, ExactMiss, Begins, Unasked
  <2> QED BY <2>1, <1>1
<1>3. ASSUME NEW b \in Asks,
             \/ Embed(b) \/ Return(b) \/ Decline(b) \/ Answered(b) \/ CallFails(b) \/ Put(b)
             \/ NotPut(b) \/ Add(b)
      PROVE  FALSE
  <2>1. PICK q : ask[b].pc # "nearest" /\ ask' = [ask EXCEPT ![b] = q]
    BY <1>3 DEF Embed, Answered, CallFails, Put, NotPut, Add, Return, Decline, Step
  <2> QED BY <2>1, <1>1
<1>4. ASSUME Tick \/ UNCHANGED vars PROVE FALSE
  BY <1>4 DEF Tick, vars
<1>5. PICK b \in Asks : Nearest(b)
  BY <1>2, <1>3, <1>4 DEF Next, Unasked
<1>6. \E q : ask' = [ask EXCEPT ![b] = q]
  BY <1>5 DEF Nearest, Step
<1>7. b = a
  BY <1>1, <1>6
<1>8. \/ /\ Found(a) # 0
         /\ ask' = [ask EXCEPT ![a] = [ask[a] EXCEPT !.pc = "served", !.semantic = TRUE, !.entry = Found(a),
                                                     !.vector = NoVector, !.now = 0]]
      \/ ask' = [ask EXCEPT ![a] = [ask[a] EXCEPT !.pc = "calling", !.vector = NoVector, !.now = 0]]
  BY <1>5, <1>7, Zenon DEF Nearest, Found, Step
<1>9. ask[a] \in Request
  BY <1>0
<1>10. ask' # [ask EXCEPT ![a] = [ask[a] EXCEPT !.pc = "calling", !.vector = NoVector, !.now = 0]]
  <2>1. [ask[a] EXCEPT !.pc = "calling", !.vector = NoVector, !.now = 0].pc = "calling"
    BY <1>9 DEF Request
  <2> QED BY <1>1, <2>1
<1> DEFINE f == Found(a)
           r == [ask[a] EXCEPT !.pc = "served", !.semantic = TRUE, !.entry = f,
                               !.vector = NoVector, !.now = 0]
<1>11. f # 0 /\ ask' = [ask EXCEPT ![a] = r]
  BY <1>8, <1>10
<1>12. r.entry = f
  <2> HIDE DEF f
  <2> QED BY <1>9 DEF Request
<1> HIDE DEF r
<1>13. ask'[a] = r
  BY <1>1, <1>11
<1> QED BY <1>5, <1>7, <1>11, <1>12, <1>13

\* Nearest: whatever was added, dropped or expired while the embedder was awaited, a
\* semantic hit answers a caller of the same tenant with a record that was fresh when
\* the clock was read, at or above the threshold, and as close as any that was fresh.
THEOREM SemanticHitsAreEarned == Spec => SemanticHitEarned
<1> DEFINE Earned(a) ==
      LET asker == Of(ask[a].who)
          like(c) == Likeness[ask[a].who][c]
          fresh == {r \in ToSet(sem[asker.tenant]) : TTL = 0 \/ r.storedAt > ask[a].now - TTL}
      IN  ask[a].pc = "nearest" /\ ask'[a].pc = "served" =>
            /\ \E r \in fresh : r.by = ask'[a].entry
            /\ Of(ask'[a].entry).tenant = asker.tenant
            /\ like(ask'[a].entry) >= threshold
            /\ \A r \in fresh : like(r.by) <= like(ask'[a].entry)
<1>1. LookupInv /\ [Next]_vars => [\A a \in Asks : Earned(a)]_vars
  <2> SUFFICES ASSUME LookupInv, [Next]_vars, NEW a \in Asks,
                      ask[a].pc = "nearest", ask'[a].pc = "served"
               PROVE  Earned(a)
    BY Zenon
  <2> DEFINE w == ask[a].who
             t == Of(w).tenant
             now == ask[a].now
             v == ask[a].vector
             fresh == {r \in ToSet(sem[t]) : TTL = 0 \/ r.storedAt > now - TTL}
             e == ask'[a].entry
             score(i) == cosineSimilarity(v, sem[t][i].vector)
             close(i) == ~expired(sem[t][i].storedAt, now) /\ score(i) >= threshold
  <2>1. Found(a) # 0 /\ e = Found(a)
    BY OnlyNearestServes
  <2>2. /\ t \in Tenants /\ w \in DOMAIN Callers /\ v.of = w /\ v.width = dims /\ now \in Nat
        /\ \E i \in DOMAIN sem[t] :
              /\ Found(a) = sem[t][i].by /\ close(i)
              /\ \A j \in DOMAIN sem[t] : close(j) => score(j) <= score(i)
    BY <2>1, FoundFacts, Zenon
  <2>3. PICK i \in DOMAIN sem[t] : /\ e = sem[t][i].by /\ close(i)
                                   /\ \A j \in DOMAIN sem[t] : close(j) => score(j) <= score(i)
    BY <2>1, <2>2, Zenon
  <2>4. \A j \in DOMAIN sem[t] :
           /\ sem[t][j].by \in DOMAIN Callers /\ sem[t][j].storedAt \in Nat
           /\ Of(sem[t][j].by).tenant = t
           /\ sem[t][j].vector.of = sem[t][j].by /\ sem[t][j].vector.width = dims
    <3> HIDE DEF t
    <3> QED BY <2>2, HeldFacts DEF RecordInv
  <2>5. \A j \in DOMAIN sem[t] : score(j) = Likeness[w][sem[t][j].by] /\ score(j) \in Int
    <3> SUFFICES ASSUME NEW j \in DOMAIN sem[t]
                 PROVE  score(j) = Likeness[w][sem[t][j].by] /\ score(j) \in Int
      OBVIOUS
    <3>1. score(j) = Likeness[w][sem[t][j].by]
      <4> HIDE DEF w, t, v
      <4> QED BY <2>2, <2>4 DEF cosineSimilarity
    <3>2. Likeness[w][sem[t][j].by] \in Int
      <4> HIDE DEF w, t
      <4> QED BY <2>2, <2>4, LookupAssumption
    <3> QED BY <3>1, <3>2
  <2>6. \A j \in DOMAIN sem[t] :
           ~expired(sem[t][j].storedAt, now) <=> (TTL = 0 \/ sem[t][j].storedAt > now - TTL)
    <3>1. \A x, y \in Nat : ~(TTL > 0 /\ y - x >= TTL) <=> (TTL = 0 \/ x > y - TTL)
      BY LookupAssumption
    <3> HIDE DEF t, now
    <3> QED BY <2>2, <2>4, <3>1 DEF expired
  <2>7. \A r \in fresh : \E j \in DOMAIN sem[t] : r = sem[t][j] /\ ~expired(sem[t][j].storedAt, now)
    <3>1. \A r \in fresh : \E j \in DOMAIN sem[t] : r = sem[t][j]
      BY DEF ToSet
    <3> HIDE DEF t
    <3> QED BY <2>6, <3>1
  <2>8. sem[t][i] \in fresh
    <3>1. sem[t][i] \in ToSet(sem[t])
      BY DEF ToSet
    <3>2. TTL = 0 \/ sem[t][i].storedAt > now - TTL
      BY <2>3, <2>6, Zenon
    <3> QED BY <3>1, <3>2
  <2>9. Likeness[w][e] >= threshold /\ Likeness[w][e] = score(i) /\ Of(e).tenant = t
    BY <2>3, <2>4, <2>5, Zenon
  <2>10. ASSUME NEW r \in fresh PROVE Likeness[w][r.by] <= Likeness[w][e]
    <3>1. PICK j \in DOMAIN sem[t] : r = sem[t][j] /\ ~expired(sem[t][j].storedAt, now)
      BY <2>7, Zenon
    <3>2. score(j) = Likeness[w][r.by] /\ score(j) \in Int /\ score(i) \in Int /\ threshold \in Int
      BY <3>1, <2>5, BoundFacts, Zenon
    <3>3. close(j) => score(j) <= score(i)
      BY <2>3, Zenon
    <3>4. score(i) >= threshold
      BY <2>3, Zenon
    <3>5. close(j) <=> score(j) >= threshold
      BY <3>1, Zenon
    <3>6. score(j) <= score(i)
      <4> HIDE DEF score, close
      <4> QED BY <3>2, <3>3, <3>4, <3>5
    <3>7. Likeness[w][r.by] = score(j) /\ Likeness[w][e] = score(i)
      BY <3>2, <2>9, Zenon
    <3> HIDE DEF score, w, e
    <3> QED BY <3>6, <3>7
  <2>11. \E r \in fresh : r.by = e
    BY <2>3, <2>8, Zenon
  <2> QED BY <2>9, <2>10, <2>11, Zenon
<1> QED BY <1>1, LookupInvariant, PTL DEF Spec, SemanticHitEarned
=============================================================================
