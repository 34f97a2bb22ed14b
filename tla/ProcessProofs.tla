---------------------------- MODULE ProcessProofs ----------------------------
(***************************************************************************)
(* Proofs about Process, for any number of requests, any configuration     *)
(* files, any number of starts and failed writes, and a crash at any       *)
(* point.  ProcessInv is inductive.  Its core is Kept: where a request is  *)
(* in its handler says which of the three books, memory, store and ledger, *)
(* may and must have counted it.  A save writes the charges of others too, *)
(* so Kept speaks of memory and store together, and a snapshot never holds *)
(* more than memory.                                                       *)
(***************************************************************************)
EXTENDS Process, SumsProofs, FiniteSetTheorems

\* The phases in which handlers may run.
Running == {"serving", "draining_admin", "draining", "closing", "ledger_closed", "closed"}

\* What run keeps of the file, while it runs.
Books == Wired(cfg)

\* A handler's record.  The tenant is whatever the key led to.
Shape(q) ==
    q \in [pc: Inside \cup Resting \cup {"limit"}, path: {q.path}, tenant: {q.tenant},
           status: {q.status}, panicked: BOOLEAN, snap: {q.snap}]

Wiring ==
    /\ wired = IF phase \in {"off", "loading"} THEN Unwired ELSE Books
    /\ phase \notin {"off", "loading"} => Load(Files[file])

Handles ==
    /\ "store" \in open => Readable
    /\ phase \in {"migrating", "store_open"} => "store" \in open
    /\ wired.store /\ phase \in {"wiring", "wired"} \cup (Running \ {"closed"}) => "store" \in open
    /\ wired.ledger /\ phase \in {"ledger_open", "migrating", "store_open", "wiring", "wired"}
                                 \cup (Running \ {"ledger_closed", "closed"}) => "ledger" \in open

Seats == slots = Cardinality({r \in Reqs : h[r].pc \in Inside}) /\ slots <= wired.maxInflight

\* No handler runs and no claim is open before the process serves and after it is gone.
Unserved == phase \notin Running => Quiet /\ claims = {}

Stopping ==
    /\ late # {} => phase \in {"ledger_closed", "closed", "off"}
    /\ drained => phase \in {"closing", "ledger_closed", "closed", "off"}
    /\ drained /\ phase # "off" => Quiet /\ late = {}

Uncharged == {"idle", "limit", "handling", "calling", "relaying", "settling"}

\* What is known of one request, in memory, on file and in its handler.
Kept(r) ==
    /\ h[r].pc \in {"idle", "limit", "handling", "calling"} => h[r].status = 0 /\ ~h[r].panicked
    /\ h[r].pc \in Uncharged => r \notin charged \cup store.row
    /\ r \in claims => /\ r \notin charged
                       /\ \/ h[r].pc \in {"calling", "relaying", "settling"}
                          \/ /\ h[r].pc \in {"leaving", "returned"}
                             /\ h[r].panicked /\ h[r].status \in {0, 500}
    /\ h[r].pc = "saving" => Books.store /\ r \in h[r].snap /\ h[r].snap \subseteq charged
    /\ Books.store => /\ r \in ledger \/ h[r].pc = "recording" => r \in store.row \cup unsaved
                      /\ r \in charged => h[r].pc = "saving" \/ r \in store.row \cup unsaved
    /\ Books.ledger =>
          (r \in charged \cup store.row /\ h[r].pc \in {"leaving", "returned"} => r \in ledger \cup unlogged)

ProcessInv ==
    /\ TypeOK /\ Wiring /\ Handles /\ Seats /\ Unserved /\ Stopping
    /\ DOMAIN h = Reqs /\ \A r \in Reqs : Shape(h[r]) /\ Kept(r)

-----------------------------------------------------------------------------
(* The file, and what it becomes *)

\* The last of some places of a list is one of them.
LEMMA MaxIsIn ==
  ASSUME NEW n \in Nat, NEW S \in SUBSET (1..n), S # {}
  PROVE  Max(S) \in S
<1> DEFINE T == {k \in 0..n : n - k \in S}
<1>1. PICK s \in S : TRUE
  OBVIOUS
<1>2. PICK x \in T : \A y \in T : x <= y
  <2>1. T \in SUBSET Nat /\ n - s \in T
    BY <1>1
  <2> HIDE DEF T
  <2> QED BY <2>1, LeastElement
<1>3. n - x \in S /\ \A y \in S : n - x >= y
  <2>1. n - x \in S /\ x \in 0..n
    BY <1>2
  <2>2. ASSUME NEW y \in S PROVE n - x >= y
    <3>1. y \in 1..n /\ n - y \in 0..n /\ n - (n - y) = y
      OBVIOUS
    <3>2. n - y \in T
      BY <3>1
    <3>3. x <= n - y
      BY <1>2, <3>2
    <3> QED BY <2>1, <3>1, <3>3
  <2> QED BY <2>1, <2>2
<1>4. \E m \in S : \A y \in S : m >= y
  BY <1>3
<1> QED BY <1>4 DEF Max

\* What an entry of the keySet is.
Owner == STRING \cup {AnonymousTenant}
Entry == [key: STRING, tenant: Owner]

\* The entries of some keys are those of the keys that are not empty.
LEMMA EntriesFacts ==
  ASSUME NEW ks \in Seq(STRING), NEW tenant \in Owner
  PROVE  /\ Entries(ks, tenant) \in Seq(Entry)
         /\ \A e : e \in Items(Entries(ks, tenant)) <=>
                \E i \in DOMAIN ks : ks[i] # "" /\ e = [key |-> ks[i], tenant |-> tenant]
<1> DEFINE n == Len(ks)
           one(i) == [key |-> ks[i], tenant |-> tenant]
           f == [i \in DOMAIN ks |-> IF ks[i] = "" THEN <<>> ELSE <<[key |-> ks[i], tenant |-> tenant]>>]
<1>1. n \in Nat /\ DOMAIN ks = 1..n /\ \A i \in 1..n : ks[i] \in STRING
  BY LenProperties
<1>2. \A i \in 1..n : f[i] = IF ks[i] = "" THEN <<>> ELSE <<one(i)>>
  BY <1>1
<1>3. DOMAIN f = 1..n /\ f = [i \in 1..n |-> f[i]]
  BY <1>1
<1>4. Entries(ks, tenant) = JoinTo(f, n)
  BY DEF Entries
<1>5. \A i \in 1..n : one(i) \in Entry
  BY <1>1 DEF Entry
<1> HIDE DEF f, one, n
<1>6. ASSUME NEW i \in 1..n
      PROVE  f[i] \in Seq(Entry) /\ \A e : e \in Items(f[i]) <=> ks[i] # "" /\ e = one(i)
  <2>1. CASE ks[i] = ""
    <3>1. f[i] = <<>> /\ <<>> \in Seq(Entry)
      BY <1>2, <2>1, EmptySeq
    <3>2. DOMAIN <<>> = {}
      OBVIOUS
    <3>3. Items(f[i]) = {}
      BY <3>1, <3>2, Zenon DEF Items
    <3> QED BY <2>1, <3>1, <3>3
  <2>2. CASE ks[i] # ""
    <3>1. f[i] = <<one(i)>> /\ one(i) \in Entry
      BY <1>2, <1>5, <2>2
    <3>2. <<one(i)>> \in Seq(Entry) /\ DOMAIN <<one(i)>> = {1} /\ <<one(i)>>[1] = one(i)
      BY <3>1
    <3>3. Items(<<one(i)>>) = {one(i)}
      BY <3>2 DEF Items
    <3>4. \A e : e \in {one(i)} <=> e = one(i)
      OBVIOUS
    <3> QED BY <2>2, <3>1, <3>2, <3>3, <3>4, Zenon
  <2> QED BY <2>1, <2>2
<1>7. f \in [1..n -> Seq(Entry)]
  BY <1>3, <1>6
<1>8. /\ JoinTo(f, n) \in Seq(Entry)
      /\ \A e : e \in Items(JoinTo(f, n)) <=> \E i \in 1..n : e \in Items(f[i])
  BY <1>1, <1>7, JoinFacts
<1>9. \A e : e \in Items(JoinTo(f, n)) <=> \E i \in DOMAIN ks : ks[i] # "" /\ e = one(i)
  BY <1>1, <1>6, <1>8, Zenon
<1> QED BY <1>4, <1>8, <1>9 DEF one

\* A server's keys are those it was given and those of every tenant.
LEMMA WithFacts ==
  ASSUME NEW set \in Seq(Entry), NEW T, NEW order \in Seq(T),
         \A t \in T : t.name \in STRING /\ t.keys \in Seq(STRING)
  PROVE  /\ WithTenantKeys(set, order) \in Seq(Entry)
         /\ \A e : e \in Items(WithTenantKeys(set, order)) <=>
                \/ e \in Items(set)
                \/ \E t \in Items(order) : e \in Items(Entries(t.keys, t.name))
<1> DEFINE n == Len(order)
           f == [i \in DOMAIN order |-> Entries(order[i].keys, order[i].name)]
<1>1. n \in Nat /\ DOMAIN order = 1..n /\ \A i \in 1..n : order[i] \in T
  BY LenProperties
<1>2. DOMAIN f = 1..n /\ f = [i \in 1..n |-> f[i]]
      /\ \A i \in 1..n : f[i] = Entries(order[i].keys, order[i].name)
  BY <1>1
<1>3. WithTenantKeys(set, order) = set \o JoinTo(f, n)
  BY DEF WithTenantKeys
<1> HIDE DEF f, n
<1>4. ASSUME NEW i \in 1..n PROVE f[i] \in Seq(Entry)
  <2>1. order[i].name \in Owner /\ order[i].keys \in Seq(STRING)
    BY <1>1 DEF Owner
  <2>2. Entries(order[i].keys, order[i].name) \in Seq(Entry)
    BY <2>1, EntriesFacts
  <2> QED BY <1>2, <2>2
<1>5. f \in [1..n -> Seq(Entry)]
  BY <1>2, <1>4
<1>6. /\ JoinTo(f, n) \in Seq(Entry)
      /\ \A e : e \in Items(JoinTo(f, n)) <=> \E i \in 1..n : e \in Items(f[i])
  BY <1>1, <1>5, JoinFacts
<1>7. /\ set \o JoinTo(f, n) \in Seq(Entry)
      /\ \A e : e \in Items(set \o JoinTo(f, n)) <=> e \in Items(set) \/ e \in Items(JoinTo(f, n))
  BY <1>6, ConcatItems
<1>8. \A e : (\E i \in 1..n : e \in Items(f[i])) <=> \E t \in Items(order) : e \in Items(Entries(t.keys, t.name))
  <2>1. \A i \in 1..n : order[i] \in Items(order)
    BY <1>1 DEF Items
  <2>2. \A t \in Items(order) : \E i \in 1..n : t = order[i]
    BY <1>1 DEF Items
  <2>3. ASSUME NEW e, NEW i \in 1..n, e \in Items(f[i])
        PROVE  \E t \in Items(order) : e \in Items(Entries(t.keys, t.name))
    BY <1>2, <2>1, <2>3
  <2>4. ASSUME NEW e, NEW t \in Items(order), e \in Items(Entries(t.keys, t.name))
        PROVE  \E i \in 1..n : e \in Items(f[i])
    BY <1>2, <2>2, <2>4
  <2> QED BY <2>3, <2>4
<1> QED BY <1>3, <1>6, <1>7, <1>8, Zenon

\* The map's order is some order of the tenants, and of all of them.
LEMMA OrderFacts ==
  ASSUME NEW S, NEW tenants \in Seq(S), NEW order \in SetToSeqs(ToSet(tenants))
  PROVE  order \in Seq(ToSet(tenants)) /\ Items(order) = ToSet(tenants)
<1> DEFINE T == ToSet(tenants)
           D == 1..Cardinality(T)
<1>1. DOMAIN tenants = 1..Len(tenants) /\ Len(tenants) \in Nat
  BY LenProperties
<1>2. IsFiniteSet(T) /\ Cardinality(T) \in Nat
  <2>1. tenants \in Surjection(1..Len(tenants), T)
    <3>1. \A i \in 1..Len(tenants) : tenants[i] \in T
      BY <1>1 DEF ToSet
    <3>2. \A t \in T : \E i \in 1..Len(tenants) : tenants[i] = t
      BY <1>1 DEF ToSet
    <3> HIDE DEF T
    <3>3. tenants \in [1..Len(tenants) -> T]
      BY <1>1, <3>1
    <3> QED BY <3>2, <3>3 DEF Surjection
  <2>2. IsFiniteSet(1..Len(tenants))
    BY <1>1, FS_Interval
  <2> HIDE DEF T
  <2> QED BY <2>1, <2>2, FS_Surjection, FS_CardinalityType
<1>3. order \in [D -> T] /\ \A i, j \in D : i # j => order[i] # order[j]
  BY DEF SetToSeqs
<1> HIDE DEF T
<1>4. IsFiniteSet(D) /\ Cardinality(D) = Cardinality(T)
  BY <1>2, FS_Interval
<1>5. order \in Injection(D, T)
  BY <1>3 DEF Injection, IsInjective
<1> HIDE DEF D
<1>6. order \in Surjection(D, T)
  BY <1>2, <1>4, <1>5, FS_Injection
<1>7. order \in Seq(T)
  BY <1>2, <1>3, SeqDef DEF D
<1>8. DOMAIN order = D /\ \A t \in T : \E i \in D : order[i] = t
  BY <1>3, <1>6 DEF Surjection
<1>9. Items(order) = T
  BY <1>3, <1>8 DEF Items
<1> QED BY <1>7, <1>9 DEF T

\* A list is a sequence, of whatever it holds.
Listed(s) == s \in Seq(Items(s))

\* What a loaded file is made of.
LEMMA LoadedFacts ==
  ASSUME NEW c, Decoded(c)
  PROVE  LET l == Loaded(c)
         IN  /\ l.server.maxInflight \in Int
             /\ l.auth.clientKeys \in Seq(STRING)
             /\ Listed(l.auth.tenants) /\ Listed(l.providers) /\ Listed(l.routes)
             /\ \A t \in Items(l.auth.tenants) : t.name \in STRING /\ t.keys \in Seq(STRING)
             /\ \A r \in Items(l.routes) : r.provider \in STRING /\ r.providers \in Seq(STRING)
<1> DEFINE x == expandSecrets(c)
           l == Loaded(c)
           T == [name: STRING, keys: Seq(STRING), limits: {t.limits : t \in ToSet(c.auth.tenants)}]
           P == [name: STRING, kind: STRING, baseURL: STRING, apiKey: STRING, models: SUBSET STRING]
<1>1. /\ x.auth.clientKeys = expandClientKeys(c.auth.clientKeys)
      /\ x.auth.tenants = expandTenantKeys(c.auth.tenants)
      /\ x.providers = expandAPIKeys(c.providers)
      /\ x.routes = c.routes /\ x.server = c.server
      /\ DOMAIN x = DOMAIN c
  <2>1. /\ DOMAIN c = {"unknownField", "logLevel", "server", "auth", "accounting", "cache",
                       "router", "providers", "routes"}
        /\ DOMAIN c.auth = {"clientKeys", "tenants"}
    BY DEF Decoded
  <2> QED BY <2>1 DEF expandSecrets
<1>2. /\ l.auth = x.auth /\ l.providers = x.providers /\ l.routes = x.routes
      /\ l.server.maxInflight = OrDefault(c.server.maxInflight, 0, DefaultMaxInflight)
  <2>1. /\ DOMAIN x = {"unknownField", "logLevel", "server", "auth", "accounting", "cache",
                       "router", "providers", "routes"}
        /\ DOMAIN x.server = {"listen", "timeouts", "maxInflight"}
        /\ x.server = c.server
    BY <1>1 DEF Decoded
  <2> HIDE DEF x
  <2>2. l = applyDefaults(x)
    BY DEF Loaded, x
  <2> HIDE DEF l
  <2> QED BY <2>1, <2>2 DEF applyDefaults
<1> HIDE DEF x, l
<1>3. l.server.maxInflight \in Int
  <2>1. c.server.maxInflight \in Int /\ DefaultMaxInflight \in Int
    <3>1. c.server.maxInflight \in Int
      BY DEF Decoded
    <3>2. DefaultMaxInflight \in Nat
      BY ConfigAssumption, Zenon
    <3> QED BY <3>1, <3>2
  <2> QED BY <1>2, <2>1 DEF OrDefault
<1>4. \A s \in STRING : expandEnvRefs(s) \in STRING
  BY ConfigAssumption DEF expandEnvRefs
<1>5. ASSUME NEW ks \in Seq(STRING) PROVE expandClientKeys(ks) \in Seq(STRING)
  <2>1. DOMAIN ks = 1..Len(ks) /\ Len(ks) \in Nat /\ \A i \in 1..Len(ks) : ks[i] \in STRING
    BY LenProperties
  <2>2. expandClientKeys(ks) \in [1..Len(ks) -> STRING]
    BY <1>4, <2>1 DEF expandClientKeys
  <2> QED BY <2>1, <2>2, SeqDef
<1>6. l.auth.clientKeys \in Seq(STRING)
  <2>1. c.auth.clientKeys \in Seq(STRING)
    BY DEF Decoded
  <2> QED BY <1>1, <1>2, <1>5, <2>1
<1>7. ASSUME NEW S, NEW s \in Seq(S) PROVE Listed(s)
  <2>1. DOMAIN s = 1..Len(s) /\ Len(s) \in Nat
    BY LenProperties
  <2>2. \A i \in 1..Len(s) : s[i] \in Items(s)
    BY <2>1 DEF Items
  <2> QED BY <2>1, <2>2, SeqDef DEF Listed
<1>8. Listed(l.routes) /\ \A r \in Items(l.routes) : r.provider \in STRING /\ r.providers \in Seq(STRING)
  <2> DEFINE R == [model: STRING, provider: STRING, providers: Seq(STRING), strategy: STRING,
                   providerModels: {r.providerModels : r \in ToSet(c.routes)}]
  <2>1. l.routes \in Seq(R)
    BY <1>1, <1>2 DEF Decoded
  <2>2. \A r \in R : r.provider \in STRING /\ r.providers \in Seq(STRING)
    OBVIOUS
  <2> HIDE DEF R
  <2> QED BY <1>7, <2>1, <2>2 DEF Items
<1>9. Listed(l.providers)
  <2>1. c.providers \in Seq(P)
    BY DEF Decoded
  <2> HIDE DEF P
  <2>2. DOMAIN l.providers = 1..Len(c.providers) /\ Len(c.providers) \in Nat
    BY <1>1, <1>2, <2>1, LenProperties DEF expandAPIKeys
  <2>3. l.providers = [i \in 1..Len(c.providers) |-> l.providers[i]]
    BY <1>1, <1>2, <2>2 DEF expandAPIKeys
  <2>4. \A i \in 1..Len(c.providers) : l.providers[i] \in Items(l.providers)
    BY <2>2 DEF Items
  <2> QED BY <2>2, <2>3, <2>4, SeqDef DEF Listed
<1>10. Listed(l.auth.tenants) /\ \A t \in Items(l.auth.tenants) : t.name \in STRING /\ t.keys \in Seq(STRING)
  <2> DEFINE ts == c.auth.tenants
             us == l.auth.tenants
  <2>1. ts \in Seq(T)
    BY DEF Decoded
  <2>2. \A t \in T : /\ t.name \in STRING /\ t.keys \in Seq(STRING)
                     /\ DOMAIN t = {"name", "keys", "limits"}
    OBVIOUS
  <2>3. us = [i \in DOMAIN ts |-> [ts[i] EXCEPT !.keys = expandClientKeys(@)]]
    BY <1>1, <1>2 DEF expandTenantKeys
  <2> HIDE DEF T, ts, us
  <2>4. DOMAIN ts = 1..Len(ts) /\ Len(ts) \in Nat /\ \A i \in 1..Len(ts) : ts[i] \in T
    BY <2>1, LenProperties
  <2>5. ASSUME NEW i \in 1..Len(ts) PROVE us[i].name \in STRING /\ us[i].keys \in Seq(STRING)
    <3>1. ts[i].name \in STRING /\ ts[i].keys \in Seq(STRING) /\ DOMAIN ts[i] = {"name", "keys", "limits"}
      BY <2>2, <2>4
    <3>2. us[i].name = ts[i].name /\ us[i].keys = expandClientKeys(ts[i].keys)
      BY <2>3, <2>4, <3>1
    <3> QED BY <1>5, <3>1, <3>2
  <2>6. DOMAIN us = 1..Len(ts) /\ us = [i \in 1..Len(ts) |-> us[i]]
    BY <2>3, <2>4
  <2>7. \A i \in 1..Len(ts) : us[i] \in Items(us)
    BY <2>6 DEF Items
  <2>8. Listed(us)
    BY <2>4, <2>6, <2>7, SeqDef DEF Listed
  <2> QED BY <2>5, <2>6, <2>8 DEF Items, us
<1> QED BY <1>3, <1>6, <1>8, <1>9, <1>10 DEF l

\* The providers a route names are a list.
LEMMA ChainFacts ==
  ASSUME NEW r, r.provider \in STRING, r.providers \in Seq(STRING)
  PROVE  /\ Chain(r) \in Seq(STRING)
         /\ Chain(r) # <<>> => Head(Chain(r)) \in ToSet(Chain(r))
<1>1. Chain(r) \in Seq(STRING)
  <2>1. <<r.provider>> \in Seq(STRING) /\ <<>> \in Seq(STRING)
    BY EmptySeq
  <2> QED BY <2>1 DEF Chain
<1> DEFINE s == Chain(r)
<1> HIDE DEF s
<1>2. ASSUME s \in Seq(STRING), s # <<>> PROVE Head(s) \in ToSet(s)
  <2>1. DOMAIN s = 1..Len(s) /\ Len(s) \in Nat /\ Len(s) # 0
    BY <1>2, EmptySeq, LenProperties
  <2>2. 1 \in DOMAIN s /\ Head(s) = s[1]
    BY <1>2, <2>1, HeadTailProperties
  <2> QED BY <2>2 DEF ToSet
<1> QED BY <1>1, <1>2 DEF s

\* A file that Load accepts can be built.
LEMMA AcceptedBuilds ==
  ASSUME NEW c, Validate(c)
  PROVE  BuildAll(c) /\ buildRoutes(c)
<1>1. BuildAll(c)
  <2>1. AllKinds \subseteq Registered
    BY DEF AllKinds, Registered, profiles
  <2>2. "" \notin ValidURL
    BY ConfigAssumption, Zenon
  <2>3. /\ Distinct(NamesOf(c.providers))
        /\ \A p \in ToSet(c.providers) : p.kind \in AllKinds /\ p.baseURL \in ValidURL
    BY DEF Validate, validateProviders
  <2> QED BY <2>1, <2>2, <2>3, Zenon DEF BuildAll
<1>2. ASSUME NEW r \in ToSet(c.routes)
      PROVE  /\ ToSet(Chain(r)) \subseteq ToSet(NamesOf(c.providers))
             /\ strategyOrDefault(r.strategy) \in AllStrategies
             /\ Chain(r) # <<>> /\ Distinct(Chain(r))
  <2>1. /\ Chain(r) # <<>> /\ Distinct(Chain(r)) /\ r.strategy \in AllStrategies \cup {""}
        /\ \A n \in ToSet(Chain(r)) : \E p \in ToSet(c.providers) : p.name = n
    BY DEF Validate, validateRoutes, validRoute
  <2>2. strategyOrDefault(r.strategy) \in AllStrategies
    BY <2>1 DEF strategyOrDefault, OrDefault, AllStrategies
  <2>3. \A p \in ToSet(c.providers) : p.name \in ToSet(NamesOf(c.providers))
    BY DEF ToSet, NamesOf
  <2> QED BY <2>1, <2>2, <2>3
<1> QED BY <1>1, <1>2 DEF buildRoutes

\* Every model an accepted file routes has a vendor to be priced by.
LEMMA EveryModelPriced ==
  ASSUME NEW c, Validate(c), Listed(c.providers), Listed(c.routes),
         \A r \in Items(c.routes) : r.provider \in STRING /\ r.providers \in Seq(STRING),
         NEW r0 \in ToSet(c.routes)
  PROVE  routePricing(c, r0.model).kind # ""
<1> DEFINE ps == c.providers
           rs == c.routes
           at == {i \in DOMAIN rs : rs[i].model = r0.model /\ Chain(rs[i]) # <<>>}
           r == rs[Max(at)]
           first == Head(Chain(r))
           on == {i \in DOMAIN ps : ps[i].name = first}
<1>1. /\ DOMAIN rs = 1..Len(rs) /\ Len(rs) \in Nat
      /\ DOMAIN ps = 1..Len(ps) /\ Len(ps) \in Nat
  BY LenProperties DEF Listed
<1>2. \A q \in ToSet(rs) : Chain(q) # <<>> /\ \A n \in ToSet(Chain(q)) : \E p \in ToSet(ps) : p.name = n
  BY DEF Validate, validateRoutes, validRoute
<1>3. \A p \in ToSet(ps) : p.kind \in AllKinds
  BY DEF Validate, validateProviders
<1>4. Max(at) \in at
  <2>1. at # {}
    <3>1. PICK i \in DOMAIN rs : r0 = rs[i]
      BY DEF ToSet
    <3>2. i \in at
      BY <1>2, <3>1
    <3> QED BY <3>2
  <2>2. at \in SUBSET (1..Len(rs))
    BY <1>1
  <2> HIDE DEF at
  <2> QED BY <1>1, <2>1, <2>2, MaxIsIn
<1>5. r \in ToSet(rs) /\ r \in Items(rs)
  <2>1. Max(at) \in DOMAIN rs
    BY <1>4
  <2> HIDE DEF at
  <2> QED BY <2>1 DEF ToSet, Items
<1> HIDE DEF r
<1>6. first \in ToSet(Chain(r))
  BY <1>2, <1>5, ChainFacts
<1> HIDE DEF first
<1>7. Max(on) \in on
  <2>1. on # {}
    <3>1. PICK p \in ToSet(ps) : p.name = first
      BY <1>2, <1>5, <1>6
    <3>2. PICK i \in DOMAIN ps : p = ps[i]
      BY DEF ToSet
    <3>3. i \in on
      BY <3>1, <3>2
    <3> QED BY <3>3
  <2>2. on \in SUBSET (1..Len(ps))
    BY <1>1
  <2> HIDE DEF on
  <2> QED BY <1>1, <2>1, <2>2, MaxIsIn
<1>8. ps[Max(on)].kind # ""
  <2>1. ps[Max(on)] \in ToSet(ps)
    <3>1. Max(on) \in DOMAIN ps
      BY <1>7
    <3> HIDE DEF on
    <3> QED BY <3>1 DEF ToSet
  <2> HIDE DEF on
  <2>2. "" \notin AllKinds
    BY DEF AllKinds
  <2> QED BY <1>3, <2>1, <2>2
<1>9. on # {} /\ at # {}
  BY <1>4, <1>7
<1>10. providerKinds(c, first) = ps[Max(on)].kind
  BY <1>9 DEF providerKinds
<1>11. routePricing(c, r0.model).kind = providerKinds(c, first)
  BY <1>9 DEF routePricing, r, first
<1> QED BY <1>8, <1>10, <1>11

\* The entries a file asks for, wherever they come in the server's list.
IsEntry(c, e) ==
    \/ \E i \in DOMAIN c.auth.clientKeys :
          /\ c.auth.clientKeys[i] # ""
          /\ e = [key |-> c.auth.clientKeys[i], tenant |-> AnonymousTenant]
    \/ \E t \in ToSet(c.auth.tenants) : \E j \in DOMAIN t.keys :
          t.keys[j] # "" /\ e = [key |-> t.keys[j], tenant |-> t.name]

Indexed(c, order) == WithTenantKeys(newKeySet(c.auth.clientKeys), order)

\* What a list needs of a loaded file.
AuthTyped(c) ==
    /\ c.auth.clientKeys \in Seq(STRING) /\ Listed(c.auth.tenants)
    /\ \A t \in Items(c.auth.tenants) : t.name \in STRING /\ t.keys \in Seq(STRING)

\* In whatever order the map is read, the server holds the same entries.
LEMMA KeysInAnyOrder ==
  ASSUME NEW c, AuthTyped(c), NEW order \in tenantKeys(c)
  PROVE  /\ Indexed(c, order) \in Seq(Entry)
         /\ \A e : e \in Items(Indexed(c, order)) <=> IsEntry(c, e)
<1> DEFINE ts == c.auth.tenants
           T == ToSet(ts)
           ck == c.auth.clientKeys
<1>1. ts \in Seq(T) /\ \A t \in T : t.name \in STRING /\ t.keys \in Seq(STRING)
  BY DEF AuthTyped, Listed, Items, ToSet
<1>2. ck \in Seq(STRING) /\ AnonymousTenant \in Owner
  <2>1. ck \in Seq(STRING)
    BY DEF AuthTyped
  <2>2. AnonymousTenant \in Owner
    BY DEF Owner
  <2> QED BY <2>1, <2>2
<1>3. order \in SetToSeqs(T)
  BY DEF tenantKeys
<1>4. Indexed(c, order) = WithTenantKeys(Entries(ck, AnonymousTenant), order)
  BY DEF Indexed, newKeySet
<1>5. order \in Seq(T) /\ Items(order) = T
  <2> HIDE DEF ts
  <2> QED BY <1>1, <1>3, OrderFacts
<1>a. \A e : IsEntry(c, e) <=> (\/ \E i \in DOMAIN ck : ck[i] # "" /\ e = [key |-> ck[i], tenant |-> AnonymousTenant]
                               \/ \E t \in T : \E j \in DOMAIN t.keys :
                                     t.keys[j] # "" /\ e = [key |-> t.keys[j], tenant |-> t.name])
  BY Zenon DEF IsEntry
<1> HIDE DEF T, ts, ck
<1>6. /\ Entries(ck, AnonymousTenant) \in Seq(Entry)
      /\ \A e : e \in Items(Entries(ck, AnonymousTenant)) <=>
             \E i \in DOMAIN ck : ck[i] # "" /\ e = [key |-> ck[i], tenant |-> AnonymousTenant]
  BY <1>2, EntriesFacts, Zenon
<1>7. /\ Indexed(c, order) \in Seq(Entry)
      /\ \A e : e \in Items(Indexed(c, order)) <=>
             \/ e \in Items(Entries(ck, AnonymousTenant))
             \/ \E t \in T : e \in Items(Entries(t.keys, t.name))
  <2> DEFINE set == Entries(ck, AnonymousTenant)
  <2>1. set \in Seq(Entry)
    BY <1>6
  <2> HIDE DEF set
  <2>2. /\ WithTenantKeys(set, order) \in Seq(Entry)
        /\ \A e : e \in Items(WithTenantKeys(set, order)) <=>
               \/ e \in Items(set)
               \/ \E t \in Items(order) : e \in Items(Entries(t.keys, t.name))
    BY <1>1, <1>5, <2>1, WithFacts, Zenon
  <2> QED BY <1>4, <1>5, <2>2, Zenon DEF set
<1>8. ASSUME NEW t \in T, NEW e
      PROVE  e \in Items(Entries(t.keys, t.name)) <=>
                \E j \in DOMAIN t.keys : t.keys[j] # "" /\ e = [key |-> t.keys[j], tenant |-> t.name]
  <2>1. t.keys \in Seq(STRING) /\ t.name \in Owner
    BY <1>1 DEF Owner
  <2> QED BY <2>1, EntriesFacts, Zenon
<1>9. ASSUME NEW e PROVE e \in Items(Indexed(c, order)) <=> IsEntry(c, e)
  <2> DEFINE Owned(t) == \E j \in DOMAIN t.keys : t.keys[j] # "" /\ e = [key |-> t.keys[j], tenant |-> t.name]
             Anon == \E i \in DOMAIN ck : ck[i] # "" /\ e = [key |-> ck[i], tenant |-> AnonymousTenant]
  <2>1. IsEntry(c, e) <=> Anon \/ \E t \in T : Owned(t)
    BY <1>a, Zenon
  <2>2. \A t \in T : e \in Items(Entries(t.keys, t.name)) <=> Owned(t)
    BY <1>8, Zenon
  <2>3. e \in Items(Entries(ck, AnonymousTenant)) <=> Anon
    BY <1>6, Zenon
  <2> HIDE DEF Owned, Anon
  <2> QED BY <1>7, <2>1, <2>2, <2>3, Zenon
<1> QED BY <1>7, <1>9

\* In an accepted file two entries of one key are of one tenant.
LEMMA OneTenantPerKey ==
  ASSUME NEW c, validateAuth(c), NEW d, NEW e, IsEntry(c, d), IsEntry(c, e), d.key = e.key
  PROVE  d.tenant = e.tenant
<1> DEFINE ts == c.auth.tenants
           ck == c.auth.clientKeys
           Anon(x) == \E i \in DOMAIN ck : ck[i] # "" /\ x = [key |-> ck[i], tenant |-> AnonymousTenant]
           Owned(x) == \E t \in ToSet(ts) : \E j \in DOMAIN t.keys :
                          t.keys[j] # "" /\ x = [key |-> t.keys[j], tenant |-> t.name]
<1>1. (Anon(d) \/ Owned(d)) /\ (Anon(e) \/ Owned(e))
  BY Zenon DEF IsEntry
<1>2. ck = <<>> \/ ts = <<>>
  BY DEF validateAuth
<1>3. CASE ts = <<>>
  <2>1. ToSet(ts) = {}
    BY <1>3 DEF ToSet
  <2>2. Anon(d) /\ Anon(e)
    BY <1>1, <2>1, Zenon
  <2>3. ASSUME NEW x, Anon(x) PROVE x.tenant = AnonymousTenant
    <3>1. PICK i \in DOMAIN ck : x = [key |-> ck[i], tenant |-> AnonymousTenant]
      BY <2>3, Zenon
    <3> QED BY <3>1
  <2> HIDE DEF Anon
  <2> QED BY <2>2, <2>3
<1>4. CASE ck = <<>>
  <2>1. DOMAIN ck = {}
    BY <1>4
  <2>2. Owned(d) /\ Owned(e)
    BY <1>1, <2>1, Zenon
  <2>3. ASSUME NEW x, Owned(x)
        PROVE  \E i \in DOMAIN ts : \E j \in DOMAIN ts[i].keys :
                  x.key = ts[i].keys[j] /\ x.tenant = ts[i].name
    <3>1. PICK t \in ToSet(ts) : \E j \in DOMAIN t.keys : x = [key |-> t.keys[j], tenant |-> t.name]
      BY <2>3
    <3>2. PICK j \in DOMAIN t.keys : x = [key |-> t.keys[j], tenant |-> t.name]
      BY <3>1
    <3>3. PICK i \in DOMAIN ts : t = ts[i]
      BY DEF ToSet
    <3>4. x.key = t.keys[j] /\ x.tenant = t.name
      BY <3>2
    <3> QED BY <3>3, <3>4
  <2> HIDE DEF Owned
  <2>4. PICK i \in DOMAIN ts : \E j \in DOMAIN ts[i].keys : d.key = ts[i].keys[j] /\ d.tenant = ts[i].name
    BY <2>2, <2>3
  <2>5. PICK m \in DOMAIN ts : \E n \in DOMAIN ts[m].keys : e.key = ts[m].keys[n] /\ e.tenant = ts[m].name
    BY <2>2, <2>3
  <2>6. KeysApart(ts)
    BY DEF validateAuth
  <2>7. i = m
    BY <2>4, <2>5, <2>6, Zenon DEF KeysApart
  <2> QED BY <2>4, <2>5, <2>7
<1> QED BY <1>2, <1>3, <1>4

\* A key whose entries agree leads to their tenant.
LEMMA LookupAgrees ==
  ASSUME NEW s \in Seq(Entry), NEW e \in Items(s),
         \A d \in Items(s) : d.key = e.key => d.tenant = e.tenant
  PROVE  lookup(s, e.key) = [ok |-> TRUE, tenant |-> e.tenant]
<1> DEFINE at == {i \in DOMAIN s : s[i].key = e.key}
<1>1. DOMAIN s = 1..Len(s) /\ Len(s) \in Nat
  BY LenProperties
<1>2. at # {} /\ at \in SUBSET (1..Len(s))
  BY <1>1 DEF Items
<1>3. Max(at) \in at
  <2> HIDE DEF at
  <2> QED BY <1>1, <1>2, MaxIsIn
<1>4. Max(at) \in DOMAIN s /\ s[Max(at)].key = e.key
  BY <1>3
<1>5. lookup(s, e.key) = [ok |-> TRUE, tenant |-> s[Max(at)].tenant]
  BY <1>2 DEF lookup
<1> HIDE DEF at
<1>6. s[Max(at)].tenant = e.tenant
  BY <1>4 DEF Items
<1> QED BY <1>5, <1>6

\* An accepted file that has keys gives the server some.
LEMMA KeysAreHeld ==
  ASSUME NEW c, AuthTyped(c), validateAuth(c), NEW order \in tenantKeys(c), Indexed(c, order) = <<>>
  PROVE  isLoopbackListen(c.server.listen)
<1>1. \A e : ~IsEntry(c, e)
  <2>1. DOMAIN <<>> = {}
    OBVIOUS
  <2>2. Items(Indexed(c, order)) = {}
    BY <2>1, Zenon DEF Items
  <2> QED BY <2>2, KeysInAnyOrder
<1>2. /\ hasKeys(c.auth) \/ isLoopbackListen(c.server.listen)
      /\ (ToSet(c.auth.clientKeys) \cup TenantKeys(c.auth)) \cap Weak = {}
  BY DEF validateAuth
<1>3. "" \in Weak
  BY ConfigAssumption, Zenon
<1>4. c.auth.clientKeys = <<>>
  <2> DEFINE ck == c.auth.clientKeys
  <2> SUFFICES ASSUME ck # <<>> PROVE FALSE
    OBVIOUS
  <2>1. ck \in Seq(STRING)
    BY DEF AuthTyped
  <2>2. 1 \in DOMAIN ck
    <3> HIDE DEF ck
    <3> QED BY <2>1, EmptySeq, LenProperties
  <2>3. ck[1] \in ToSet(ck)
    BY <2>2 DEF ToSet
  <2>4. ck[1] # ""
    BY <1>2, <1>3, <2>3
  <2>5. IsEntry(c, [key |-> ck[1], tenant |-> AnonymousTenant])
    BY <2>2, <2>4, Zenon DEF IsEntry
  <2> QED BY <1>1, <2>5
<1>5. ASSUME NEW t \in ToSet(c.auth.tenants) PROVE t.keys = <<>>
  <2> DEFINE ks == t.keys
  <2> SUFFICES ASSUME ks # <<>> PROVE FALSE
    OBVIOUS
  <2>1. ks \in Seq(STRING)
    BY DEF AuthTyped, Items, ToSet
  <2>2. 1 \in DOMAIN ks
    <3> HIDE DEF ks
    <3> QED BY <2>1, EmptySeq, LenProperties
  <2>3. ks[1] \in TenantKeys(c.auth)
    <3>1. ks[1] \in ToSet(t.keys)
      BY <2>2 DEF ToSet
    <3> QED BY <3>1, Zenon DEF TenantKeys
  <2>4. ks[1] # ""
    BY <1>2, <1>3, <2>3
  <2>5. IsEntry(c, [key |-> ks[1], tenant |-> t.name])
    BY <2>2, <2>4, Zenon DEF IsEntry
  <2> QED BY <1>1, <2>5
<1>6. ~hasKeys(c.auth)
  BY <1>4, <1>5 DEF hasKeys
<1> QED BY <1>2, <1>6

\* An accepted file is typed and valid once it is loaded.
LEMMA AcceptedFile ==
  ASSUME file \in DOMAIN Files, Load(Files[file])
  PROVE  /\ Validate(cfg) /\ AuthTyped(cfg) /\ cfg.server.maxInflight \in Int
         /\ Listed(cfg.providers) /\ Listed(cfg.routes)
         /\ \A r \in Items(cfg.routes) : r.provider \in STRING /\ r.providers \in Seq(STRING)
<1>1. Decoded(Files[file])
  BY ProcessAssumption
<1>2. Validate(cfg)
  BY DEF Load, cfg
<1> QED BY <1>1, <1>2, LoadedFacts DEF cfg, AuthTyped

-----------------------------------------------------------------------------
(* Operators *)

\* What is wired, and what is not.
LEMMA BooksFacts ==
  /\ Books.store \in BOOLEAN /\ Books.ledger \in BOOLEAN
  /\ Unwired.store = FALSE /\ Unwired.ledger = FALSE /\ Unwired.maxInflight = 0
  /\ file \in DOMAIN Files /\ Load(Files[file]) => Books.maxInflight \in Nat
  /\ file' = file => Books' = Books
<1>1. Books.store \in BOOLEAN /\ Books.ledger \in BOOLEAN
  BY DEF Books, Wired
<1>2. Unwired.store = FALSE /\ Unwired.ledger = FALSE /\ Unwired.maxInflight = 0
  BY DEF Unwired
<1>3. file \in DOMAIN Files /\ Load(Files[file]) => Books.maxInflight \in Nat
  <2> SUFFICES ASSUME file \in DOMAIN Files, Load(Files[file]) PROVE Books.maxInflight \in Nat
    OBVIOUS
  <2>1. cfg.server.maxInflight \in Int /\ cfg.server.maxInflight >= 0
    BY AcceptedFile DEF Validate, validateServer
  <2> QED BY <2>1 DEF Books, Wired
<1>4. file' = file => Books' = Books
  BY DEF Books, cfg
<1> QED BY <1>1, <1>2, <1>3, <1>4

\* What a handler's record becomes: it moves on, ...
LEMMA MovesOn ==
  ASSUME NEW q, Shape(q), NEW pc \in Inside \cup Resting \cup {"limit"}
  PROVE  LET n == [q EXCEPT !.pc = pc]
         IN  Shape(n) /\ n.pc = pc /\ n.status = q.status /\ n.panicked = q.panicked
BY DEF Shape

\* ... answers, ...
LEMMA AnswersWith ==
  ASSUME NEW q, Shape(q), NEW pc \in Inside \cup Resting \cup {"limit"}, NEW s
  PROVE  LET n == Answers(q, s, pc)
         IN  /\ Shape(n) /\ n.pc = pc /\ n.panicked = q.panicked
             /\ n.status = IF q.status = 0 THEN s ELSE q.status
BY DEF Shape, Answers

\* ... and returns.
LEMMA ReturnedAs ==
  ASSUME NEW q, Shape(q)
  PROVE  LET n == Returned(q)
         IN  /\ Shape(n) /\ n.pc = "returned" /\ n.panicked = q.panicked
             /\ n.status = IF q.panicked /\ q.status = 0 THEN 500 ELSE q.status
<1> DEFINE c == IF q.panicked /\ q.status = 0 THEN 500 ELSE q.status
           n == [Fresh EXCEPT !.pc = "returned", !.tenant = q.tenant, !.panicked = q.panicked,
                              !.status = c]
<1>1. Returned(q) = n
  BY DEF Returned
<1>2. q.panicked = TRUE \/ q.panicked = FALSE
  BY DEF Shape
<1> HIDE DEF c
<1>3. Shape(n) /\ n.pc = "returned" /\ n.panicked = q.panicked /\ n.status = c
  <2>1. CASE q.panicked = TRUE
    BY <2>1 DEF Fresh, Resting, Shape
  <2>2. CASE q.panicked = FALSE
    BY <2>2 DEF Fresh, Resting, Shape
  <2> QED BY <1>2, <2>1, <2>2
<1> HIDE DEF n
<1> QED BY <1>1, <1>3 DEF c

\* A request whose handler does not move keeps what is known of it while the books
\* only take in what memory has counted.
LEMMA UntouchedKept ==
  ASSUME NEW r \in Reqs, Kept(r), h'[r] = h[r], file' = file,
         r \in claims' => r \in claims, r \in charged' => r \in charged, charged \subseteq charged',
         store.row \subseteq store'.row, store'.row \subseteq store.row \cup charged,
         r \in ledger' => r \in ledger, ledger \subseteq ledger',
         unsaved \subseteq unsaved', unlogged \subseteq unlogged'
  PROVE  Kept(r)'
<1>1. Books' = Books
  BY BooksFacts
<1> QED BY <1>1 DEF Kept

\* With nobody inside no slot is taken.
LEMMA NobodyInside ==
  ASSUME Quiet
  PROVE  Cardinality({r \in Reqs : h[r].pc \in Inside}) = 0
<1>1. {r \in Reqs : h[r].pc \in Inside} = {}
  BY DEF Quiet, Inside, Resting
<1> QED BY <1>1, FS_EmptySet

\* One handler moves: the slots taken are still one for each handler inside.
LEMMA SeatsMove ==
  ASSUME NEW r \in Reqs, NEW q, DOMAIN h = Reqs, h' = [h EXCEPT ![r] = q]
  PROVE  LET before == {o \in Reqs : h[o].pc \in Inside}
             after  == {o \in Reqs : h'[o].pc \in Inside}
         IN  /\ Cardinality(before) \in 0..Cardinality(Reqs)
             /\ Cardinality(after) \in 0..Cardinality(Reqs)
             /\ Cardinality(after) = Cardinality(before)
                   + (IF q.pc \in Inside THEN 1 ELSE 0) - (IF h[r].pc \in Inside THEN 1 ELSE 0)
<1> DEFINE before == {o \in Reqs : h[o].pc \in Inside}
           after  == {o \in Reqs : h'[o].pc \in Inside}
<1>1. IsFiniteSet(before) /\ Cardinality(before) \in 0..Cardinality(Reqs)
      /\ IsFiniteSet(after) /\ Cardinality(after) \in 0..Cardinality(Reqs)
  <2>1. before \in SUBSET Reqs /\ after \in SUBSET Reqs /\ IsFiniteSet(Reqs)
    BY ProcessAssumption
  <2>2. IsFiniteSet(before) /\ Cardinality(before) <= Cardinality(Reqs)
    BY <2>1, FS_Subset
  <2>3. IsFiniteSet(after) /\ Cardinality(after) <= Cardinality(Reqs)
    BY <2>1, FS_Subset
  <2> QED BY <2>1, <2>2, <2>3, FS_CardinalityType
<1>2. h'[r] = q /\ \A o \in Reqs \ {r} : h'[o] = h[o]
  OBVIOUS
<1>3. CASE q.pc \in Inside /\ h[r].pc \in Inside
  <2>1. after = before
    BY <1>2, <1>3
  <2> QED BY <1>1, <1>3, <2>1
<1>4. CASE q.pc \in Inside /\ h[r].pc \notin Inside
  <2>1. after = before \cup {r} /\ r \notin before
    BY <1>2, <1>4
  <2>2. Cardinality(after) = Cardinality(before) + 1
    BY <1>1, <2>1, FS_AddElement
  <2> QED BY <1>1, <1>4, <2>2
<1>5. CASE q.pc \notin Inside /\ h[r].pc \in Inside
  <2>1. after = before \ {r} /\ r \in before
    BY <1>2, <1>5
  <2>2. Cardinality(after) = Cardinality(before) - 1
    BY <1>1, <2>1, FS_RemoveElement
  <2> QED BY <1>1, <1>5, <2>2
<1>6. CASE q.pc \notin Inside /\ h[r].pc \notin Inside
  <2>1. after = before
    BY <1>2, <1>6
  <2>2. Cardinality(after) = Cardinality(before) /\ Cardinality(before) \in Nat
    BY <1>1, <2>1, FS_CardinalityType
  <2> HIDE DEF before, after
  <2>3. Cardinality(after) = Cardinality(before) + 0 - 0
    BY <2>2
  <2> USE DEF before, after
  <2> QED BY <1>1, <1>6, <2>3
<1> QED BY <1>1, <1>3, <1>4, <1>5, <1>6

-----------------------------------------------------------------------------
(* The process: its end, its boot, its way out *)

\* Wherever the process ends, what is on file is as the next start may find it.
LEMMA GoneKeeps ==
  ASSUME ProcessInv, Gone, refusal' \in {"none", "config", "build", "ledger", "store"},
         UNCHANGED <<file, store, ledger, starts, faults, unsaved, unlogged, late, drained>>
  PROVE  ProcessInv'
<1> USE DEF ProcessInv
<1>1. DOMAIN h' = Reqs /\ \A r \in Reqs : Shape(h'[r]) /\ h'[r].pc \in Resting /\
         (h'[r].pc # "killed" => h'[r] = h[r])
  <2> SUFFICES ASSUME NEW r \in Reqs
               PROVE  Shape(h'[r]) /\ h'[r].pc \in Resting /\ (h'[r].pc # "killed" => h'[r] = h[r])
    BY DEF Gone
  <2>1. CASE h[r].pc \in Resting
    BY <2>1 DEF Gone
  <2>2. CASE h[r].pc \notin Resting
    BY <2>2 DEF Gone, Fresh, Shape, Resting
  <2> QED BY <2>1, <2>2
<1>2. Quiet' /\ Cardinality({r \in Reqs : h[r].pc \in Inside})' = 0
  <2>1. Quiet'
    BY <1>1 DEF Quiet
  <2>2. {r \in Reqs : h'[r].pc \in Inside} = {}
    BY <1>1 DEF Inside, Resting
  <2> QED BY <2>1, <2>2, FS_EmptySet
<1>3. TypeOK'
  <2>1. 0 \in 0..Cardinality(Reqs)
    BY ProcessAssumption, FS_CardinalityType
  <2>2. \A r \in Reqs : h'[r].pc \in Inside \cup Resting \cup {"limit"}
    BY <1>1
  <2> QED BY <2>1, <2>2, ZenonT(40) DEF TypeOK, Gone
<1>4. ASSUME NEW r \in Reqs PROVE Kept(r)'
  <2>1. Books' = Books
    BY BooksFacts
  <2>2. Kept(r) /\ Shape(h'[r]) /\ h'[r].pc \in Resting /\ (h'[r].pc # "killed" => h'[r] = h[r])
    BY <1>1
  <2>3. r \notin claims' /\ r \notin charged'
    BY DEF Gone
  <2> QED BY <2>1, <2>2, <2>3 DEF Kept, Uncharged, Resting
<1>5. Wiring' /\ Handles' /\ Unserved' /\ Stopping'
  BY <1>2 DEF Wiring, Handles, Unserved, Stopping, Gone, Running
<1>6. Seats'
  <2>1. wired'.maxInflight = 0 /\ slots' = 0
    BY DEF Gone, Unwired
  <2> QED BY <1>2, <2>1 DEF Seats
<1> QED BY <1>1, <1>3, <1>4, <1>5, <1>6

\* A step of the process that leaves the handlers and the books alone.
LEMMA ProcessStep ==
  ASSUME ProcessInv, UNCHANGED <<file, h, slots, claims, charged, ledger, faults, unsaved, unlogged>>,
         store' \in [version: Nat, table: BOOLEAN, intact: BOOLEAN, row: {store.row}]
  PROVE  /\ DOMAIN h' = Reqs /\ \A r \in Reqs : Shape(h'[r]) /\ Kept(r)'
         /\ faults' \in 0..MaxFaults /\ file' \in DOMAIN Files
         /\ store' \in [version: Nat, table: BOOLEAN, intact: BOOLEAN, row: SUBSET Reqs]
         /\ slots' \in 0..Cardinality(Reqs)
         /\ {ledger', charged', claims', unsaved', unlogged'} \subseteq SUBSET Reqs
         /\ \A r \in Reqs : h'[r].pc \in Inside \cup Resting \cup {"limit"}
         /\ wired'.maxInflight = wired.maxInflight => Seats'
         /\ Quiet' <=> Quiet
<1> USE DEF ProcessInv
<1>1. ASSUME NEW r \in Reqs PROVE Shape(h'[r]) /\ Kept(r)'
  BY UntouchedKept
<1>2. wired'.maxInflight = wired.maxInflight => Seats'
  BY DEF Seats
<1>3. store' \in [version: Nat, table: BOOLEAN, intact: BOOLEAN, row: SUBSET Reqs]
  BY DEF TypeOK
<1> QED BY <1>1, <1>2, <1>3 DEF TypeOK, Quiet

\* Every step of the boot keeps the invariant.
LEMMA BootSteps ==
  ASSUME ProcessInv, Boots
  PROVE  ProcessInv'
<1> USE DEF ProcessInv
<1>1. store \in [version: Nat, table: BOOLEAN, intact: BOOLEAN, row: {store.row}]
  BY DEF TypeOK
<1>2. CASE Start
  <2>1. store' \in [version: Nat, table: BOOLEAN, intact: BOOLEAN, row: {store.row}]
    BY <1>1, <1>2 DEF Start
  <2>2. TypeOK'
    <3>1. starts' \in 0..MaxStarts
      BY <1>2, ProcessAssumption DEF TypeOK, Start
    <3>2. /\ UNCHANGED <<file, h, slots, claims, charged, ledger, faults, unsaved, unlogged, open, grace>>
          /\ phase' = "loading" /\ refusal' = "none" /\ drained' \in BOOLEAN /\ late' \in SUBSET Reqs
      BY <1>2 DEF Start
    <3> QED BY <2>1, <3>1, <3>2, ProcessStep DEF TypeOK
  <2>3. Wiring' /\ Handles' /\ Unserved' /\ Stopping'
    BY <1>2, <2>1, ProcessStep
       DEF Start, Wiring, Handles, Unserved, Stopping, Running, Unwired, Readable
  <2> QED BY <1>2, <2>1, <2>2, <2>3, ProcessStep DEF Start
<1>3. CASE Builds
  <2>1. Seats'
    <3>1. slots' = 0 /\ Cardinality({r \in Reqs : h'[r].pc \in Inside}) = 0
      BY <1>3, NobodyInside DEF Builds, Boot, Unserved, Running, Seats
    <3>2. wired'.maxInflight \in Nat
      BY <1>3, BooksFacts DEF Builds, Boot, TypeOK, Books
    <3> QED BY <3>1, <3>2 DEF Seats
  <2>2. TypeOK'
    BY <1>1, <1>3, ProcessStep DEF TypeOK, Builds, Boot
  <2>3. Handles' /\ Unserved' /\ Stopping'
    BY <1>1, <1>3, ProcessStep
       DEF Builds, Boot, Handles, Unserved, Stopping, Running, Readable
  <2>4. Wiring'
    BY <1>3, BooksFacts DEF Builds, Boot, Wiring, Books
  <2> QED BY <1>1, <1>3, <2>1, <2>2, <2>3, <2>4, ProcessStep DEF Builds, Boot
<1>4. CASE openLedger \/ OpenSQLiteStore \/ migrate \/ NoStore \/ Listen
  <2>1. /\ UNCHANGED <<file, h, slots, claims, charged, ledger, faults, unsaved, unlogged, wired,
                       starts, refusal, late, drained, grace>>
        /\ phase \notin {"off", "loading"} \cup Running
        /\ phase' \in {"ledger_open", "migrating", "store_open", "wiring", "serving"}
        /\ store' \in [version: Nat, table: BOOLEAN, intact: BOOLEAN, row: {store.row}]
        /\ open' \subseteq {"ledger", "store"}
    <3>1. CASE openLedger
      BY <1>1, <3>1 DEF openLedger, Boot, Running
    <3>2. CASE OpenSQLiteStore
      BY <1>1, <3>2 DEF OpenSQLiteStore, Boot, Running, TypeOK
    <3>3. CASE migrate
      <4>1. store' \in [version: Nat, table: BOOLEAN, intact: BOOLEAN, row: {store.row}]
        BY <1>1, <3>3 DEF migrate, schemaVersion
      <4> QED BY <3>3, <4>1 DEF migrate, Boot, Running, TypeOK
    <3>4. CASE NoStore \/ Listen
      BY <1>1, <3>4 DEF NoStore, Listen, Boot, Running, TypeOK
    <3> QED BY <1>4, <3>1, <3>2, <3>3, <3>4
  <2>2. TypeOK'
    BY <2>1, ProcessStep DEF TypeOK
  <2>3. Wiring' /\ Unserved' /\ Stopping'
    BY <2>1, ProcessStep, BooksFacts DEF Wiring, Unserved, Stopping, Running
  <2>4. Handles'
    <3>1. CASE openLedger
      BY <3>1 DEF openLedger, Boot, Handles, Running, Readable, HasLedger
    <3>2. CASE OpenSQLiteStore
      BY <3>2, <1>1 DEF OpenSQLiteStore, Boot, Handles, Running, Readable
    <3>3. CASE migrate
      BY <3>3, <1>1 DEF migrate, Boot, Handles, Running, Readable, schemaVersion
    <3>4. CASE NoStore
      BY <3>4 DEF NoStore, Boot, Handles, Running, Readable, HasStore
    <3>5. CASE Listen
      BY <3>5 DEF Listen, Boot, Handles, Running, Readable
    <3> QED BY <1>4, <3>1, <3>2, <3>3, <3>4, <3>5
  <2> QED BY <2>1, <2>2, <2>3, <2>4, ProcessStep
<1>5. CASE loadStore
  <2>1. /\ UNCHANGED <<file, h, slots, claims, ledger, faults, unsaved, unlogged, wired, store,
                       starts, refusal, late, drained, grace, open>>
        /\ phase = "store_open" /\ phase' = "wiring" /\ charged' = store.row
    BY <1>5 DEF loadStore, Boot
  <2>2. TypeOK' /\ Wiring' /\ Handles' /\ Seats' /\ Unserved' /\ Stopping'
    BY <2>1, BooksFacts
       DEF TypeOK, Wiring, Handles, Seats, Unserved, Stopping, Running, Readable, Quiet
  <2>3. ASSUME NEW r \in Reqs PROVE Kept(r)'
    <3>1. h[r].pc \in Resting /\ r \notin claims
      BY <2>1 DEF Unserved, Running, Quiet
    <3>2. Kept(r) /\ Books' = Books
      BY <2>1, BooksFacts
    <3> QED BY <2>1, <3>1, <3>2 DEF Kept, Uncharged, Resting
  <2> QED BY <2>1, <2>2, <2>3
<1>6. CASE buildGateway
  <2>1. /\ UNCHANGED <<file, h, slots, claims, charged, ledger, faults, unsaved, unlogged, wired, store,
                       starts, refusal, late, drained, grace, open>>
        /\ phase = "wiring" /\ phase' = "wired"
    BY <1>6 DEF buildGateway, bookVars
  <2>2. TypeOK' /\ Wiring' /\ Handles' /\ Unserved' /\ Stopping'
    BY <2>1, BooksFacts
       DEF TypeOK, Wiring, Handles, Unserved, Stopping, Running, Readable, Quiet
  <2> QED BY <1>1, <2>1, <2>2, ProcessStep
<1>7. CASE Rejects \/ CannotOpenLedger \/ RefusesStore \/ CannotOpenStore
  BY <1>7, GoneKeeps DEF Rejects, CannotOpenLedger, RefusesStore, CannotOpenStore, Refuse
<1> QED BY <1>2, <1>3, <1>4, <1>5, <1>6, <1>7 DEF Boots

\* Every step of the way out keeps it too, and so does a crash.
LEMMA StopSteps ==
  ASSUME ProcessInv, Signal \/ ListenerFails \/ Unwinds \/ Crash
  PROVE  ProcessInv'
<1> USE DEF ProcessInv
<1>1. CASE Exit \/ Crash
  BY <1>1, GoneKeeps DEF Exit, Crash, TypeOK
<1>2. CASE Signal \/ ListenerFails \/ AdminDrained \/ ShutdownReturns \/ Deadline \/ closeLedger \/ closeStore
  <2>1. /\ UNCHANGED <<file, h, slots, claims, charged, ledger, faults, unsaved, unlogged, wired, store,
                       starts, refusal, late>>
        /\ phase \in Running /\ phase' \in Running /\ open' \subseteq open /\ grace' \in BOOLEAN
        /\ drained' \in BOOLEAN
    BY <1>2 DEF Signal, ListenerFails, AdminDrained, ShutdownReturns, Deadline, closeLedger, closeStore,
                Unwind, bookVars, Running, TypeOK
  <2>2. store' \in [version: Nat, table: BOOLEAN, intact: BOOLEAN, row: {store.row}]
    BY <2>1 DEF TypeOK
  <2>3. TypeOK'
    BY <2>1, <2>2, ProcessStep DEF TypeOK, Running
  <2>4. Wiring' /\ Unserved'
    BY <2>1, BooksFacts DEF Wiring, Unserved, Running
  <2>5. Handles'
    <3>1. "store" \in open' => Readable'
      BY <2>1 DEF Handles, Readable
    <3>2. phase' \in Running \ {"closed"} => phase \in Running \ {"closed"} /\ "store" \in open <=> "store" \in open'
      BY <1>2, <2>1 DEF Signal, ListenerFails, AdminDrained, ShutdownReturns, Deadline, closeLedger,
                closeStore, Unwind, Running
    <3> QED BY <1>2, <2>1, <3>1, <3>2
         DEF Signal, ListenerFails, AdminDrained, ShutdownReturns, Deadline, closeLedger, closeStore,
             Unwind, Running, Handles
  <2>6. Stopping'
    <3>1. CASE ShutdownReturns
      BY <3>1, <2>1, <2>2, ProcessStep
         DEF ShutdownReturns, Finished, Unwind, Stopping, TypeOK
    <3>2. CASE ~ShutdownReturns
      BY <1>2, <3>2, <2>1, <2>2, ProcessStep
         DEF Signal, ListenerFails, AdminDrained, Deadline, closeLedger, closeStore, Unwind, Stopping
    <3> QED BY <3>1, <3>2
  <2> QED BY <2>1, <2>2, <2>3, <2>4, <2>5, <2>6, ProcessStep
<1> QED BY <1>1, <1>2 DEF Unwinds

-----------------------------------------------------------------------------
(* The handlers *)

\* A handler moves.  It is enough to look at its own request, if it found the files
\* closed only after run had closed them.
LEMMA HandlerStep ==
  ASSUME ProcessInv, NEW r \in Reqs, NEW q, Shape(q), h' = [h EXCEPT ![r] = q],
         UNCHANGED <<procVars, drained>>,
         h[r].pc \notin Resting \/ (h[r].pc = "idle" /\ Listening),
         slots' = slots + (IF q.pc \in Inside THEN 1 ELSE 0) - (IF h[r].pc \in Inside THEN 1 ELSE 0),
         slots' <= wired.maxInflight, faults' \in 0..MaxFaults,
         store' \in [version: {store.version}, table: BOOLEAN, intact: {store.intact}, row: SUBSET Reqs],
         store.row \subseteq store'.row, store'.row \subseteq store.row \cup charged,
         claims' \ {r} = claims \ {r}, charged' \ {r} = charged \ {r}, charged \subseteq charged',
         ledger' \ {r} = ledger \ {r}, ledger \subseteq ledger',
         unsaved \subseteq unsaved', unlogged \subseteq unlogged',
         {ledger', charged', claims', unsaved', unlogged', late'} \subseteq SUBSET Reqs,
         late' = late \/ phase \in {"ledger_closed", "closed"},
         Kept(r)'
  PROVE  ProcessInv'
<1> USE DEF ProcessInv
<1>1. /\ DOMAIN h' = Reqs /\ h'[r] = q /\ \A o \in Reqs \ {r} : h'[o] = h[o]
      /\ UNCHANGED <<file, phase, refusal, wired, open, grace, starts>>
  BY DEF procVars
<1>2. phase \in Running /\ ~(drained /\ phase # "off")
  BY DEF Unserved, Stopping, Listening, Running, Quiet
<1>3. ASSUME NEW o \in Reqs PROVE Shape(h'[o]) /\ Kept(o)'
  <2>1. CASE o = r
    BY <1>1, <2>1
  <2>2. CASE o # r
    BY <1>1, <2>2, UntouchedKept
  <2> QED BY <2>1, <2>2
<1>4. Seats' /\ slots' \in 0..Cardinality(Reqs)
  <2>1. slots \in Nat /\ slots = Cardinality({o \in Reqs : h[o].pc \in Inside})
    BY DEF Seats, TypeOK
  <2>2. /\ slots' = Cardinality({o \in Reqs : h'[o].pc \in Inside})
        /\ slots' \in 0..Cardinality(Reqs)
    BY <2>1, SeatsMove
  <2> QED BY <1>1, <2>2 DEF Seats
<1>5. TypeOK'
  <2>1. \A o \in Reqs : h'[o].pc \in Inside \cup Resting \cup {"limit"}
    BY <1>3 DEF Shape
  <2>2. store' \in [version: Nat, table: BOOLEAN, intact: BOOLEAN, row: SUBSET Reqs]
    BY DEF TypeOK
  <2> QED BY <1>1, <1>4, <2>1, <2>2 DEF TypeOK
<1>6. Wiring' /\ Handles' /\ Unserved' /\ Stopping'
  <2>1. Wiring' /\ Unserved'
    BY <1>1, <1>2, BooksFacts DEF Wiring, Unserved
  <2>2. Readable' <=> Readable
    BY DEF Readable
  <2>3. Handles'
    BY <1>1, <2>2 DEF Handles
  <2>4. Stopping'
    BY <1>1, <1>2 DEF Stopping
  <2> QED BY <2>1, <2>3, <2>4
<1> QED BY <1>1, <1>3, <1>4, <1>5, <1>6

\* A step before the charge that touches nothing but the handler and the claim.
LEMMA UnchargedStep ==
  ASSUME ProcessInv, NEW r \in Reqs, NEW q, Shape(q), h' = [h EXCEPT ![r] = q],
         UNCHANGED <<procVars, drained, store, ledger, charged, faults, unsaved, unlogged, late>>,
         h[r].pc \in Uncharged, h[r].pc = "idle" => Listening,
         q.pc \in Uncharged \cup {"leaving", "returned"},
         slots' = slots + (IF q.pc \in Inside THEN 1 ELSE 0) - (IF h[r].pc \in Inside THEN 1 ELSE 0),
         slots' <= wired.maxInflight,
         claims' \in SUBSET Reqs, claims' \ {r} = claims \ {r},
         q.pc \in {"idle", "limit", "handling", "calling"} => q.status = 0 /\ ~q.panicked,
         r \in claims' => \/ q.pc \in {"calling", "relaying", "settling"}
                          \/ q.pc \in {"leaving", "returned"} /\ q.panicked /\ q.status \in {0, 500}
  PROVE  ProcessInv'
<1> USE DEF ProcessInv
<1>1. Kept(r)'
  <2>1. Books' = Books /\ h'[r] = q
    BY BooksFacts DEF procVars
  <2>2. r \notin charged' \cup store'.row /\ r \notin charged'
    BY DEF Kept
  <2>3. r \in ledger' => r \in ledger
    OBVIOUS
  <2>4. Books.store => (r \in ledger => r \in store.row \cup unsaved)
    BY DEF Kept
  <2> QED BY <2>1, <2>2, <2>3, <2>4 DEF Kept, Uncharged
<1>2. h[r].pc \notin Resting \/ (h[r].pc = "idle" /\ Listening)
  BY DEF Uncharged, Resting
<1>3. store' \in [version: {store.version}, table: BOOLEAN, intact: {store.intact}, row: SUBSET Reqs]
  BY DEF TypeOK
<1>4. {ledger', charged', claims', unsaved', unlogged', late'} \subseteq SUBSET Reqs /\ faults' \in 0..MaxFaults
  BY DEF TypeOK
<1> QED BY <1>1, <1>2, <1>3, <1>4, HandlerStep

\* The same, where the claim is left alone too.
LEMMA LocalStep ==
  ASSUME ProcessInv, NEW r \in Reqs, NEW q, Shape(q), Step(r, q),
         h[r].pc \in Uncharged, h[r].pc = "idle" => Listening,
         q.pc \in Uncharged \cup {"leaving", "returned"},
         q.pc \in Inside <=> h[r].pc \in Inside,
         q.pc \in {"idle", "limit", "handling", "calling"} => q.status = 0 /\ ~q.panicked,
         r \in claims => \/ q.pc \in {"calling", "relaying", "settling"}
                         \/ q.pc \in {"leaving", "returned"} /\ q.panicked /\ q.status \in {0, 500}
  PROVE  ProcessInv'
<1>1. /\ h' = [h EXCEPT ![r] = q] /\ slots' = slots
      /\ UNCHANGED <<procVars, drained, store, ledger, charged, claims, faults, unsaved, unlogged, late>>
  BY DEF Step, bookVars
<1>2. slots \in Nat /\ slots <= wired.maxInflight /\ claims \in SUBSET Reqs /\ wired' = wired
  BY <1>1 DEF ProcessInv, TypeOK, Seats, procVars
<1>3. slots' = slots + (IF q.pc \in Inside THEN 1 ELSE 0) - (IF h[r].pc \in Inside THEN 1 ELSE 0)
  <2>1. CASE q.pc \in Inside
    BY <1>1, <1>2, <2>1
  <2>2. CASE q.pc \notin Inside
    BY <1>1, <1>2, <2>2
  <2> QED BY <2>1, <2>2
<1> QED BY <1>1, <1>2, <1>3, UnchargedStep

\* The middleware: auth, the limit, and the way out.
LEMMA ShellSteps ==
  ASSUME ProcessInv, NEW r \in Reqs
  PROVE  /\ \A path, key : withAuth(r, path, key) \/ rejectUnauthorized(r, path, key) => ProcessInv'
         /\ withLimit(r) \/ Leave(r) => ProcessInv'
<1>1. DOMAIN h = Reqs /\ Shape(h[r]) /\ Kept(r)
  BY DEF ProcessInv
<1>2. ASSUME NEW path, NEW key, withAuth(r, path, key) PROVE ProcessInv'
  <2> DEFINE t == IF path = "health" THEN AnonymousTenant ELSE lookup(keys, key).tenant
             q == [h[r] EXCEPT !.pc = "limit", !.path = path, !.tenant = t]
  <2>1. Listening /\ h[r].pc = "idle" /\ Step(r, q)
    BY <1>2 DEF withAuth
  <2>2. Shape(q) /\ q.pc = "limit" /\ q.panicked = h[r].panicked /\ q.status = h[r].status
    BY <1>1 DEF Shape
  <2>3. q.status = 0 /\ ~q.panicked /\ r \notin claims
    BY <1>1, <2>1, <2>2 DEF Kept
  <2> HIDE DEF q
  <2> QED BY <2>1, <2>2, <2>3, LocalStep DEF Uncharged, Inside
<1>3. ASSUME NEW path, NEW key, rejectUnauthorized(r, path, key) PROVE ProcessInv'
  <2> DEFINE q == Returned(Answers(h[r], 401, "idle"))
  <2>1. Listening /\ h[r].pc = "idle" /\ Step(r, q)
    BY <1>3 DEF rejectUnauthorized
  <2>2. Shape(q) /\ q.pc = "returned"
    <3>1. Shape(Answers(h[r], 401, "idle"))
      BY <1>1, AnswersWith DEF Resting
    <3> QED BY <3>1, ReturnedAs
  <2>3. r \notin claims
    BY <1>1, <2>1 DEF Kept
  <2> HIDE DEF q
  <2> QED BY <2>1, <2>2, <2>3, LocalStep DEF Uncharged, Inside
<1>4. ASSUME withLimit(r) PROVE ProcessInv'
  <2>1. h[r].pc = "limit" /\ h[r].status = 0 /\ ~h[r].panicked /\ r \notin claims
    BY <1>1, <1>4 DEF withLimit, Kept
  <2>2. CASE slots < wired.maxInflight /\ slots' = slots + 1 /\ h' = [h EXCEPT ![r].pc = "handling"]
             /\ UNCHANGED <<procVars, bookVars, drained>>
    <3> DEFINE q == [h[r] EXCEPT !.pc = "handling"]
    <3>1. Shape(q) /\ q.pc = "handling" /\ q.status = 0 /\ ~q.panicked
      BY <1>1, <2>1, MovesOn DEF Inside
    <3>2. h' = [h EXCEPT ![r] = q]
      BY <2>2
    <3>3. wired.maxInflight \in Nat /\ slots \in Nat /\ wired' = wired /\ claims \in SUBSET Reqs
      <4>1. slots \in Nat /\ file \in DOMAIN Files /\ wired' = wired /\ claims \in SUBSET Reqs
        BY <2>2 DEF ProcessInv, TypeOK, procVars
      <4>2. phase \in Running
        BY <2>1 DEF ProcessInv, Unserved, Quiet, Resting
      <4>3. wired = Books /\ Load(Files[file])
        BY <4>2 DEF ProcessInv, Wiring, Running
      <4> QED BY <4>1, <4>3, BooksFacts
    <3>4. slots' = slots + 1 - 0 /\ slots' <= wired.maxInflight
      BY <2>2, <3>3
    <3> HIDE DEF q
    <3>5. slots' = slots + (IF q.pc \in Inside THEN 1 ELSE 0) - (IF h[r].pc \in Inside THEN 1 ELSE 0)
      BY <2>1, <3>1, <3>4 DEF Inside
    <3> QED BY <2>1, <2>2, <3>1, <3>2, <3>3, <3>4, <3>5, UnchargedStep DEF Uncharged, bookVars
  <2>3. CASE Step(r, Returned(Answers(h[r], 503, "limit")))
    <3> DEFINE q == Returned(Answers(h[r], 503, "limit"))
    <3>1. Shape(q) /\ q.pc = "returned"
      <4>1. Shape(Answers(h[r], 503, "limit"))
        BY <1>1, AnswersWith
      <4> QED BY <4>1, ReturnedAs
    <3> HIDE DEF q
    <3> QED BY <2>1, <2>3, <3>1, LocalStep DEF Uncharged, Inside, q
  <2> QED BY <1>4, <2>2, <2>3 DEF withLimit
<1>5. ASSUME Leave(r) PROVE ProcessInv'
  <2> DEFINE q == Returned(h[r])
  <2>1. /\ h[r].pc = "leaving" /\ slots' = slots - 1 /\ h' = [h EXCEPT ![r] = q]
        /\ UNCHANGED <<procVars, drained, bookVars>>
    BY <1>5 DEF Leave, Release
  <2>2. Shape(q) /\ q.pc = "returned" /\ q.panicked = h[r].panicked
        /\ q.status = IF q.panicked /\ h[r].status = 0 THEN 500 ELSE h[r].status
    BY <1>1, ReturnedAs
  <2> HIDE DEF q
  <2>3. Kept(r)'
    <3>1. Books' = Books /\ h'[r] = q
      BY <1>1, <2>1, BooksFacts DEF procVars
    <3> QED BY <1>1, <2>1, <2>2, <3>1 DEF Kept, Uncharged, bookVars
  <2>4. /\ slots' = slots + 0 - 1 /\ slots' <= wired.maxInflight
        /\ slots' = slots + (IF q.pc \in Inside THEN 1 ELSE 0) - (IF h[r].pc \in Inside THEN 1 ELSE 0)
    <3>1. slots \in Nat /\ slots <= wired.maxInflight /\ wired.maxInflight \in Nat
      <4>1. phase \in Running /\ file \in DOMAIN Files /\ slots \in Nat /\ slots <= wired.maxInflight
        BY <2>1 DEF ProcessInv, TypeOK, Seats, Unserved, Quiet, Resting
      <4>2. wired = Books /\ Load(Files[file])
        BY <4>1 DEF ProcessInv, Wiring, Running
      <4> QED BY <4>1, <4>2, BooksFacts
    <3>2. slots' = slots + 0 - 1 /\ slots' <= wired.maxInflight
      BY <2>1, <3>1
    <3> QED BY <2>1, <2>2, <3>2 DEF Inside
  <2>5. /\ store' \in [version: {store.version}, table: BOOLEAN, intact: {store.intact}, row: SUBSET Reqs]
        /\ {ledger', charged', claims', unsaved', unlogged', late'} \subseteq SUBSET Reqs
        /\ faults' \in 0..MaxFaults
    BY <2>1 DEF ProcessInv, TypeOK, bookVars
  <2> QED BY <2>1, <2>2, <2>3, <2>4, <2>5, HandlerStep DEF Resting, bookVars
<1> QED BY <1>2, <1>3, <1>4, <1>5

\* The handlers as far as their claim: refused, answered, failed, or to be charged.
LEMMA ClaimSteps ==
  ASSUME ProcessInv, NEW r \in Reqs
  PROVE  AnswersAtOnce(r) \/ Denied(r) \/ Begin(r) \/ CallFails(r) \/ CallPanics(r) \/ ChatAnswered(r)
         \/ StreamOpens(r) \/ StreamEnds(r) \/ Unmetered(r) => ProcessInv'
<1>1. DOMAIN h = Reqs /\ Shape(h[r]) /\ Kept(r)
  BY DEF ProcessInv
<1>2. ASSUME h[r].pc \in {"handling", "settling"}, r \notin claims, NEW s, Step(r, Answers(h[r], s, "leaving"))
      PROVE  ProcessInv'
  <2> DEFINE q == Answers(h[r], s, "leaving")
  <2>1. Shape(q) /\ q.pc = "leaving"
    BY <1>1, AnswersWith DEF Inside
  <2> HIDE DEF q
  <2> QED BY <1>2, <2>1, LocalStep DEF Uncharged, Inside, q
<1>3. ASSUME AnswersAtOnce(r) \/ Denied(r) \/ Unmetered(r) PROVE ProcessInv'
  <2>1. h[r].pc = "handling" => r \notin claims
    BY <1>1 DEF Kept
  <2> QED BY <1>2, <1>3, <2>1 DEF AnswersAtOnce, Denied, Unmetered
<1>4. slots \in Nat /\ slots = slots + 1 - 1 /\ slots <= wired.maxInflight /\ claims \in SUBSET Reqs
  BY DEF ProcessInv, TypeOK, Seats
<1>5. ASSUME Begin(r) PROVE ProcessInv'
  <2> DEFINE q == [h[r] EXCEPT !.pc = "calling"]
  <2>1. Shape(q) /\ q.pc = "calling" /\ q.status = h[r].status /\ q.panicked = h[r].panicked
    BY <1>1, MovesOn DEF Inside
  <2>2. h[r].pc = "handling" /\ h[r].status = 0 /\ ~h[r].panicked
    BY <1>1, <1>5 DEF Begin, Kept
  <2>3. h' = [h EXCEPT ![r] = q] /\ claims' \in SUBSET Reqs /\ claims' \ {r} = claims \ {r} /\ wired' = wired
    BY <1>4, <1>5 DEF Begin, procVars
  <2> HIDE DEF q
  <2>4. slots' = slots + (IF q.pc \in Inside THEN 1 ELSE 0) - (IF h[r].pc \in Inside THEN 1 ELSE 0)
    BY <1>4, <1>5, <2>1, <2>2 DEF Begin, Inside
  <2> QED BY <1>4, <1>5, <2>1, <2>2, <2>3, <2>4, UnchargedStep DEF Begin, Uncharged
<1>6. ASSUME NEW q, Shape(q), q.pc = "leaving", h[r].pc \in {"calling", "relaying"}, Abort(r, q)
      PROVE  ProcessInv'
  <2>1. claims' \in SUBSET Reqs /\ claims' \ {r} = claims \ {r} /\ r \notin claims' /\ wired' = wired
    BY <1>4, <1>6 DEF Abort, procVars
  <2>2. slots' = slots + (IF q.pc \in Inside THEN 1 ELSE 0) - (IF h[r].pc \in Inside THEN 1 ELSE 0)
    BY <1>4, <1>6 DEF Abort, Inside
  <2> QED BY <1>4, <1>6, <2>1, <2>2, UnchargedStep DEF Abort, Uncharged
<1>7. ASSUME CallFails(r) PROVE ProcessInv'
  <2>1. PICK s : h[r].pc = "calling" /\ Abort(r, Answers(h[r], s, "leaving"))
    BY <1>7 DEF CallFails
  <2>2. Shape(Answers(h[r], s, "leaving")) /\ Answers(h[r], s, "leaving").pc = "leaving"
    BY <1>1, AnswersWith DEF Inside
  <2> QED BY <1>6, <2>1, <2>2
<1>8. ASSUME CallPanics(r) PROVE ProcessInv'
  <2> DEFINE q == [h[r] EXCEPT !.pc = "leaving", !.panicked = TRUE]
  <2>1. Shape(q) /\ q.pc = "leaving" /\ q.panicked /\ q.status = h[r].status
    BY <1>1 DEF Shape, Inside
  <2>2. h[r].pc = "calling" /\ h[r].status = 0 /\ Step(r, q)
    BY <1>1, <1>8 DEF CallPanics, Kept
  <2> HIDE DEF q
  <2> QED BY <2>1, <2>2, LocalStep DEF Uncharged, Inside
<1>9. ASSUME ChatAnswered(r) PROVE ProcessInv'
  <2> DEFINE q == [h[r] EXCEPT !.pc = "settling"]
  <2>1. Shape(q) /\ q.pc = "settling"
    BY <1>1, MovesOn DEF Inside
  <2>2. h[r].pc = "calling" /\ Step(r, q)
    BY <1>9 DEF ChatAnswered
  <2> HIDE DEF q
  <2> QED BY <2>1, <2>2, LocalStep DEF Uncharged, Inside
<1>10. ASSUME StreamOpens(r) PROVE ProcessInv'
  <2> DEFINE q == Answers(h[r], 200, "relaying")
  <2>1. Shape(q) /\ q.pc = "relaying"
    BY <1>1, AnswersWith DEF Inside
  <2>2. h[r].pc = "calling" /\ Step(r, q)
    BY <1>10 DEF StreamOpens
  <2> HIDE DEF q
  <2> QED BY <2>1, <2>2, LocalStep DEF Uncharged, Inside
<1>11. ASSUME StreamEnds(r) PROVE ProcessInv'
  <2>1. PICK p \in BOOLEAN : \/ Step(r, [h[r] EXCEPT !.pc = "settling", !.panicked = p])
                             \/ Abort(r, [h[r] EXCEPT !.pc = "leaving", !.panicked = p])
    BY <1>11 DEF StreamEnds
  <2>2. h[r].pc = "relaying"
    BY <1>11 DEF StreamEnds
  <2>3. CASE Step(r, [h[r] EXCEPT !.pc = "settling", !.panicked = p])
    <3> DEFINE q == [h[r] EXCEPT !.pc = "settling", !.panicked = p]
    <3>1. Shape(q) /\ q.pc = "settling"
      BY <1>1 DEF Shape, Inside
    <3> HIDE DEF q
    <3> QED BY <2>2, <2>3, <3>1, LocalStep DEF Uncharged, Inside, q
  <2>4. CASE Abort(r, [h[r] EXCEPT !.pc = "leaving", !.panicked = p])
    <3> DEFINE q == [h[r] EXCEPT !.pc = "leaving", !.panicked = p]
    <3>1. Shape(q) /\ q.pc = "leaving"
      BY <1>1 DEF Shape, Inside
    <3> HIDE DEF q
    <3> QED BY <1>6, <2>2, <2>4, <3>1 DEF q
  <2> QED BY <2>1, <2>3, <2>4
<1> QED BY <1>3, <1>5, <1>7, <1>8, <1>9, <1>10, <1>11

\* The charge, the save and the row.
LEMMA BookSteps ==
  ASSUME ProcessInv, NEW r \in Reqs
  PROVE  Charge(r) \/ Save(r) \/ record(r) => ProcessInv'
<1>1. DOMAIN h = Reqs /\ Shape(h[r]) /\ Kept(r)
  BY DEF ProcessInv
<1>2. /\ slots \in Nat /\ slots = slots + 1 - 1 /\ slots <= wired.maxInflight /\ faults \in 0..MaxFaults
      /\ {ledger, charged, claims, unsaved, unlogged, late} \subseteq SUBSET Reqs
      /\ store \in [version: {store.version}, table: BOOLEAN, intact: {store.intact}, row: SUBSET Reqs]
  BY DEF ProcessInv, TypeOK, Seats
<1>3. h[r].pc \notin Resting => phase \in Running /\ wired = Books
  BY DEF ProcessInv, Unserved, Quiet, Wiring, Running
<1>4. ASSUME Charge(r) PROVE ProcessInv'
  <2> DEFINE of == {o \in charged \cup {r} : h[o].tenant = h[r].tenant}
             q  == [h[r] EXCEPT !.pc = AfterCharge, !.snap = of]
  <2>1. /\ h[r].pc = "settling" /\ r \in claims /\ claims' = claims \ {r} /\ charged' = charged \cup {r}
        /\ UNCHANGED <<procVars, store, ledger, faults, unsaved, unlogged, late, slots, drained>>
    BY <1>4 DEF Charge
  <2>2. h' = [h EXCEPT ![r] = q]
    BY <1>1, <1>4 DEF Charge
  <2>3. AfterCharge = IF Books.store THEN "saving" ELSE "recording"
    BY <1>3, <2>1 DEF AfterCharge, HasStore, Resting
  <2>4. Shape(q) /\ q.pc = AfterCharge /\ q.snap = of
    <3>1. AfterCharge \in Inside \cup Resting \cup {"limit"}
      BY <2>3 DEF Inside
    <3> HIDE DEF of
    <3> HIDE DEF AfterCharge
    <3> QED BY <1>1, <3>1 DEF Shape
  <2>5. of \subseteq charged' /\ r \in of
    BY <2>1
  <2> HIDE DEF q, of
  <2>6. Kept(r)'
    <3>1. Books' = Books /\ h'[r] = q /\ Books.store \in BOOLEAN
      BY <1>1, <2>1, <2>2, BooksFacts DEF procVars
    <3> QED BY <1>1, <2>1, <2>3, <2>4, <2>5, <3>1 DEF Kept, Uncharged
  <2>7. slots' = slots + (IF q.pc \in Inside THEN 1 ELSE 0) - (IF h[r].pc \in Inside THEN 1 ELSE 0)
    BY <1>2, <2>1, <2>3, <2>4 DEF Inside
  <2>8. wired' = wired /\ h[r].pc \notin Resting
    BY <2>1 DEF procVars, Resting
  <2> QED BY <1>2, <2>1, <2>2, <2>4, <2>6, <2>7, <2>8, HandlerStep
<1>5. ASSUME Save(r) PROVE ProcessInv'
  <2> DEFINE q == [h[r] EXCEPT !.pc = "recording"]
  <2>1. h[r].pc = "saving" /\ h' = [h EXCEPT ![r] = q] /\ h[r].pc \notin Resting
        /\ UNCHANGED <<procVars, ledger, charged, claims, unlogged, slots, drained>>
    BY <1>5 DEF Save, Resting
  <2>2. Shape(q) /\ q.pc = "recording"
    BY <1>1, MovesOn DEF Inside
  <2>3. r \in h[r].snap /\ h[r].snap \subseteq charged /\ r \in charged /\ r \notin claims
    BY <1>1, <2>1 DEF Kept
  <2> HIDE DEF q
  <2>4. /\ faults' \in 0..MaxFaults /\ unsaved' \in SUBSET Reqs /\ late' \in SUBSET Reqs
        /\ store' \in [version: {store.version}, table: BOOLEAN, intact: {store.intact}, row: SUBSET Reqs]
        /\ store.row \subseteq store'.row /\ store'.row \subseteq store.row \cup charged
        /\ unsaved \subseteq unsaved' /\ r \in store'.row \cup unsaved'
        /\ late' = late \/ "store" \notin open
    <3>1. CASE store' = [store EXCEPT !.row = @ \cup h[r].snap] /\ UNCHANGED <<faults, unsaved, late>>
      BY <1>2, <2>3, <3>1
    <3>2. CASE /\ faults < MaxFaults /\ faults' = faults + 1 /\ unsaved' = unsaved \cup {r}
               /\ UNCHANGED <<store, late>>
      <4>1. faults' \in 0..MaxFaults
        BY <1>2, <3>2, ProcessAssumption
      <4> QED BY <1>2, <3>2, <4>1
    <3>3. CASE /\ "store" \notin open /\ unsaved' = unsaved \cup {r} /\ late' = late \cup {r}
               /\ UNCHANGED <<store, faults>>
      BY <1>2, <3>3
    <3> QED BY <1>5, <3>1, <3>2, <3>3 DEF Save
  <2>5. Kept(r)'
    <3>1. Books' = Books /\ h'[r] = q
      BY <1>1, <2>1, BooksFacts DEF procVars
    <3> QED BY <1>1, <2>1, <2>2, <2>3, <2>4, <3>1 DEF Kept, Uncharged
  <2>6. late' = late \/ phase \in {"ledger_closed", "closed"}
    <3>1. "store" \notin open => phase = "closed"
      <4>1. Books.store
        BY <1>1, <2>1 DEF Kept
      <4> QED BY <1>3, <2>1, <4>1 DEF ProcessInv, Handles, Running
    <3> QED BY <2>4, <3>1
  <2>7. slots' = slots + (IF q.pc \in Inside THEN 1 ELSE 0) - (IF h[r].pc \in Inside THEN 1 ELSE 0)
    BY <1>2, <2>1, <2>2 DEF Inside
  <2>8. wired' = wired
    BY <2>1 DEF procVars
  <2> QED BY <1>2, <2>1, <2>2, <2>4, <2>5, <2>6, <2>7, <2>8, HandlerStep
<1>6. ASSUME record(r) PROVE ProcessInv'
  <2> DEFINE q == Answers(h[r], 200, "leaving")
  <2>1. h[r].pc = "recording" /\ h' = [h EXCEPT ![r] = q] /\ h[r].pc \notin Resting
        /\ UNCHANGED <<procVars, store, charged, claims, unsaved, slots, drained>>
    BY <1>6 DEF record, Resting
  <2>2. Shape(q) /\ q.pc = "leaving"
    BY <1>1, AnswersWith DEF Inside
  <2>3. r \notin claims /\ (Books.store => r \in store.row \cup unsaved)
    BY <1>1, <2>1 DEF Kept
  <2> HIDE DEF q
  <2>4. /\ faults' \in 0..MaxFaults /\ unlogged' \in SUBSET Reqs /\ late' \in SUBSET Reqs
        /\ ledger' \in SUBSET Reqs /\ ledger \subseteq ledger' /\ ledger' \ {r} = ledger \ {r}
        /\ unlogged \subseteq unlogged' /\ (wired.ledger => r \in ledger' \cup unlogged')
        /\ late' = late \/ (wired.ledger /\ "ledger" \notin open)
    <3>1. CASE ~HasLedger /\ UNCHANGED <<ledger, faults, unlogged, late>>
      BY <1>2, <3>1 DEF HasLedger
    <3>2. CASE ledger' = ledger \cup {r} /\ UNCHANGED <<faults, unlogged, late>>
      BY <1>2, <3>2
    <3>3. CASE /\ faults < MaxFaults /\ faults' = faults + 1 /\ unlogged' = unlogged \cup {r}
               /\ UNCHANGED <<ledger, late>>
      <4>1. faults' \in 0..MaxFaults
        BY <1>2, <3>3, ProcessAssumption
      <4> QED BY <1>2, <3>3, <4>1
    <3>4. CASE /\ HasLedger /\ "ledger" \notin open
               /\ unlogged' = unlogged \cup {r} /\ late' = late \cup {r} /\ UNCHANGED <<ledger, faults>>
      BY <1>2, <3>4 DEF HasLedger
    <3> QED BY <1>6, <3>1, <3>2, <3>3, <3>4 DEF record
  <2>5. Kept(r)'
    <3>1. Books' = Books /\ h'[r] = q /\ wired = Books
      BY <1>1, <1>3, <2>1, BooksFacts DEF procVars
    <3> QED BY <1>1, <2>1, <2>2, <2>3, <2>4, <3>1 DEF Kept, Uncharged
  <2>6. late' = late \/ phase \in {"ledger_closed", "closed"}
    <3>1. wired.ledger /\ "ledger" \notin open => phase \in {"ledger_closed", "closed"}
      BY <1>3, <2>1 DEF ProcessInv, Handles, Running
    <3> QED BY <2>4, <3>1
  <2>7. slots' = slots + (IF q.pc \in Inside THEN 1 ELSE 0) - (IF h[r].pc \in Inside THEN 1 ELSE 0)
    BY <1>2, <2>1, <2>2 DEF Inside
  <2>8. wired' = wired
    BY <2>1 DEF procVars
  <2> QED BY <1>2, <2>1, <2>2, <2>3, <2>4, <2>5, <2>6, <2>7, <2>8, HandlerStep
<1> QED BY <1>4, <1>5, <1>6

-----------------------------------------------------------------------------
(* Theorems *)

\* ProcessInv holds of every behaviour of the process.
THEOREM ProcessInvariant == Spec => []ProcessInv
<1>1. Init => ProcessInv
  <2> SUFFICES ASSUME Init PROVE ProcessInv
    OBVIOUS
  <2>1. store \in [version: Nat, table: BOOLEAN, intact: BOOLEAN, row: {{}}]
    BY ProcessAssumption DEF Init
  <2>2. DOMAIN h = Reqs /\ \A r \in Reqs : Shape(h[r]) /\ h[r].pc = "idle" /\ h[r].status = 0 /\ ~h[r].panicked
    BY DEF Init, Fresh, Shape, Resting
  <2>3. Quiet
    BY <2>2 DEF Quiet, Resting
  <2>4. Seats
    BY <2>3, NobodyInside DEF Init, Seats, Unwired
  <2>5. TypeOK
    <3>1. 0 \in 0..Cardinality(Reqs) /\ 0 \in 0..MaxStarts /\ 0 \in 0..MaxFaults
      BY ProcessAssumption, FS_CardinalityType
    <3>2. \A r \in Reqs : h[r].pc \in Inside \cup Resting \cup {"limit"}
      BY <2>2 DEF Resting
    <3>3. store \in [version: Nat, table: BOOLEAN, intact: BOOLEAN, row: SUBSET Reqs]
      BY <2>1
    <3> QED BY <3>1, <3>2, <3>3 DEF Init, TypeOK
  <2>6. Wiring /\ Handles /\ Unserved /\ Stopping
    BY <2>3 DEF Init, Wiring, Handles, Unserved, Stopping, Unwired, Running
  <2>7. \A r \in Reqs : Kept(r)
    BY <2>1, <2>2 DEF Init, Kept
  <2> QED BY <2>2, <2>4, <2>5, <2>6, <2>7 DEF ProcessInv
<1>2. ProcessInv /\ [Next]_vars => ProcessInv'
  <2> SUFFICES ASSUME ProcessInv, [Next]_vars PROVE ProcessInv'
    OBVIOUS
  <2>1. CASE Boots
    BY <2>1, BootSteps
  <2>2. CASE Signal \/ ListenerFails \/ Unwinds \/ Crash
    BY <2>2, StopSteps
  <2>3. ASSUME NEW r \in Reqs, Handler(r) PROVE ProcessInv'
    BY <2>3, ShellSteps, ClaimSteps, BookSteps DEF Handler
  <2>4. CASE UNCHANGED vars
    <3>1. UNCHANGED <<file, phase, refusal, store, ledger, wired, open, h, slots, charged, claims, grace,
                      starts, faults, unsaved, unlogged, late, drained>>
      BY <2>4 DEF vars, procVars, bookVars
    <3>2. store' \in [version: Nat, table: BOOLEAN, intact: BOOLEAN, row: {store.row}]
      BY <3>1 DEF ProcessInv, TypeOK
    <3>3. TypeOK' /\ Wiring' /\ Handles' /\ Unserved' /\ Stopping'
      BY <3>1, BooksFacts
         DEF ProcessInv, TypeOK, Wiring, Handles, Unserved, Stopping, Readable, Quiet
    <3> QED BY <3>1, <3>2, <3>3, ProcessStep DEF ProcessInv
  <2> QED BY <2>1, <2>2, <2>3, <2>4 DEF Next
<1> QED BY <1>1, <1>2, PTL DEF Spec

\* The in flight channel holds one slot for each handler inside, whichever way a
\* handler leaves, and never more than max_inflight.
THEOREM SlotsAreAccounted == Spec => []SlotsAccounted
<1>1. ProcessInv => SlotsAccounted
  BY DEF ProcessInv, Seats, SlotsAccounted
<1> QED BY <1>1, ProcessInvariant, PTL

\* A claim outlives its handler only where the upstream call itself panicked.
THEOREM ClaimsAreExplained == Spec => []OpenClaimsExplained
<1>1. ProcessInv => OpenClaimsExplained
  <2> SUFFICES ASSUME ProcessInv PROVE OpenClaimsExplained
    OBVIOUS
  <2>1. claims \in SUBSET Reqs
    BY DEF ProcessInv, TypeOK
  <2>2. \A r \in Reqs : Kept(r)
    BY DEF ProcessInv
  <2> QED BY <2>1, <2>2 DEF Kept, OpenClaimsExplained
<1> QED BY <1>1, ProcessInvariant, PTL

\* Whatever stops the process, and however often it is started again, no row is in
\* the ledger whose charge the store has not been told of.
THEOREM LedgerNeverAhead == Spec => []LedgerBehindStore
<1>1. ProcessInv => LedgerBehindStore
  <2> SUFFICES ASSUME ProcessInv, HasStore, NEW r \in ledger PROVE r \in store.row \cup unsaved
    BY DEF LedgerBehindStore
  <2>1. r \in Reqs
    BY DEF ProcessInv, TypeOK
  <2>2. Books.store
    BY BooksFacts DEF ProcessInv, Wiring, HasStore
  <2> QED BY <2>1, <2>2 DEF ProcessInv, Kept
<1> QED BY <1>1, ProcessInvariant, PTL

\* A stop within the grace finds nobody running, closes no file under a handler, and
\* leaves every charge on file unless its own write failed.
THEOREM CleanStopIsClean == Spec => []CleanStop
<1>1. ProcessInv => CleanStop
  <2> SUFFICES ASSUME ProcessInv, drained, phase \in {"closing", "ledger_closed", "closed"}
               PROVE  /\ Quiet /\ late = {}
                      /\ HasStore => charged \subseteq store.row \cup unsaved
                      /\ HasLedger => {r \in charged : h[r].pc = "returned"} \subseteq ledger \cup unlogged
    BY DEF CleanStop
  <2>1. Quiet /\ late = {}
    BY DEF ProcessInv, Stopping
  <2>2. wired = Books /\ charged \in SUBSET Reqs /\ \A r \in Reqs : Kept(r)
    BY DEF ProcessInv, Wiring, TypeOK
  <2>3. \A r \in Reqs : h[r].pc # "saving"
    BY <2>1 DEF Quiet, Resting
  <2> QED BY <2>1, <2>2, <2>3 DEF Kept, HasStore, HasLedger
<1> QED BY <1>1, ProcessInvariant, PTL

\* A store file that is corrupt or of a newer version is never written to.
THEOREM ForeignStoreIsLeft == Spec => ForeignStoreUntouched
<1>1. ProcessInv /\ [Next]_vars => [store.version > schemaVersion \/ ~store.intact => UNCHANGED store]_vars
  <2> SUFFICES ASSUME ProcessInv, Next, ~(UNCHANGED store) PROVE Readable /\ store.version \in Nat
    BY DEF Readable, schemaVersion
  <2>1. store.version \in Nat
    BY DEF ProcessInv, TypeOK
  <2>2. CASE Boots
    <3>1. migrate
      BY <2>2 DEF Boots, Start, Rejects, Builds, openLedger, CannotOpenLedger, RefusesStore,
                  OpenSQLiteStore, CannotOpenStore, loadStore, NoStore, buildGateway, Listen, Refuse,
                  bookVars
    <3> QED BY <2>1, <3>1 DEF migrate, Boot, ProcessInv, Handles
  <2>3. ASSUME NEW r \in Reqs, Handler(r) PROVE Readable
    <3>1. Save(r)
      BY <2>3 DEF Handler, withAuth, rejectUnauthorized, withLimit, AnswersAtOnce, Denied, Begin,
                  CallFails, CallPanics, ChatAnswered, StreamOpens, StreamEnds, Charge, Unmetered,
                  record, Leave, Step, Abort, bookVars
    <3> QED BY <3>1 DEF Save, ProcessInv, Handles
  <2>4. ~(Signal \/ ListenerFails \/ Unwinds \/ Crash)
    BY DEF Signal, ListenerFails, Unwinds, AdminDrained, ShutdownReturns, Deadline, closeLedger,
           closeStore, Exit, Crash, Unwind, bookVars
  <2> QED BY <2>1, <2>2, <2>3, <2>4 DEF Next
<1> QED BY <1>1, ProcessInvariant, PTL DEF Spec, ForeignStoreUntouched

\* Whatever Load accepts can be built, so no start is refused for the build, and every
\* model a wired gateway routes has a vendor to be priced by.
THEOREM AcceptedFilesBoot == Spec => []AcceptedBoots
<1> DEFINE Built == refusal # "build"
<1>1. Init => Built
  BY DEF Init
<1>2. ProcessInv /\ Built /\ [Next]_vars => Built'
  <2> SUFFICES ASSUME ProcessInv, Built, [Next]_vars, refusal' # refusal PROVE refusal' # "build"
    OBVIOUS
  <2>1. CASE Boots
    <3>1. CASE Rejects
      <4>1. file \in DOMAIN Files
        BY DEF ProcessInv, TypeOK
      <4>2. Load(Files[file]) => CanBuild
        BY <4>1, AcceptedFile, AcceptedBuilds DEF CanBuild
      <4> QED BY <3>1, <4>2 DEF Rejects, Refuse
    <3>2. CASE Start \/ CannotOpenLedger \/ RefusesStore \/ CannotOpenStore
      BY <3>2 DEF Start, CannotOpenLedger, RefusesStore, CannotOpenStore, Refuse
    <3>3. ~(Builds \/ openLedger \/ OpenSQLiteStore \/ migrate \/ loadStore \/ NoStore \/ buildGateway \/ Listen)
      BY DEF Builds, openLedger, OpenSQLiteStore, migrate, loadStore, NoStore, buildGateway, Listen, Boot
    <3> QED BY <2>1, <3>1, <3>2, <3>3 DEF Boots
  <2>2. ~(Signal \/ ListenerFails \/ Unwinds \/ Crash)
    BY DEF Signal, ListenerFails, Unwinds, AdminDrained, ShutdownReturns, Deadline, closeLedger,
           closeStore, Exit, Crash, Unwind
  <2>3. ASSUME NEW r \in Reqs, Handler(r) PROVE refusal' = refusal
    BY <2>3 DEF Handler, withAuth, rejectUnauthorized, withLimit, AnswersAtOnce, Denied, Begin,
           CallFails, CallPanics, ChatAnswered, StreamOpens, StreamEnds, Charge, Unmetered,
           Save, record, Leave, Step, Abort, procVars
  <2>4. ~(UNCHANGED vars)
    BY DEF vars, procVars
  <2> QED BY <2>1, <2>2, <2>3, <2>4 DEF Next
<1>3. ProcessInv /\ Built => AcceptedBoots
  <2> SUFFICES ASSUME ProcessInv, Built, phase = "wired", NEW r \in ToSet(cfg.routes)
               PROVE  routePricing(cfg, r.model).kind # ""
    BY DEF AcceptedBoots
  <2>1. file \in DOMAIN Files /\ Load(Files[file])
    BY DEF ProcessInv, TypeOK, Wiring
  <2> QED BY <2>1, AcceptedFile, EveryModelPriced
<1> HIDE DEF Built
<1> QED BY <1>1, <1>2, <1>3, ProcessInvariant, PTL DEF Spec

\* The keys of a wired gateway are those of its file, in some order of the tenants.
KeysWired == phase = "wired" => \E order \in tenantKeys(cfg) : keys = Indexed(cfg, order)

\* A gateway without keys listens on loopback only, a key leads to one tenant in
\* whatever order the map was read, and where budgets are on to an account.
THEOREM IdentityIsClear == Spec => []IdentityClear
<1>1. Init => KeysWired
  BY DEF Init, KeysWired
<1>2. ProcessInv /\ KeysWired /\ [Next]_vars => KeysWired'
  <2> SUFFICES ASSUME ProcessInv, KeysWired, [Next]_vars, phase' = "wired" PROVE KeysWired'
    BY DEF KeysWired
  <2>1. CASE buildGateway
    <3>1. file' = file
      BY <2>1 DEF buildGateway
    <3>2. cfg' = cfg
      BY <3>1 DEF cfg
    <3> QED BY <2>1, <3>2 DEF buildGateway, KeysWired, Indexed
  <2>2. CASE UNCHANGED <<phase, keys, file>>
    <3>1. cfg' = cfg
      BY <2>2 DEF cfg
    <3> QED BY <2>2, <3>1 DEF KeysWired
  <2>3. CASE Boots /\ ~buildGateway
    BY <2>3 DEF Boots, Start, Rejects, Builds, openLedger, CannotOpenLedger, RefusesStore,
                OpenSQLiteStore, migrate, CannotOpenStore, loadStore, NoStore, Listen, Refuse, Gone, Boot
  <2>4. CASE Signal \/ ListenerFails \/ Unwinds \/ Crash
    BY <2>4 DEF Signal, ListenerFails, Unwinds, AdminDrained, ShutdownReturns, Deadline, closeLedger,
                closeStore, Exit, Crash, Unwind, Gone
  <2>5. ASSUME NEW r \in Reqs, Handler(r) PROVE UNCHANGED <<phase, keys, file>>
    BY <2>5 DEF Handler, withAuth, rejectUnauthorized, withLimit, AnswersAtOnce, Denied, Begin,
                CallFails, CallPanics, ChatAnswered, StreamOpens, StreamEnds, Charge, Unmetered,
                Save, record, Leave, Step, Abort, procVars
  <2>6. CASE UNCHANGED vars
    BY <2>2, <2>6 DEF vars, procVars
  <2> QED BY <2>1, <2>2, <2>3, <2>4, <2>5, <2>6 DEF Next
<1>3. ProcessInv /\ KeysWired => IdentityClear
  <2> SUFFICES ASSUME ProcessInv, KeysWired, phase = "wired"
               PROVE  /\ keys = <<>> => isLoopbackListen(cfg.server.listen)
                      /\ \A o \in tenantKeys(cfg), e \in ToSet(keys) :
                            lookup(WithTenantKeys(newKeySet(cfg.auth.clientKeys), o), e.key)
                               = [ok |-> TRUE, tenant |-> e.tenant]
                      /\ Metered => \A e \in ToSet(keys) : e.tenant \in wired.limits
    BY DEF IdentityClear
  <2>1. PICK order \in tenantKeys(cfg) : keys = Indexed(cfg, order)
    BY DEF KeysWired
  <2>2. AuthTyped(cfg) /\ validateAuth(cfg)
    BY AcceptedFile DEF ProcessInv, TypeOK, Wiring, Validate
  <2>3. ToSet(keys) = Items(keys)
    BY DEF ToSet, Items
  <2>4. \A e \in Items(keys) : IsEntry(cfg, e)
    BY <2>1, <2>2, KeysInAnyOrder
  <2>5. keys = <<>> => isLoopbackListen(cfg.server.listen)
    BY <2>1, <2>2, KeysAreHeld
  <2>6. ASSUME NEW o \in tenantKeys(cfg), NEW e \in Items(keys)
        PROVE  lookup(Indexed(cfg, o), e.key) = [ok |-> TRUE, tenant |-> e.tenant]
    <3>1. /\ Indexed(cfg, o) \in Seq(Entry)
          /\ \A d : d \in Items(Indexed(cfg, o)) <=> IsEntry(cfg, d)
      BY <2>2, KeysInAnyOrder, Zenon
    <3>2. e \in Items(Indexed(cfg, o))
      BY <2>4, <3>1
    <3>3. \A d \in Items(Indexed(cfg, o)) : d.key = e.key => d.tenant = e.tenant
      BY <2>2, <2>4, <3>1, OneTenantPerKey
    <3> QED BY <3>1, <3>2, <3>3, LookupAgrees
  <2>7. ASSUME Metered, NEW e \in Items(keys) PROVE e.tenant \in wired.limits
    <3>1. wired.limits = Limits(cfg)
      BY DEF ProcessInv, Wiring, Books, Wired
    <3>2. Limits(cfg) # {}
      BY <2>7, <3>1 DEF Metered
    <3>3. cfg.auth.tenants # <<>>
      <4>1. ASSUME cfg.auth.tenants = <<>> PROVE FALSE
        <5>1. ToSet(cfg.auth.tenants) = {}
          BY <4>1 DEF ToSet
        <5> QED BY <3>2, <5>1, Zenon DEF Limits
      <4> QED BY <4>1
    <3>4. DOMAIN cfg.auth.clientKeys = {}
      <4>1. cfg.auth.clientKeys = <<>>
        BY <2>2, <3>3 DEF validateAuth
      <4> QED BY <4>1
    <3>5. PICK t \in ToSet(cfg.auth.tenants) : \E j \in DOMAIN t.keys : e = [key |-> t.keys[j], tenant |-> t.name]
      BY <2>4, <3>4, Zenon DEF IsEntry
    <3>6. e.tenant = t.name
      BY <3>5
    <3> QED BY <3>1, <3>6 DEF Limits
  <2> QED BY <2>3, <2>5, <2>6, <2>7 DEF Indexed
<1> QED BY <1>1, <1>2, <1>3, ProcessInvariant, PTL DEF Spec
=============================================================================
