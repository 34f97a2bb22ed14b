------------------------------- MODULE Config -------------------------------
(***************************************************************************)
(* internal/config, and the part of cmd/penstock that turns an accepted    *)
(* file into keys, providers, routes and limits.  A file is a record of    *)
(* its sections.  Load is expandSecrets, applyDefaults and Validate; the   *)
(* wiring operators say what the accepted file becomes.  Only whether a    *)
(* file is refused matters here, so a validator is the conjunction of what *)
(* it asks for; the wording and the number of its complaints are left out. *)
(*                                                                         *)
(* A secret, a name and an address are members of small sets; "" is an     *)
(* absent field, as it is to the YAML decoder.  A threshold is in          *)
(* hundredths.                                                             *)
(***************************************************************************)
EXTENDS Integers, Sequences, FiniteSets, SequencesExt, Sums

CONSTANTS
    Env,             \* the variables a ${VAR} reference may name, and their values
    Weak,            \* secrets shorter than MinClientKeyLength
    LabelSafe,       \* names that match tenantNamePattern
    Loopback,        \* addresses whose host is loopback
    ValidURL,        \* base_url values that parse as http(s)
    MaxTimeoutMS, MaxRouterAttempts, MaxBreakerCooldownSeconds,
    DefaultMaxInflight

DefaultListen == "127.0.0.1:8080"

\* An absent secret is a weak one; an absent name or address is not a valid one.
ASSUME ConfigAssumption ==
    /\ Env \in [DOMAIN Env -> STRING]
    /\ "" \in Weak /\ "" \notin LabelSafe /\ "" \notin ValidURL
    /\ DefaultListen \in Loopback
    /\ {MaxTimeoutMS, MaxRouterAttempts, MaxBreakerCooldownSeconds,
        DefaultMaxInflight} \subseteq Nat \ {0}

AllKinds == {"groq", "openai_compat", "openai", "cerebras", "mistral", "openrouter",
             "gemini", "anthropic"}

\* The kinds of the OpenAI wire adapter, and those of every imported adapter.
profiles == {"openai", "groq", "cerebras", "mistral", "openrouter", "openai_compat"}
Registered == profiles \cup {"gemini", "anthropic"}

AllStrategies == {"priority", "least_latency", "round_robin"}
LogLevels == {"debug", "info", "warn", "error"}
MinSemanticThreshold == 95

DefaultTimeoutMS == 1
DefaultLogLevel == "info"

Distinct(s) == \A i, j \in DOMAIN s : s[i] = s[j] => i = j
NamesOf(s) == [i \in DOMAIN s |-> s[i].name]
ModelsOf(routes) == [i \in DOMAIN routes |-> routes[i].model]

\* What the YAML decoder makes of a file: every section is there, and a list is a list.
Decoded(c) ==
    /\ DOMAIN c = {"unknownField", "logLevel", "server", "auth", "accounting", "cache",
                   "router", "providers", "routes"}
    /\ c.server \in [listen: STRING, timeouts: {c.server.timeouts}, maxInflight: Int]
    /\ c.auth \in [clientKeys: Seq(STRING),
                   tenants: Seq([name: STRING, keys: Seq(STRING),
                                 limits: {t.limits : t \in ToSet(c.auth.tenants)}])]
    /\ c.providers \in Seq([name: STRING, kind: STRING, baseURL: STRING, apiKey: STRING,
                            models: SUBSET STRING])
    /\ c.routes \in Seq([model: STRING, provider: STRING, providers: Seq(STRING),
                         strategy: STRING,
                         providerModels: {r.providerModels : r \in ToSet(c.routes)}])

-----------------------------------------------------------------------------
(* Load *)

expandEnvRefs(s) == IF s \in DOMAIN Env THEN Env[s] ELSE s

\* Every key of every tenant.
TenantKeys(auth) == UNION {ToSet(t.keys) : t \in ToSet(auth.tenants)}

Secrets(c) ==
    {p.apiKey : p \in ToSet(c.providers)} \cup ToSet(c.auth.clientKeys)
    \cup TenantKeys(c.auth) \cup {c.cache.embedAPIKey}

\* A variable that is unset or empty fails the load.
SecretsResolve(c) == \A s \in Secrets(c) : s \in DOMAIN Env => Env[s] # ""

expandClientKeys(keys) == [i \in DOMAIN keys |-> expandEnvRefs(keys[i])]
expandTenantKeys(tenants) ==
    [i \in DOMAIN tenants |-> [tenants[i] EXCEPT !.keys = expandClientKeys(@)]]
expandAPIKeys(providers) ==
    [i \in DOMAIN providers |-> [providers[i] EXCEPT !.apiKey = expandEnvRefs(@)]]

expandSecrets(c) ==
    [c EXCEPT !.auth.clientKeys = expandClientKeys(@),
              !.auth.tenants = expandTenantKeys(@),
              !.cache.embedAPIKey = expandEnvRefs(@),
              !.providers = expandAPIKeys(@)]

OrDefault(v, absent, default) == IF v = absent THEN default ELSE v

applyDefaults(c) ==
    [c EXCEPT !.server.listen = OrDefault(@, "", DefaultListen),
              !.server.timeouts = [f \in DOMAIN @ |-> OrDefault(@[f], 0, DefaultTimeoutMS)],
              !.server.maxInflight = OrDefault(@, 0, DefaultMaxInflight),
              !.logLevel = OrDefault(@, "", DefaultLogLevel)]

-----------------------------------------------------------------------------
(* Validate *)

validateServer(c) ==
    /\ \A f \in DOMAIN c.server.timeouts : c.server.timeouts[f] \in 0..MaxTimeoutMS
    /\ c.server.maxInflight >= 0

\* Zero takes the default, so only a value typed on purpose is looked at.
validateRouter(c) ==
    /\ \A f \in DOMAIN c.router : c.router[f] >= 0
    /\ c.router.maxAttempts <= MaxRouterAttempts
    /\ c.router.breakerCooldown <= MaxBreakerCooldownSeconds
    /\ c.router.baseDelay > 0 /\ c.router.maxDelay > 0
          => c.router.baseDelay <= c.router.maxDelay

validateAccounting(c) ==
    c.accounting.storePath # "" => c.accounting.storePath # c.accounting.ledgerPath

validateCache(c) ==
    c.cache.enabled =>
        /\ c.cache.maxEntries >= 0 /\ c.cache.ttl >= 0 /\ c.cache.maxTemperature >= 0
        /\ c.cache.semantic =>
              /\ c.cache.embedAPIKey # ""
              /\ c.cache.threshold # 0 => c.cache.threshold \in MinSemanticThreshold..100
              /\ c.cache.maxPerTenant >= 0

isLoopbackListen(addr) == addr \in Loopback

hasKeys(auth) == auth.clientKeys # <<>> \/ \E t \in ToSet(auth.tenants) : t.keys # <<>>

\* tenantOfKey: a key is listed once, under one tenant.
KeysApart(tenants) ==
    \A i, m \in DOMAIN tenants :
        \A j \in DOMAIN tenants[i].keys, n \in DOMAIN tenants[m].keys :
            tenants[i].keys[j] = tenants[m].keys[n] => i = m /\ j = n

\* Mutant: a key may be listed twice.
validateAuth_Shared(c) ==
    /\ hasKeys(c.auth) \/ isLoopbackListen(c.server.listen)
    /\ c.auth.clientKeys = <<>> \/ c.auth.tenants = <<>>
    /\ \A t \in ToSet(c.auth.tenants) : t.name \in LabelSafe /\ t.keys # <<>>

validateAuth(c) ==
    LET names == NamesOf(c.auth.tenants)
    IN  /\ hasKeys(c.auth) \/ isLoopbackListen(c.server.listen)
        /\ (ToSet(c.auth.clientKeys) \cup TenantKeys(c.auth)) \cap Weak = {}
        /\ Distinct(names) /\ ToSet(names) \subseteq LabelSafe
        /\ KeysApart(c.auth.tenants) /\ TenantKeys(c.auth) \cap ToSet(c.auth.clientKeys) = {}
        /\ \A t \in ToSet(c.auth.tenants) :
              t.keys # <<>> /\ \A l \in DOMAIN t.limits : t.limits[l] >= 0
        /\ c.auth.clientKeys = <<>> \/ c.auth.tenants = <<>>

validateProviders(c) ==
    /\ c.providers # <<>>
    /\ Distinct(NamesOf(c.providers)) /\ "" \notin ToSet(NamesOf(c.providers))
    /\ \A p \in ToSet(c.providers) :
          p.kind \in AllKinds /\ p.baseURL \in ValidURL /\ p.apiKey # ""

\* The providers of a route, whichever spelling the operator used.
Chain(r) ==
    IF r.providers # <<>> THEN r.providers
    ELSE IF r.provider # "" THEN <<r.provider>> ELSE <<>>

\* The name a provider knows the model by.
UpstreamModel(r, name) ==
    IF name \in DOMAIN r.providerModels /\ r.providerModels[name] # ""
    THEN r.providerModels[name] ELSE r.model

\* An empty list of models is unrestricted.
Lists(c, name, model) ==
    \A p \in ToSet(c.providers) : p.name = name => p.models = {} \/ model \in p.models

\* Mutant: a chain may name a provider twice.
validRoute_Repeats(c, r) ==
    /\ r.model # "" /\ Chain(r) # <<>>
    /\ \A n \in ToSet(Chain(r)) : \E p \in ToSet(c.providers) : p.name = n

validRoute(c, r) ==
    LET chain == ToSet(Chain(r))
    IN  /\ r.model # ""
        /\ r.provider = "" \/ r.providers = <<>>
        /\ Chain(r) # <<>> /\ Distinct(Chain(r))
        /\ \A n \in chain : /\ \E p \in ToSet(c.providers) : p.name = n
                            /\ Lists(c, n, UpstreamModel(r, n))
        /\ r.strategy \in AllStrategies \cup {""}
        /\ DOMAIN r.providerModels \subseteq chain

validateRoutes(c) ==
    /\ c.routes # <<>> /\ Distinct(ModelsOf(c.routes))
    /\ \A r \in ToSet(c.routes) : validRoute(c, r)

validateTelemetry(c) == c.logLevel \in LogLevels

Validate(c) ==
    /\ validateServer(c) /\ validateRouter(c) /\ validateAccounting(c)
    /\ validateCache(c) /\ validateAuth(c) /\ validateProviders(c)
    /\ validateRoutes(c) /\ validateTelemetry(c)

Loaded(c) == applyDefaults(expandSecrets(c))

\* Load returns a config.  An unknown field is a decoding error; an empty file
\* decodes to empty sections.
Load(c) == ~c.unknownField /\ SecretsResolve(c) /\ Validate(Loaded(c))

-----------------------------------------------------------------------------
(* Wiring *)

\* BuildAll finds an adapter for every provider, and its constructor accepts it.
BuildAll(c) ==
    /\ Distinct(NamesOf(c.providers))
    /\ \A p \in ToSet(c.providers) :
          p.kind \in Registered /\ (p.kind = "openai_compat" => p.baseURL # "")

strategyOrDefault(s) == OrDefault(s, "", "priority")

\* buildRoutes, router.NewSelector and router.New return no error.
buildRoutes(c) ==
    \A r \in ToSet(c.routes) :
        /\ ToSet(Chain(r)) \subseteq ToSet(NamesOf(c.providers))
        /\ strategyOrDefault(r.strategy) \in AllStrategies
        /\ Chain(r) # <<>> /\ Distinct(Chain(r))

\* providerKinds: the vendor a settlement is priced through.  A map is filled from a
\* list, so the last entry of a name counts.
providerKinds(c, name) ==
    LET at == {i \in DOMAIN c.providers : c.providers[i].name = name}
    IN  IF at = {} THEN "" ELSE c.providers[Max(at)].kind

\* routePricing: the vendor and model an estimate is priced against.
routePricing(c, model) ==
    LET at == {i \in DOMAIN c.routes : c.routes[i].model = model /\ Chain(c.routes[i]) # <<>>}
        r  == c.routes[Max(at)]
        first == Head(Chain(r))
    IN  IF at = {} THEN [kind |-> "", upstream |-> ""]
        ELSE [kind |-> providerKinds(c, first), upstream |-> UpstreamModel(r, first)]

Limits(c) == {t.name : t \in ToSet(c.auth.tenants)}

AnonymousTenant == ""

\* keySet.add for each of some keys, in order: an empty key is dropped.
Entries(keys, tenant) ==
    JoinTo([i \in DOMAIN keys |->
               IF keys[i] = "" THEN <<>> ELSE <<[key |-> keys[i], tenant |-> tenant]>>],
           Len(keys))

newKeySet(keys) == Entries(keys, AnonymousTenant)

\* tenantKeys is a map by name, and names are unique in an accepted file;
\* WithTenantKeys ranges over it, so the tenants come in any order.
tenantKeys(c) == SetToSeqs(ToSet(c.auth.tenants))
WithTenantKeys(set, order) ==
    set \o JoinTo([i \in DOMAIN order |-> Entries(order[i].keys, order[i].name)], Len(order))

\* lookup: the tenant of the last entry that matches, or none.
lookup(set, presented) ==
    LET at == {i \in DOMAIN set : set[i].key = presented}
    IN  IF at = {} THEN [ok |-> FALSE, tenant |-> AnonymousTenant]
        ELSE [ok |-> TRUE, tenant |-> set[Max(at)].tenant]
=============================================================================
