----------------------------- MODULE MCProcess ------------------------------
(* A sample file, what an operator may have done to it, and one busy gateway. *)
EXTENDS Process

MCEnv == [v \in {"${KEY}", "${UNSET}"} |-> IF v = "${KEY}" THEN "key-from-env" ELSE ""]

Tenant(name, ks, daily) == [name |-> name, keys |-> ks, limits |-> [rpm |-> 0, daily |-> daily]]
Prov(name, kind, url, key, models) ==
    [name |-> name, kind |-> kind, baseURL |-> url, apiKey |-> key, models |-> models]
Route(model, one, many, strategy, names) ==
    [model |-> model, provider |-> one, providers |-> many, strategy |-> strategy,
     providerModels |-> names]

NoNames == [n \in {} |-> ""]
Names(n, m) == [x \in {n} |-> m]

P1 == Prov("p1", "openai_compat", "http", "${KEY}", {})
P2 == Prov("p2", "gemini", "http", "secret-two", {"m2"})

Server(listen, timeout, inflight) ==
    [listen |-> listen, timeouts |-> [f \in {"read", "upstream", "idle"} |-> timeout],
     maxInflight |-> inflight]
Auth(ks, ts) == [clientKeys |-> ks, tenants |-> ts]
Accounting(s, l) == [storePath |-> s, ledgerPath |-> l]
Cache(on, entries, semantic, key, threshold) ==
    [enabled |-> on, maxEntries |-> entries, ttl |-> 0, maxTemperature |-> 0, semantic |-> semantic,
     embedAPIKey |-> key, threshold |-> threshold, maxPerTenant |-> 0]
Tuning(a, b, m, c) == [maxAttempts |-> a, baseDelay |-> b, maxDelay |-> m, breakerCooldown |-> c]

Base ==
    [unknownField |-> FALSE, logLevel |-> "",
     server |-> Server("", 0, 1),
     auth |-> Auth(<<>>, <<Tenant("a", <<"long-key-of-a">>, 1)>>),
     accounting |-> Accounting("s.db", "l.jsonl"),
     cache |-> Cache(FALSE, -1, FALSE, "", 0),
     router |-> Tuning(0, 0, 0, 0),
     providers |-> <<P1, P2>>,
     routes |-> <<Route("m1", "", <<"p1", "p2">>, "", Names("p2", "m2"))>>]

Servers == <<Base.server, Server("", 1, 1), Server("localhost:80", 1, 1), Server(":80", 1, 1),
             Server("", -1, 0), Server("", 4, 0), Server("", 0, -1)>>

\* A second tenant beside the first.
Second(t) == Auth(<<>>, <<Tenant("a", <<"long-key-of-a">>, 0), t>>)

Auths ==
    <<Base.auth, Auth(<<>>, <<>>), Auth(<<"${KEY}">>, <<>>), Auth(<<"${UNSET}">>, <<>>),
      Auth(<<"">>, <<>>), Auth(<<"short">>, <<>>), Auth(<<"long-key-of-c">>, Base.auth.tenants),
      Second(Tenant("b", <<"long-key-of-b">>, 0)),
      Second(Tenant("b", <<"long-key-of-a">>, 0)), Second(Tenant("b", <<>>, 0)),
      Second(Tenant("a", <<"long-key-of-b">>, 0)), Second(Tenant("", <<"long-key-of-b">>, 0)),
      Second(Tenant("b b", <<"long-key-of-b">>, 0)), Second(Tenant("b", <<"long-key-of-b">>, -1)),
      Second(Tenant("b", <<"long-key-of-b", "long-key-of-b">>, 0))>>

Accountings == <<Accounting("s.db", "l.jsonl"), Accounting("", "l.jsonl"), Accounting("s.db", ""),
                 Accounting("", ""), Accounting("s.db", "s.db")>>

Caches == <<Base.cache, Cache(TRUE, 0, FALSE, "", 0), Cache(TRUE, -1, FALSE, "", 0),
            Cache(TRUE, 0, TRUE, "", 0), Cache(TRUE, 0, TRUE, "${UNSET}", 0),
            Cache(TRUE, 0, TRUE, "secret-e", 0), Cache(TRUE, 0, TRUE, "secret-e", 94),
            Cache(TRUE, 0, TRUE, "secret-e", 95), Cache(TRUE, 0, TRUE, "secret-e", 101)>>

Tunings == <<Base.router, Tuning(-1, 0, 0, 0), Tuning(3, 0, 0, 0), Tuning(1, 2, 1, 1),
             Tuning(1, 1, 2, 2), Tuning(0, 0, 1, 3)>>

Providers ==
    <<Base.providers, <<>>, <<P1>>, <<P1, P1>>, <<P1, [P2 EXCEPT !.name = "p1"]>>,
      <<P1, [P2 EXCEPT !.models = {"m1", "m2"}]>>, <<[P1 EXCEPT !.name = ""], P2>>,
      <<[P1 EXCEPT !.kind = "llama"], P2>>, <<[P1 EXCEPT !.baseURL = ""], P2>>,
      <<[P1 EXCEPT !.baseURL = "ftp"], P2>>, <<[P1 EXCEPT !.apiKey = ""], P2>>>>

RouteLists ==
    <<Base.routes, <<>>, Base.routes \o Base.routes,
      <<Route("", "p1", <<>>, "", NoNames)>>, <<Route("m1", "", <<>>, "", NoNames)>>,
      <<Route("m1", "p1", <<>>, "round_robin", NoNames)>>, <<Route("m1", "p1", <<"p2">>, "", NoNames)>>,
      <<Route("m1", "p3", <<>>, "", NoNames)>>, <<Route("m1", "", <<"p2", "p2">>, "", Names("p2", "m2"))>>,
      <<Route("m1", "p1", <<>>, "random", NoNames)>>, <<Route("m1", "p2", <<>>, "", Names("p2", ""))>>,
      <<Route("m1", "p1", <<>>, "", Names("p2", "m2"))>>>>

Pairs(kind, s, t) == {<<kind, i, j>> : i \in DOMAIN s, j \in DOMAIN t}

MCFiles ==
    [n \in Pairs(1, Servers, Auths) \cup Pairs(2, Accountings, Auths)
           \cup Pairs(3, Providers, RouteLists) \cup Pairs(4, Caches, <<FALSE, TRUE>>)
           \cup Pairs(5, Tunings, <<"", "loud">>) |->
        CASE n[1] = 1 -> [Base EXCEPT !.server = Servers[n[2]], !.auth = Auths[n[3]]]
          [] n[1] = 2 -> [Base EXCEPT !.accounting = Accountings[n[2]], !.auth = Auths[n[3]]]
          [] n[1] = 3 -> [Base EXCEPT !.providers = Providers[n[2]], !.routes = RouteLists[n[3]]]
          [] n[1] = 4 -> [Base EXCEPT !.cache = Caches[n[2]], !.unknownField = <<FALSE, TRUE>>[n[3]]]
          [] OTHER    -> [Base EXCEPT !.router = Tunings[n[2]], !.logLevel = <<"", "loud">>[n[3]]]]

\* One busy gateway has budgets and books, the other neither.
MCBusy == {<<1, 1, 1>>, <<1, 1, 2>>}

NewFile == [version |-> 0, table |-> FALSE, intact |-> TRUE, row |-> {}]
MCStores == {NewFile, [NewFile EXCEPT !.version = 2, !.table = TRUE],
             [NewFile EXCEPT !.version = 1, !.table = TRUE, !.intact = FALSE]}
=============================================================================
