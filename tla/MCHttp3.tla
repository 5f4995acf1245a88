------------------------------- MODULE MCHttp3 -------------------------------
(* One connection, from an IPv4 client seen as IPv6, with three requests.  *)
EXTENDS Http3

MCConnOf(s) == "c"
MCPeer(c) == [family |-> "mapped", bits |-> 2]
MCKeys == {[family |-> "v4", bits |-> 2]}

Cidr(f, b, p) == [family |-> f, bits |-> b, prefix |-> p]
Acl(allow, deny) == [mw |-> "ip", acl |-> [allow |-> allow, deny |-> deny]]
Headers(set, remove) == [mw |-> "headers", set |-> set, remove |-> remove]
Limiter == [mw |-> "rate_limit", key |-> "ip"]
CorsFor(o) == [mw |-> "cors", origins |-> o, methods |-> {"GET"}, credentials |-> TRUE]

MCRoutes == [
    site |-> [middleware |-> <<Acl({Cidr("v4", 3, 1)}, {}), Headers("x" :> "outer", {"y"}), Limiter,
                               CorsFor({"o"}), [mw |-> "strip_prefix", prefix |-> <<"/", "s">>],
                               Headers([x |-> "inner", y |-> "inner"], {})>>,
              handler |-> [h |-> "files", try |-> <<<<"{path}">>, <<"/", "dir">>, <<"/", "home">>>>]],
    api |-> [middleware |-> <<Acl({}, {Cidr("v4", 0, 1), Cidr("v6", 2, 0)}),
                              [mw |-> "waf", mode |-> "block"], CorsFor({"*"})>>,
             handler |-> [h |-> "proxy", known |-> TRUE]],
    old |-> [middleware |-> <<Acl({}, {Cidr("v4", 2, 2)})>>, handler |-> [h |-> "other"]],
    ok |-> [middleware |-> <<[mw |-> "waf", mode |-> "detect"], Limiter>>,
            handler |-> [h |-> "respond", status |-> 204]]]

Ask(route, method, path, origin, flagged, large) ==
    [route |-> route, method |-> method, path |-> path, origin |-> origin,
     flagged |-> flagged, large |-> large]
Get(route) == Ask(route, "GET", <<"/", "s", "/", "f">>, "o", FALSE, FALSE)

Burst == [s1 |-> Get("ok"), s2 |-> Get("ok"), s3 |-> Ask("ok", "GET", <<"/">>, None, TRUE, FALSE)]
MCPlans == {Burst,
    [s1 |-> Get("site"), s2 |-> Ask("site", "OPTIONS", <<"/">>, "o", FALSE, FALSE), s3 |-> Get("old")],
    [s1 |-> Ask("api", "POST", <<"/">>, None, FALSE, TRUE), s2 |-> Get("none"), s3 |-> Get("api")],
    [s1 |-> Ask("api", "GET", <<"/">>, "o", TRUE, FALSE), s2 |-> Get("site"), s3 |-> Get("api")]}
\* Time matters where requests race for the limiter.
MCMaxClock(p) == IF p = Burst THEN 2 ELSE 0

MCVolatile(p) == IF "site" \in {p[s].route : s \in DOMAIN p} THEN {<<"f">>} ELSE {}
MCPermanent == (<<"home">> :> "file") @@ (<<"dir">> :> "dir")
=============================================================================
