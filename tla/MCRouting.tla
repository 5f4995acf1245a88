----------------------------- MODULE MCRouting -----------------------------
(* Documents for Routing: a few definitions, then one site with two routes  *)
(* or two sites with one route.  Foreign configurations for Importing.      *)
EXTENDS Importing

Upstream(n, u) ==
    Blk("upstream", <<Pos("str", n)>>,
        <<Dir("target", <<u, Key("weight", "int", -1)>>), Dir("policy", <<Pos("str", "sticky")>>),
          Blk("retry", <<>>, <<Dir("attempts", <<Pos("int", 2)>>),
                               Dir("on", <<Pos("array", <<Val("int", 502), Val("str", "connect_error"),
                                                          Val("int", 70000)>>)>>)>>),
          Blk("breaker", <<>>, <<Dir("open_for", <<Pos("duration", 30)>>)>>)>>)
Cache(n) == Blk("cache", <<Pos("str", n)>>,
                <<Dir("default_ttl", <<Pos("duration", 5)>>), Dir("vary", <<Pos("str", "x")>>)>>)
Waf(n) == Blk("waf", <<Pos("str", n)>>,
              <<Blk("ip", <<>>, <<Dir("allow", <<Pos("array", <<Val("str", "10/8")>>)>>),
                                  Dir("deny", <<Pos("array", <<Val("str", "junk")>>)>>)>>)>>)

Literal == Pos("str", "http://b")
FromEnv(var, default) == Pos("env", [var |-> var, default |-> default])

DefsA == <<Upstream("api", Literal), Cache("api"), Waf("wall")>>
DefsB == <<Upstream("abi", FromEnv("SET", {})), Upstream("app", FromEnv("UNSET", {"http://d"})),
           Blk("users", <<Pos("str", "ops")>>, <<>>)>>
DefsC == <<Upstream("api", FromEnv("UNSET", {})), Upstream("api", Literal)>>
DefsD == <<Dir("flow_version", <<Pos("str", "2")>>), Waf("abb")>>
Defs == {DefsA, DefsB, DefsC, DefsD}

Proxy == Step("proxy", <<Pos("ref", "api")>>)
Ok == Step("respond", <<Pos("int", 204)>>)
Go == Step("redirect", <<Key("to", "str", "/x"), Key("status", "int", 70000)>>)
Routes == {
    Rt("prefix", <<"/", "*">>, <<>>, <<Proxy>>),
    Rt("prefix", <<"/", "a", "/", "*">>, <<>>, <<Step("cache", <<Pos("ref", "api")>>), Ok>>),
    Rt("prefix", <<"/", "a", "*">>, <<[key |-> "method", value |-> "POST"]>>, <<Go>>),
    Rt("exact", <<"/", "a">>, <<>>,
       <<Step("waf", <<Pos("ref", "wall")>>),
         Step("cors", <<Key("origins", "array", <<Val("str", "*")>>),
                        Key("credentials", "bool", "true")>>), Ok>>),
    Rt("exact", <<"/", "a">>, <<>>,
       <<Step("strip_prefix", <<Pos("str", "/a")>>),
         Step("rate_limit", <<Pos("rate", [count |-> 1, per |-> 1])>>),
         Step("compress", <<>>), Step("plugin.auth", <<>>)>>),
    Rt("regex", <<"/", "a", "/", "b">>, <<>>, <<Step("files", <<Pos("str", "/srv")>>)>>),
    Rt("prefix", <<"/", "a">>, <<>>, <<Proxy, Step("grpc", <<>>)>>),
    Rt("prefix", <<"/", "b">>, <<>>, <<Step("waf", <<Pos("ref", "api")>>)>>)}

\* "e" and "x.e" are hosts; "xe" ends with the same letters as "e".
Listed == {<<<<"e">>>>, <<<<"*", ".", "e">>>>, <<<<":default">>, <<"e">>>>,
           <<<<"*", ".", "x", ".", "e">>, <<"f">>>>}
Site(hs, tls, rs) == Blk("site", [i \in DOMAIN hs |-> Pos("str", hs[i])], tls \o rs)
NoTls == <<Dir("tls", <<Pos("bool", "false")>>)>>

MCDocs == {d \o <<Site(h, NoTls, <<r, q>>)>> : d \in Defs, h \in Listed, r \in Routes, q \in Routes}
     \cup {DefsA \o <<Site(h, <<>>, <<r>>), Site(g, <<>>, <<q>>)>> :
              h \in Listed, g \in Listed, r \in Routes, q \in Routes}

MCHosts == {<<"e">>, <<"x", ".", "e">>, <<"y", ".", "x", ".", "e">>, <<"z">>}
MCPaths == {<<"/", "a">>, <<"/", "a", "/", "b">>, <<"/", "a", "b">>}
MCMethods == {"GET", "POST"}
MCEnvironment == [var \in {"SET"} |-> "http://c"]
-----------------------------------------------------------------------------
(* Foreign configurations.  W is a word of one piece.                       *)
W(x) == <<x>>
Words1(xs) == Map(W, xs)
B1 == <<"b", ":", "1">>
PathA == <<"/", "a">>
Url == <<"http", "://", "c", "/">>
MCNumerals == [n \in {"200", "204", "301", "302", "404"} |->
    CASE n = "200" -> 200 [] n = "204" -> 204 [] n = "301" -> 301 [] n = "302" -> 302 [] n = "404" -> 404]

CaddyLines == {
    <<W("reverse_proxy"), B1>>, <<W("root"), W("*"), <<"/", "srv">>>>, Words1(<<"file_server">>),
    <<W("redir"), PathA, Url, W("301")>>, <<W("redir"), PathA, Url>>, <<W("redir"), PathA>>,
    <<W("respond"), W("x"), W("204")>>, Words1(<<"tls">>), Words1(<<"encode">>)}
CaddyOpen(h) == <<h, W("{")>>
CaddyClose == Words1(<<"}">>)
Caddyfiles ==
    {<<CaddyOpen(<<"https", "://", "e", "/", "x">>), k, l, CaddyClose>> : k, l \in CaddyLines}
    \cup {<<CaddyOpen(W("e")), CaddyOpen(W("handle")), k, CaddyClose, l, CaddyClose,
            CaddyOpen(<<"/", "p">>), CaddyClose>> : k, l \in CaddyLines}

ApacheLines == {
    <<W("servername"), <<"http", "://", "e", ":", "80">>>>, Words1(<<"serveralias", "e", "f">>),
    Words1(<<"sslengine", "on">>), <<W("proxypass"), W("/"), Url>>, <<W("proxypass"), <<"/", "a", "/">>, Url>>,
    <<W("proxypass"), PathA, W("!")>>, <<W("documentroot"), <<"/", "srv">>>>,
    <<W("redirect"), W("permanent"), W("/"), Url>>, <<W("redirect"), W("301"), PathA, Url>>,
    <<W("redirect"), PathA, Url>>, <<W("redirect"), PathA>>, Words1(<<"rewriterule", "x">>),
    Words1(<<"proxypassreverse">>)}
VhostOpen == <<W("<virtualhost"), <<"*", ":", "443">>>>
ApacheFiles ==
    {<<Words1(<<"listen", "80">>), VhostOpen, Words1(<<"servername", "e">>), k, l,
       Words1(<<"</virtualhost">>)>> : k, l \in ApacheLines}
    \cup {<<VhostOpen, k, Words1(<<"</virtualhost">>), Words1(<<"<virtualhost">>), l>> : k, l \in ApacheLines}

Top(xs) == [indented |-> FALSE, words |-> Words1(xs)]
In(ws) == [indented |-> TRUE, words |-> ws]
HaproxyLines == {
    Words1(<<"bind", "80", "ssl">>), <<W("acl"), W("p"), W("path_beg"), <<"/", "a", "/">>>>,
    <<W("acl"), W("p"), W("path"), PathA>>, Words1(<<"acl", "h", "hdr(host)", "e">>),
    Words1(<<"use_backend", "api", "if", "p">>), Words1(<<"use_backend", "abi", "if", "h">>),
    Words1(<<"default_backend", "abi">>), <<W("redirect"), W("location"), Url, W("code"), W("301")>>,
    Words1(<<"redirect", "scheme">>), <<W("server"), W("s"), B1>>}
Backends == {
    <<Top(<<"backend", "api">>), In(<<W("server"), W("s"), B1>>), Top(<<"backend", "api">>),
      In(<<W("server"), W("t"), Url>>)>>,
    <<Top(<<"backend", "api">>), In(Words1(<<"balance">>)), Top(<<"listen", "abi">>),
      In(<<W("server"), W("s"), B1>>), In(Words1(<<"acl", "h", "ssl_fc_sni", "f">>))>>}
HaproxyFiles ==
    {<<Top(<<"global">>), Top(<<"listen", "app">>), In(j), In(k), In(l)>> \o bs :
        j \in {x \in HaproxyLines : x[1] \in {W("acl"), W("server")}},
        k, l \in HaproxyLines, bs \in Backends}

Semi == <<";">>
Braced(head, body) == head \o <<W("{")>> \o body \o <<W("}")>>
NginxLocations == {
    Braced(<<W("location"), W("/")>>, <<W("proxy_pass"), <<"http", "://", "api">>, Semi>>),
    Braced(<<W("location"), <<"/", "a", "/">>>>, <<W("proxy_pass"), <<"http", "://", "b", ":", "1">>, Semi>>),
    Braced(<<W("location"), W("="), PathA>>, <<W("return"), W("204"), Semi, W("expires"), Semi>>),
    Braced(<<W("location"), PathA>>, <<W("return"), W("301"), Url, Semi, W("root"), <<"/", "srv">>, Semi>>),
    Braced(<<W("location"), <<"/", "b">>>>, <<W("root"), <<"/", "srv">>, Semi, W("return"), W("lost")>>),
    Braced(<<W("location"), W("~"), W("x")>>, <<W("return"), Semi>>),
    Braced(<<W("location"), <<"/", "d">>>>, <<W("return"), Semi>>),
    Braced(<<W("location"), <<"/", "e">>>>, <<>>), Braced(<<W("location")>>, <<>>)}
NginxPools == {
    Braced(<<W("upstream"), W("api")>>, <<W("server"), B1, Semi, W("keepalive"), W("2"), Semi>>),
    Braced(<<W("upstream"), W("abi")>>, <<W("server"), Url, Semi>>)}
NginxServers(k, l) ==
    {Braced(<<W("server")>>, <<W("server_name"), h, Semi, W("listen"), W("443"), W("ssl"), Semi>> \o k \o l)
        : h \in {W("e"), W("_")}}
    \cup {Braced(<<W("server")>>, k) \o Braced(<<W("server")>>, l)}
NginxFiles ==
    {<<W("user"), W("x"), Semi>> \o Braced(<<W("http")>>, u \o s)
        : u \in NginxPools, s \in UNION {NginxServers(k, l) : k, l \in NginxLocations}}
    \cup {u \o l \o <<W("}")>> \o u : u \in NginxPools, l \in NginxLocations}

MCForeign == {[source |-> "caddy", text |-> t] : t \in Caddyfiles}
        \cup {[source |-> "apache", text |-> t] : t \in ApacheFiles}
        \cup {[source |-> "haproxy", text |-> t] : t \in HaproxyFiles}
        \cup {[source |-> "nginx", text |-> t] : t \in NginxFiles}
=============================================================================
