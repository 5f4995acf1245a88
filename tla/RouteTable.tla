----------------------------- MODULE RouteTable -----------------------------
(***************************************************************************)
(* The data-plane artifacts built from an accepted configuration            *)
(* (pulsate-config/src/router.rs).                                          *)
(***************************************************************************)
EXTENDS Compiler, Router

CONSTANT ValidCidrs  \* the address ranges that parse

-----------------------------------------------------------------------------
(* Building the artifacts.                                                  *)

\* The backends of a pool: a weight of zero counts as one.
Pool(up) ==
    [targets |-> Map(LAMBDA t : [t EXCEPT !.weight = Max({@, 1})], up.targets),
     policy |-> IF up.policy \in {"least_conn", "random", "ip_hash"}
                THEN up.policy ELSE "round_robin",
     retry |-> IF up.retry # {} THEN CHOOSE r \in up.retry : TRUE
               ELSE [attempts |-> 1, retry_on_status |-> {502, 503, 504},
                     on_connect_error |-> TRUE],
     breaker |-> IF up.breaker # {} THEN CHOOSE b \in up.breaker : TRUE
                 ELSE [consecutive_failures |-> 5, open_for_secs |-> 15]]

\* The last definition of a name is the one a map keeps.
LastNamed(defs, name) == Last(SelectSeq(defs, LAMBDA d : d.name = name))

Names(defs) == {d.name : d \in ToSet(defs)}

BuildUpstreams(config) ==
    [n \in Names(config.upstreams) |-> Pool(LastNamed(config.upstreams, n))]

\* An address list keeps the entries that parse; with none there is no list.
BuildIpAcl(waf) ==
    LET acl == [allow |-> ToSet(waf.ip_allow) \cap ValidCidrs,
                deny |-> ToSet(waf.ip_deny) \cap ValidCidrs]
    IN  IF acl.allow \cup acl.deny = {} THEN <<>> ELSE <<[mw |-> "ip", acl |-> acl]>>

\* The middleware a spec becomes; a waf() or cache() whose name is not that of
\* a waf or a cache becomes nothing.
BuildMw(spec, config) ==
    CASE spec.mw = "waf" ->
            IF spec.ref \notin Names(config.wafs) THEN <<>>
            ELSE LET waf == SelectSeq(config.wafs, LAMBDA w : w.name = spec.ref)[1]
                 IN  BuildIpAcl(waf)
                     \o <<[mw |-> "waf", mode |-> IF waf.mode = "detect" THEN "detect" ELSE "block"]>>
      [] spec.mw = "cache" -> <<>>
      [] OTHER -> <<spec>>

\* The cache layer of a route: that of its last cache(), shared by name.
BuildCache(specs, config) ==
    LET uses == SelectSeq(specs, LAMBDA s : s.mw = "cache")
    IN  IF uses = <<>> THEN {} ELSE {Last(uses).ref} \cap Names(config.caches)

\* A route without a handler is left out of the table.
BuildRoute(def, config) ==
    IF def.handler = {} THEN <<>>
    ELSE <<[kind |-> def.kind, pattern |-> def.pattern, method |-> def.method,
            middleware |-> FlattenSeq(Map(LAMBDA s : BuildMw(s, config), def.mw_specs)),
            cache |-> BuildCache(def.mw_specs, config),
            handler |-> CHOOSE h \in def.handler : TRUE]>>

BuildRouter(config) ==
    Map(LAMBDA s : [hosts |-> s.hosts,
                    routes |-> FlattenSeq(Map(LAMBDA r : BuildRoute(r, config), s.routes))],
        config.sites)
=============================================================================
