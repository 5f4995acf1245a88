--------------------------- MODULE K8sTranslation ---------------------------
(***************************************************************************)
(* The controller and the configuration it builds: what translate.rs makes *)
(* of the objects a pass has read, compiled, and the requests it routes.    *)
(***************************************************************************)
EXTENDS K8sController, Translate

\* The classes as the API lists them.
ClassesWhen(mine) ==
    {[name |-> "ours", controller |-> IF mine THEN ControllerName ELSE "other"],
     [name |-> "foreign", controller |-> "other"]}

Object(id, spec) == [ns |-> id.ns, name |-> id.name, parents |-> spec.parents,
                     hostnames |-> spec.hostnames, rules |-> spec.rules]

InListOrder(rs) == Map(LAMBDA id : Object(id, rs[id]), InOrder(DOMAIN rs))

Text(in) == ToFlow(ClassesWhen(in.ours), in.gateways, InListOrder(in.routes))

\* Everything a pass may read, over small sets.
PartialFunctions(S, T) == UNION {[D -> T] : D \in SUBSET S}

AllInputs ==
    [ours : BOOLEAN,
     gateways : {{Listed(k, f[k], 0) : k \in DOMAIN f} : f \in PartialFunctions(Gateways, ListenerLists)},
     routes : PartialFunctions(RouteIds, RouteSpecs)]

\* Accepts says whether the text parses, written shorter.  That what parses
\* also compiles is TranslationCompiles.
ASSUME AcceptsIsRenders == \A in \in AllInputs : Accepts(in) = Renders(Text(in))

-----------------------------------------------------------------------------
\* Every change has been worked off: each state of the cluster is seen so.
AtRest == \A k \in Gateways : pass[k].at = "idle" /\ k \notin queue

\* Whatever the cluster holds, and whatever mixture of it a pass has read in its
\* three awaits, the document made of it is one the compiler accepts: names are
\* unique, references resolve, no host is claimed twice.  (Whether its text
\* parses is another matter.)
TranslationCompiles ==
    /\ AtRest => Compile(Text(Current)).errors = {}
    /\ \A k \in Gateways : LET p == pass[k] IN p.at = "install" =>
          Compile(Text(Inputs(p.ours, p.gateways, p.routes))).errors = {}

\* The reference reading of an HTTPRoute: it takes a request when a listener of
\* one of its managed parents and its own host names cover the host, and the
\* rule takes it when one of its matches covers path and method.
CoversHost(pattern, host) == PatternScore(pattern, host) # NoMatch

Takes(r, host) ==
    \E g \in ListedGateways :
        /\ g.class = "ours" /\ ours
        /\ \E p \in ToSet(r.parents) : g.ns = The(p.ns, r.ns) /\ g.name = p.name
        /\ \E l \in ToSet(g.listeners) :
              /\ CoversHost(The(l.hostname, Default), host)
              /\ r.hostnames = <<>> \/ \E h \in ToSet(r.hostnames) : CoversHost(h, host)

Segments(value) == LET n == Len(value) IN IF value[n] = "/" THEN SubSeq(value, 1, n - 1) ELSE value

RuleTakes(rule, path, method) ==
    rule.matches = <<>> \/ \E m \in ToSet(rule.matches) :
        /\ m.method = {} \/ method \in m.method
        /\ \A p \in m.path : IF p.type = "Exact" THEN p.value = path
                             ELSE path = Segments(p.value)
                                  \/ IsPrefix(Append(Segments(p.value), "/"), path)

Backends(rule, ns) == {<<b.name, The(b.ns, ns), The(b.port, 80)>> : b \in ToSet(rule.backends)}

\* A request is proxied only to the Services of a rule that takes it: through
\* translation, compilation and routing no rule's traffic reaches another's
\* backends (host and path precedence may choose among the rules that do).
ServedByItsRule(hosts, paths, methods) ==
    AtRest => \A config \in Compile(Text(Current)).config :
        LET router == BuildRouter(config)
            pools == BuildUpstreams(config)
        IN  \A h \in hosts, p \in paths, m \in methods : \A r \in Route(router, h, p, m) :
                \E x \in ToSet(InListOrder(ListedRoutes)) : \E i \in DOMAIN x.rules :
                    /\ Takes(x, h) /\ RuleTakes(x.rules[i], p, m)
                    /\ \A up \in r.handler.upstream :
                          {t.url : t \in ToSet(pools[up].targets)} = Backends(x.rules[i], x.ns)
=============================================================================
