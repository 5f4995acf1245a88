------------------------------- MODULE MCK8s -------------------------------
(* Two gateways in one namespace and HTTPRoutes attached to one or both.    *)
EXTENDS K8sTranslation

NS == <<"n">>
Gw(name) == [ns |-> NS, name |-> name, class |-> "ours"]
MCGateways == {Gw("g"), Gw("h")}

Wild == <<[hostname |-> {<<"*", ".", "e">>}, https |-> TRUE]>>
Open == <<[hostname |-> {<<"-">>}, https |-> TRUE], [hostname |-> {}, https |-> FALSE]>>
MCListenerLists == {Wild, Open}

Id(ns, name) == [ns |-> ns, name |-> name]
MCRouteIds == {Id(NS, <<"r">>), Id(NS, <<"s">>)}

To(name) == [ns |-> {}, name |-> name]
Svc(n, ns, port, w) == [name |-> <<n>>, ns |-> ns, port |-> port, weight |-> w]
Match(path, method) == [path |-> path, method |-> method]
Exact(v) == {[type |-> "Exact", value |-> v]}
Prefix(v) == {[type |-> "PathPrefix", value |-> v]}

Both == [parents |-> <<To("g"), To("h")>>, hostnames |-> <<>>, rules |->
           <<[matches |-> <<Match(Exact(<<"/", "a">>), {})>>, backends |-> <<Svc("a", {}, {}, {})>>],
             [matches |-> <<>>, backends |-> <<Svc("b", {}, {8080}, {0}), Svc("c", {<<"m">>}, {}, {2})>>],
             [matches |-> <<>>, backends |-> <<>>]>>]
Narrowed == [parents |-> <<To("g")>>, hostnames |-> <<<<"x", ".", "e">>>>, rules |->
           <<[matches |-> <<Match(Prefix(<<"/", "a", "/">>), {"POST"}), Match({}, {"PUT"})>>,
              backends |-> <<Svc("d", {}, {}, {})>>]>>]
Unusable == [Narrowed EXCEPT !.hostnames = <<<<"x", ".", "?">>>>]
Unparsable == [Narrowed EXCEPT !.rules = <<[matches |-> <<Match(Prefix(<<"/", "=">>), {})>>,
                                            backends |-> <<Svc("d", {}, {}, {})>>]>>]
MCRouteSpecs == {Both, Narrowed, Unusable, Unparsable}
MCStart == [id \in MCRouteIds |-> IF id.name = <<"r">> THEN [there |-> TRUE, spec |-> Both]
                                  ELSE Absent]

\* Only the unparsable route, under the gateway it names, spoils the text.
MCAccepts(in) ==
    ~ \E id \in DOMAIN in.routes : /\ in.routes[id] = Unparsable
                                   /\ \E g \in in.gateways : g.name = "g"
                                   /\ in.ours

\* Every host, path and method the two rules tell apart.
TrafficStays == ServedByItsRule({<<"x", ".", "e">>, <<"y", ".", "e">>, <<"z">>},
                                {<<"/", "a">>, <<"/", "a", "/", "b">>, <<"/", "a", "b">>},
                                {"GET", "POST", "PUT"})
=============================================================================
