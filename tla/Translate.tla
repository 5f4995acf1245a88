----------------------------- MODULE Translate -----------------------------
(***************************************************************************)
(* Gateway API objects to a configuration (pulsate-k8s/src/translate.rs).   *)
(* Names, hosts and paths are sequences of pieces: "-" and "." are their    *)
(* own pieces, "?" is a character that is never valid, and every other     *)
(* piece stands for letters and digits.  An                                 *)
(* optional field is a set of at most one value.  The result is the         *)
(* document the generated text parses to; Renders says whether it parses.   *)
(***************************************************************************)
EXTENDS RouteTable

LOCAL INSTANCE FlowLexer

CONSTANTS ControllerName, \* the controllerName this instance answers to
          MaxLabel,       \* longest DNS label
          MaxHost         \* longest host name

Alphanumeric(piece) == piece \notin {"-", ".", "_", "/", "*", "?"} \cup AtomStops

IsDnsLabel(label) ==
    /\ Len(label) \in 1..MaxLabel
    /\ Alphanumeric(label[1]) /\ Alphanumeric(Last(label))
    /\ \A p \in ToSet(label) : Alphanumeric(p) \/ p = "-"

\* The labels of a host: the runs between its dots.
Labels(host) ==
    LET cuts == {0, Len(host) + 1} \cup {i \in DOMAIN host : host[i] = "."}
    IN  {SubSeq(host, i + 1, j - 1) : <<i, j>> \in
            {c \in cuts \X cuts : c[1] < c[2] /\ ~\E k \in cuts : c[1] < k /\ k < c[2]}}

IsValidHostname(host) ==
    LET bare == IF IsPrefix(<<"*", ".">>, host) THEN SubSeq(host, 3, Len(host)) ELSE host
    IN  Len(bare) \in 1..MaxHost /\ \A l \in Labels(bare) : IsDnsLabel(l)

\* The characters that are refused in a path; a subset of those that end an atom.
UnsafeChars == {"sp", "nl", "{", "}", "(", ")", "quote", "~", ">", "<", "#", "@"}

IsValidPathValue(value) ==
    value # <<>> /\ value[1] = "/" /\ ToSet(value) \cap UnsafeChars = {}

\* One or more letters; "?" stands for any other text.
IsValidMethod(m) == m \notin {"", "?"}

\* A route with an unusable field is skipped as a whole.
RouteIsValid(r) ==
    /\ \A h \in ToSet(r.hostnames) : IsValidHostname(h)
    /\ \A rule \in ToSet(r.rules) :
          /\ \A m \in ToSet(rule.matches) :
                /\ \A p \in m.path : IsValidPathValue(p.value)
                /\ \A v \in m.method : IsValidMethod(v)
          /\ \A b \in ToSet(rule.backends) :
                IsDnsLabel(b.name) /\ \A ns \in b.ns : IsDnsLabel(ns)

The(opt, default) == IF opt = {} THEN default ELSE CHOOSE x \in opt : TRUE

\* A wildcard listener serves the hosts with at least one more label.
HostMatches(listener, host) ==
    IF ~IsPrefix(<<"*", ".">>, listener) THEN listener = host
    ELSE LET n == Len(host) - (Len(listener) - 2)
         IN  n > 1 /\ host[n] = "." /\ IsSuffix(SubSeq(listener, 3, Len(listener)), host)

Default == <<":default">>

\* The hosts a route gets under one listener.
HostsFor(l, hostnames) ==
    LET lh == The(l.hostname, Default) IN
    CASE l.hostname # {} /\ ~IsValidHostname(lh) -> {}
      [] hostnames = <<>> -> {lh}
      [] l.hostname # {} -> {h \in ToSet(hostnames) : HostMatches(lh, h)}
      [] OTHER -> ToSet(hostnames)

\* /api and /api/ both become /api/*.
PrefixToGlob(value) ==
    LET keep == {i \in DOMAIN value : value[i] # "/"}
        trimmed == SubSeq(value, 1, IF keep = {} THEN 0 ELSE Max(keep))
    IN  trimmed \o <<"/", "*">>

(* Fault: a path match drops the method it is combined with. *)
RuleRouteLinesAnyMethod(rule, upstream) ==
    {[kind |-> "prefix", method |-> {}, upstream |-> upstream, pattern |->
        IF m.path = {} THEN <<"/", "*">> ELSE PrefixToGlob(The(m.path, 0).value)]
     : m \in ToSet(rule.matches)}

\* One route per path match; a rule without matches takes every path.
RuleRouteLines(rule, upstream) ==
    LET Line(kind, pattern, method) ==
            [kind |-> kind, pattern |-> pattern, method |-> method, upstream |-> upstream]
        Of(m) == IF m.path = {} THEN Line("prefix", <<"/", "*">>, m.method)
                 ELSE LET p == The(m.path, 0) IN
                      IF p.type = "Exact" THEN Line("exact", p.value, m.method)
                      ELSE Line("prefix", PrefixToGlob(p.value), m.method)
    IN  IF rule.matches = <<>> THEN {Line("prefix", <<"/", "*">>, {})}
        ELSE {Of(m) : m \in ToSet(rule.matches)}

Sanitize(name) == [i \in DOMAIN name |-> IF Alphanumeric(name[i]) THEN name[i] ELSE "_"]

UpstreamName(ns, route, idx) ==
    <<"up", "_">> \o Sanitize(ns) \o <<"_">> \o Sanitize(route) \o <<"_", ToString(idx)>>

\* A target names its Service, namespace and port.
UpstreamBlock(name, rule, ns) ==
    LET Target(b) == [form |-> "directive", kw |-> "target", body |-> <<>>, args |->
            <<[key |-> "", val |-> [type |-> "str", v |-> <<b.name, The(b.ns, ns), The(b.port, 80)>>]],
              [key |-> "weight", val |-> [type |-> "int", v |-> The(b.weight, 1)]]>>]
    IN  [form |-> "block", kw |-> "upstream", body |-> Map(Target, rule.backends),
         args |-> <<[key |-> "", val |-> [type |-> "str", v |-> name]]>>]

\* What one HTTPRoute contributes: a line of a site, with its upstream block.
Contributions(r, gateways) ==
    LET parents == {g \in gateways : \E p \in ToSet(r.parents) :
                        g.ns = The(p.ns, r.ns) /\ g.name = p.name}
        Up(i) == UpstreamName(r.ns, r.name, i)
        Rule(i) == r.rules[i]
    IN  IF ~RouteIsValid(r) THEN {}
        ELSE UNION {UNION {{[host |-> h, https |-> l.https, line |-> line,
                             block |-> UpstreamBlock(Up(i), Rule(i), r.ns)]
                            : h \in HostsFor(l, r.hostnames),
                              line \in RuleRouteLines(Rule(i), Up(i))}
                           : l \in UNION {ToSet(g.listeners) : g \in parents}}
                    : i \in {k \in DOMAIN r.rules : r.rules[k].backends # <<>>}}

\* The elements of a set in a fixed order.
InOrder(S) == FoldSet(LAMBDA x, acc : Append(acc, x), <<>>, S)

\* Exact before prefix, longer before shorter; ties in a fixed order.
RouteOrder(a, b) ==
    \/ a.kind = "exact" /\ b.kind = "prefix"
    \/ a.kind = b.kind /\ Len(a.pattern) > Len(b.pattern)

RouteStmt(line) ==
    [form |-> "route", kw |-> "route", args |-> <<>>, kind |-> line.kind,
     pattern |-> line.pattern,
     predicates |-> [i \in 1..Cardinality(line.method) |->
                        [key |-> "method", value |-> The(line.method, "")]],
     steps |-> <<[name |-> "proxy", args |->
                    <<[key |-> "", val |-> [type |-> "ref", v |-> line.upstream]]>>]>>]

SiteBlock(host, contribs) ==
    LET mine == {c \in contribs : c.host = host}
        lines == SortSeq(InOrder({c.line : c \in mine}), RouteOrder)
        tls == [form |-> "directive", kw |-> "tls", body |-> <<>>, args |->
                  <<[key |-> "", val |-> IF \E c \in mine : c.https
                                         THEN [type |-> "str", v |-> "auto"]
                                         ELSE [type |-> "bool", v |-> "false"]]>>]
    IN  [form |-> "block", kw |-> "site", body |-> <<tls>> \o Map(RouteStmt, lines),
         args |-> <<[key |-> "", val |-> [type |-> "str", v |-> host]]>>]

(* Fault: one block for every route line. *)
UpstreamBlocksPerLine(each) ==
    FlattenSeq(Map(LAMBDA cs : Map(LAMBDA c : c.block, InOrder(cs)), each))

\* The upstream blocks of the routes, as the API lists them: of two with one
\* name the later is kept.
UpstreamBlocks(each) ==
    LET blocks == FlattenSeq(Map(LAMBDA cs : InOrder({c.block : c \in cs}), each))
        kept == SelectSeq([i \in DOMAIN blocks |-> <<i, blocks[i]>>],
                          LAMBDA b : \A j \in b[1] + 1..Len(blocks) : blocks[j].args # b[2].args)
    IN  Map(LAMBDA b : b[2], kept)

\* to_flow.
ToFlow(classes, gateways, routes) ==
    LET managed == {c.name : c \in {x \in classes : x.controller = ControllerName}}
        mine == {g \in gateways : g.class \in managed}
        each == Map(LAMBDA r : Contributions(r, mine), routes)
        all == UNION ToSet(each)
    IN  UpstreamBlocks(each)
        \o Map(LAMBDA h : SiteBlock(h, all), InOrder({c.host : c \in all}))

\* The text of a document parses when every pattern is one atom of it.
Renders(doc) ==
    \A site \in ToSet(Blocks(doc, "site")) : \A s \in ToSet(site.body) :
        s.form = "route" => ToSet(s.pattern) \cap AtomStops = {}
=============================================================================
