----------------------------- MODULE Importers -----------------------------
(***************************************************************************)
(* The importers of pulsate-migrate: nginx, Caddy, HAProxy and Apache       *)
(* configurations translated into Flow, with notes on how faithfully.       *)
(*                                                                          *)
(* A word of a foreign configuration is a sequence of pieces, as hosts and  *)
(* paths are for the compiler; a line is a sequence of words.  The text an  *)
(* importer writes is the sequence of statements it parses to.  A builder   *)
(* is [flow, notes]; a note keeps the directive and the fidelity.           *)
(***************************************************************************)
EXTENDS Compiler, TLC

CONSTANT Numerals  \* the words that are numbers, with their values

Val(t, x) == [type |-> t, v |-> x]
Pos(t, x) == [key |-> "", val |-> Val(t, x)]
Key(k, t, x) == [key |-> k, val |-> Val(t, x)]
Dir(kw, args) == [form |-> "directive", kw |-> kw, args |-> args, body |-> <<>>]
Blk(kw, args, body) == [form |-> "block", kw |-> kw, args |-> args, body |-> body]
Step(n, args) == [name |-> n, args |-> args]
Rt(kind, pattern, preds, steps) ==
    [form |-> "route", kw |-> "route", args |-> <<>>, kind |-> kind, pattern |-> pattern,
     predicates |-> preds, steps |-> steps]

-----------------------------------------------------------------------------
(* What the importers share.                                                *)

NewBuilder == [flow |-> <<>>, notes |-> <<>>]

AddNote(b, directive, fidelity) ==
    [b EXCEPT !.notes = Append(@, [directive |-> directive, fidelity |-> fidelity])]

AddStmt(b, stmt) == [b EXCEPT !.flow = Append(@, stmt)]

IsNumber(w) == Len(w) = 1 /\ w[1] \in DOMAIN Numerals

\* How Flow types a bare word: numbers apart, the words of a foreign
\* configuration are strings.
TypeAtom(w) == IF IsNumber(w) THEN Val("int", Numerals[w[1]]) ELSE Val("str", w)

Arg(w) == [key |-> "", val |-> TypeAtom(w)]

WithScheme(addr) ==
    IF Contains(addr, "://") THEN addr ELSE <<"http", "://">> \o addr

TrimSlashes(w) == SubSeq(w, 1, Max({0} \cup {i \in DOMAIN w : w[i] # "/"}))

\* A word up to the first of the pieces in stops, without a leading scheme.
HostOnly(addr, stops) ==
    LET host == IF Len(addr) > 1 /\ addr[2] = "://" THEN SubSeq(addr, 3, Len(addr)) ELSE addr
    IN  SubSeq(host, 1, Min({Len(host)} \cup {i - 1 : i \in {j \in DOMAIN host : host[j] \in stops}}))

CatchAll == <<"/", "*">>
Under(path) == TrimSlashes(path) \o CatchAll
RouteTo(pattern, step) == Rt("prefix", pattern, <<>>, <<step>>)
ExactRouteTo(path, step) == Rt("exact", path, <<>>, <<step>>)

ProxyTo(url) == Step("proxy", <<Pos("str", url)>>)
ProxyPool(name) == Step("proxy", <<Pos("ref", name)>>)
FilesFrom(dir) == Step("files", <<Pos("str", dir)>>)
RespondWith(code) == Step("respond", <<[key |-> "status", val |-> TypeAtom(code)]>>)
RedirectTo(url, code) ==
    Step("redirect", <<Key("to", "str", url), [key |-> "status", val |-> TypeAtom(code)]>>)

\* The route a site gets when nothing in it was understood.
Placeholder == RouteTo(CatchAll, RespondWith(<<"404">>))

ImportedPool(name, targets) ==
    Blk("upstream", <<Pos("str", name)>>, Map(LAMBDA t : Dir("target", <<Pos("str", t)>>), targets))

ImportedSite(hosts, tls, routes) ==
    Blk("site", Map(Arg, IF hosts = <<>> THEN <<<<":default">>>> ELSE hosts),
        (IF tls THEN <<Dir("tls", <<Pos("str", "auto")>>)>> ELSE <<>>) \o routes)

-----------------------------------------------------------------------------
(* Caddy: one pass over the lines.  c is [b, site, root, routes].           *)

CaddyRoute(c, route, directive, fidelity) ==
    [c EXCEPT !.routes = Append(@, route), !.b = AddNote(@, directive, fidelity)]

CaddyDirective(c, line) ==
    LET args == Tail(line)
        d == line[1][1]
        codes == SelectSeq(args, IsNumber)
    IN
    CASE d = "reverse_proxy" ->
            IF args = <<>> THEN c
            ELSE CaddyRoute(c, RouteTo(CatchAll, ProxyTo(WithScheme(args[1]))), d, "exact")
      [] d = "root" -> [c EXCEPT !.root = IF args = <<>> THEN {} ELSE {Last(args)}]
      [] d = "file_server" ->
            LET dir == IF c.root = {} THEN <<".">> ELSE CHOOSE r \in c.root : TRUE
            IN  CaddyRoute(c, RouteTo(CatchAll, FilesFrom(dir)), d, "exact")
      [] d = "redir" /\ Len(args) = 3 ->
            CaddyRoute(c, RouteTo(args[1], RedirectTo(args[2], args[3])), d, "exact")
      [] d = "redir" /\ Len(args) = 2 ->
            CaddyRoute(c, RouteTo(args[1], RedirectTo(args[2], <<"302">>)), d, "approx")
      [] d = "respond" ->
            LET code == IF codes = <<>> THEN <<"200">> ELSE codes[1]
            IN  CaddyRoute(c, RouteTo(CatchAll, RespondWith(code)), d, "approx")
      [] d = "tls" -> [c EXCEPT !.b = AddNote(@, d, "approx")]
      [] OTHER -> [c EXCEPT !.b = AddNote(@, d, "manual")]

(* Fault: a site without a route is written as it is. *)
CaddyEmitSiteBare(b, hosts, routes) == AddStmt(b, ImportedSite(hosts, TRUE, routes))

CaddyEmitSite(b, hosts, routes) ==
    IF routes = <<>>
    THEN AddNote(AddStmt(b, ImportedSite(hosts, TRUE, <<Placeholder>>)), "site", "manual")
    ELSE AddStmt(b, ImportedSite(hosts, TRUE, routes))

CaddyLine(c, line) ==
    CASE Last(line) = <<"{">> ->
            LET hosts == Map(LAMBDA h : HostOnly(h, {"/"}), Front(line))
            IN  [c EXCEPT !.site = {SelectSeq(hosts, LAMBDA h : h # <<>>)},
                          !.root = {}, !.routes = <<>>]
      [] line = <<<<"}">>>> ->
            IF c.site = {} THEN [c EXCEPT !.routes = <<>>]
            ELSE [c EXCEPT !.b = CaddyEmitSite(@, CHOOSE h \in c.site : TRUE, c.routes),
                           !.site = {}, !.root = {}, !.routes = <<>>]
      [] OTHER -> CaddyDirective(c, line)

ImportCaddy(lines) ==
    FoldLeft(CaddyLine, [b |-> NewBuilder, site |-> {}, root |-> {}, routes |-> <<>>], lines).b
-----------------------------------------------------------------------------
(* Apache: one pass over the lines.  a is [b, vhost], vhost a set of at      *)
(* most one [hosts, tls, routes, doc_root, has_root_route].                  *)

NewVhost(tls) == [hosts |-> <<>>, tls |-> tls, routes |-> <<>>, doc_root |-> {},
                  has_root_route |-> FALSE]

ApacheHost(addr) == HostOnly(addr, {"/", ":"})

\* An import of one directive into a virtual host: [b, v].
ApacheRoute(a, route, root, directive) ==
    [b |-> AddNote(a.b, directive, "exact"),
     v |-> [a.v EXCEPT !.routes = Append(@, route), !.has_root_route = @ \/ root]]

ApacheManual(a, directive) == [a EXCEPT !.b = AddNote(@, directive, "manual")]

ApacheProxyPass(a, args) ==
    IF Len(args) < 2 \/ args[2] = <<"!">> THEN ApacheManual(a, "proxypass")
    ELSE LET handler == ProxyTo(TrimSlashes(args[2])) IN
         IF args[1] = <<"/">>
         THEN ApacheRoute(a, RouteTo(CatchAll, handler), TRUE, "proxypass")
         ELSE ApacheRoute(a, RouteTo(Under(args[1]), handler), FALSE, "proxypass")

ApacheRedirect(a, args) ==
    LET Named(w) == w \in {<<"permanent">>, <<"temp">>, <<"seeother">>}
        Redirect(code, from, to) ==
            LET pattern == IF from = <<"/">> THEN CatchAll ELSE from
            IN  ApacheRoute(a, RouteTo(pattern, RedirectTo(to, code)), pattern = CatchAll, "redirect")
    IN
    CASE Len(args) = 3 /\ IsNumber(args[1]) -> Redirect(args[1], args[2], args[3])
      [] Len(args) = 3 /\ Named(args[1]) ->
            Redirect(IF args[1] = <<"permanent">> THEN <<"301">> ELSE <<"302">>, args[2], args[3])
      [] Len(args) = 2 -> Redirect(<<"302">>, args[1], args[2])
      [] OTHER -> ApacheManual(a, "redirect")

ApacheDirective(a, line) ==
    LET args == Tail(line)
        d == line[1][1]
    IN
    CASE d = "servername" /\ args # <<>> -> [a EXCEPT !.v.hosts = <<ApacheHost(args[1])>> \o @]
      [] d = "serveralias" -> [a EXCEPT !.v.hosts = @ \o Map(ApacheHost, args)]
      [] d = "sslengine" -> [a EXCEPT !.v.tls = @ \/ (args # <<>> /\ args[1] = <<"on">>)]
      [] d = "proxypass" -> ApacheProxyPass(a, args)
      [] d = "documentroot" ->
            [a EXCEPT !.v.doc_root = IF args = <<>> THEN {} ELSE {args[1]}]
      [] d = "redirect" -> ApacheRedirect(a, args)
      [] d \in {"rewriterule", "<location"} -> ApacheManual(a, d)
      [] OTHER -> a

\* Longest pattern first; routes with patterns of one length keep their order.
LongestFirst(routes) ==
    LET before(i, j) == \/ Len(routes[i].pattern) > Len(routes[j].pattern)
                        \/ Len(routes[i].pattern) = Len(routes[j].pattern) /\ i < j
        order == SetToSortSeq(DOMAIN routes, before)
    IN  Map(LAMBDA i : routes[i], order)

ApacheEmit(b, v) ==
    LET rooted == ~v.has_root_route /\ v.doc_root # {}
        Files(dir) == RouteTo(CatchAll, FilesFrom(dir))
        routes == v.routes \o (IF rooted THEN <<Files(CHOOSE d \in v.doc_root : TRUE)>> ELSE <<>>)
        b1 == IF rooted THEN AddNote(b, "documentroot", "exact") ELSE b
        b2 == IF v.tls THEN AddNote(b1, "sslengine", "approx") ELSE b1
    IN  IF routes = <<>>
        THEN AddNote(AddStmt(b2, ImportedSite(v.hosts, v.tls, <<Placeholder>>)), "virtualhost", "manual")
        ELSE AddStmt(b2, ImportedSite(v.hosts, v.tls, LongestFirst(routes)))

ApacheFlush(a) ==
    [b |-> IF a.vhost = {} THEN a.b ELSE ApacheEmit(a.b, CHOOSE v \in a.vhost : TRUE),
     vhost |-> {}]

ApacheLine(a, line) ==
    LET Mentions443(w) == \E i \in DOMAIN w : i > 1 /\ w[i - 1] = ":" /\ w[i] = "443" IN
    CASE line[1] = <<"<virtualhost">> ->
            [a EXCEPT !.vhost = {NewVhost(\E w \in ToSet(line) : Mentions443(w))}]
      [] line[1] = <<"</virtualhost">> -> ApacheFlush(a)
      [] OTHER ->
            IF a.vhost = {}
            THEN [a EXCEPT !.b = IF line[1] = <<"listen">> THEN AddNote(@, "listen", "dropped") ELSE @]
            ELSE LET done == ApacheDirective([b |-> a.b, v |-> CHOOSE v \in a.vhost : TRUE], line)
                 IN  [b |-> done.b, vhost |-> {done.v}]

\* A file may end inside a virtual host, which is written all the same.
ImportApache(lines) ==
    ApacheFlush(FoldLeft(ApacheLine, [b |-> NewBuilder, vhost |-> {}], lines)).b
-----------------------------------------------------------------------------
(* HAProxy: sections first, then pools, then sites.  A line is              *)
(* [indented, words]; a section is [kind, name, lines].                     *)

NthWord(words, n) == IF n \in DOMAIN words THEN {words[n][1]} ELSE {}

HaproxySections(lines) ==
    LET headers == {"global", "defaults", "frontend", "backend", "listen"}
        Add(sections, line) ==
            IF ~line.indented /\ line.words[1][1] \in headers
            THEN Append(sections, [kind |-> line.words[1][1],
                                   name |-> IF Len(line.words) > 1 THEN line.words[2][1] ELSE "",
                                   lines |-> <<>>])
            ELSE IF sections = <<>> THEN sections
            ELSE [sections EXCEPT ![Len(sections)].lines = Append(@, line.words)]
    IN  FoldLeft(Add, <<>>, lines)

ServerTargets(section) ==
    LET servers == SelectSeq(section.lines, LAMBDA l : l[1] = <<"server">> /\ Len(l) > 2)
    IN  Map(LAMBDA l : WithScheme(l[3]), servers)

\* The pools by name; a later section replaces an earlier one of its name.
HaproxyPools(sections) ==
    LET served == SelectSeq(sections, LAMBDA s : /\ s.kind \in {"backend", "listen"}
                                                 /\ ServerTargets(s) # <<>>)
    IN  [n \in {s.name : s \in ToSet(served)} |->
            ServerTargets(Last(SelectSeq(served, LAMBDA s : s.name = n)))]

\* One line of a frontend or a listen.  h is [b, hosts, tls, acls, routes,
\* default]; only the conditions defined above a line are known to it.
HaproxyLine(h, l) ==
    LET d == l[1][1]
        ifs == {i \in DOMAIN l : l[i] = <<"if">>}
        acl == IF ifs = {} THEN {} ELSE NthWord(l, Min(ifs) + 1) \cap DOMAIN h.acls
        codes == {i \in DOMAIN l : l[i] = <<"code">>}
        code == IF codes = {} \/ Min(codes) = Len(l) THEN <<"302">> ELSE l[Min(codes) + 1]
        Matcher(kind, path) == IF kind = "path" THEN [kind |-> "exact", pattern |-> path]
                               ELSE [kind |-> "prefix", pattern |-> Under(path)]
        Pool == ProxyPool(IF Len(l) > 1 THEN l[2][1] ELSE "")
    IN
    CASE d = "bind" -> [h EXCEPT !.tls = @ \/ Contains(l, <<"ssl">>)]
      [] d = "acl" /\ Len(l) > 3 /\ l[3][1] \in {"path", "path_beg", "path_end"} ->
            LET m == Matcher(l[3][1], l[4])
            IN  [h EXCEPT !.acls = [n \in DOMAIN @ \cup {l[2][1]} |-> IF n = l[2][1] THEN m ELSE @[n]]]
      [] d = "acl" /\ Len(l) > 3 /\ l[3][1] \in {"hdr(host)", "ssl_fc_sni"} ->
            [h EXCEPT !.hosts = Append(@, l[4])]
      [] d = "use_backend" ->
            IF acl = {} THEN [h EXCEPT !.b = AddNote(@, d, "manual")]
            ELSE [h EXCEPT !.routes = Append(@, [to |-> Pool] @@ h.acls[CHOOSE a \in acl : TRUE])]
      [] d = "default_backend" -> [h EXCEPT !.default = NthWord(l, 2)]
      [] d = "redirect" ->
            IF Len(l) > 2 /\ l[2] \in {<<"location">>, <<"prefix">>}
            THEN [h EXCEPT !.b = AddNote(@, d, "approx"),
                           !.routes = Append(@, [kind |-> "prefix", pattern |-> CatchAll,
                                                 to |-> RedirectTo(l[3], code)])]
            ELSE [h EXCEPT !.b = AddNote(@, d, "manual")]
      [] OTHER -> h

(* Fault: a listen proxies to its own pool whether or not it has one. *)
HaproxyDefaultUnchecked(h, section, pools) ==
    IF h.default = {} /\ h.routes = <<>> THEN {section.name} ELSE h.default

\* A section with servers and no routing of its own proxies to its own pool.
HaproxyDefault(h, section, pools) ==
    IF h.default = {} /\ h.routes = <<>> /\ section.name \in DOMAIN pools
    THEN {section.name} ELSE h.default

HaproxySite(b, section, pools) ==
    LET h == FoldLeft(HaproxyLine, [b |-> b, hosts |-> <<>>, tls |-> FALSE, acls |-> <<>>,
                                    routes |-> <<>>, default |-> {}], section.lines)
        default == HaproxyDefault(h, section, pools)
        routes == Map(LAMBDA r : Rt(r.kind, r.pattern, <<>>, <<r.to>>), h.routes)
        last == IF default # {} THEN <<RouteTo(CatchAll, ProxyPool(CHOOSE d \in default : TRUE))>>
                ELSE IF routes = <<>> THEN <<Placeholder>> ELSE <<>>
        b1 == IF h.tls THEN AddNote(h.b, "bind", "approx") ELSE h.b
        b2 == FoldLeft(LAMBDA x, r : AddNote(x, "use_backend", "exact"), b1, routes)
        b3 == IF default # {} THEN AddNote(b2, "default_backend", "exact")
              ELSE IF routes = <<>> THEN AddNote(b2, "frontend", "manual") ELSE b2
    IN  AddStmt(b3, ImportedSite(h.hosts, h.tls, routes \o last))

\* A map of pools is written in any order: the set of results.
ImportHaproxy(lines) ==
    LET sections == HaproxySections(lines)
        pools == HaproxyPools(sections)
        Pools(order) == FoldLeft(LAMBDA b, n : AddNote(AddStmt(b, ImportedPool(n, pools[n])), "backend", "exact"),
                                 NewBuilder, order)
        fronts == SelectSeq(sections, LAMBDA s : s.kind \in {"frontend", "listen"})
    IN  {FoldLeft(LAMBDA b, s : HaproxySite(b, s, pools), Pools(order), fronts)
           : order \in SetToSeqs(DOMAIN pools)}
-----------------------------------------------------------------------------
(* nginx: a tree of directives [name, args, block], then a walk over it.    *)

\* The directives from token p on, up to the end of the block: [nodes, next].
\* Words that no `;` or block ends are lost with the block.
RECURSIVE ParseBlock(_, _, _, _)
ParseBlock(tokens, p, nodes, head) ==
    LET Node(block) == IF head = <<>> THEN nodes
                       ELSE Append(nodes, [name |-> head[1][1], args |-> Tail(head), block |-> block])
        inner == ParseBlock(tokens, p + 1, <<>>, <<>>)
    IN
    CASE p > Len(tokens) -> [nodes |-> nodes, next |-> p]
      [] p <= Len(tokens) /\ tokens[p] = <<"}">> -> [nodes |-> nodes, next |-> p + 1]
      [] p <= Len(tokens) /\ tokens[p] = <<";">> -> ParseBlock(tokens, p + 1, Node(<<>>), <<>>)
      [] p <= Len(tokens) /\ tokens[p] = <<"{">> ->
            ParseBlock(tokens, inner.next, Node(inner.nodes), <<>>)
      [] OTHER -> ParseBlock(tokens, p + 1, nodes, Append(head, tokens[p]))

NginxUpstream(b, node) ==
    LET servers == SelectSeq(node.block, LAMBDA c : c.name = "server" /\ c.args # <<>>)
        others == SelectSeq(node.block, LAMBDA c : c.name # "server")
        pool == ImportedPool(IF node.args = <<>> THEN "" ELSE node.args[1][1],
                             Map(LAMBDA c : WithScheme(c.args[1]), servers))
        noted == FoldLeft(LAMBDA x, c : AddNote(x, c.name, "manual"), b, others)
    IN  AddNote(AddStmt(noted, pool), "upstream", "exact")

\* http://name without a port, a dot or a path is the name of a pool.
UpstreamRef(target) ==
    IF Len(target) = 3 /\ target[1] = "http" /\ target[2] = "://"
    THEN ProxyPool(target[3]) ELSE ProxyTo(target)

\* `return`: [step, fidelity].
NginxReturn(args) ==
    CASE Len(args) = 2 /\ (Contains(args[2], "://") \/ args[2][1] = "/") ->
            [step |-> RedirectTo(args[2], args[1]), fidelity |-> "exact"]
      [] args = <<>> -> [step |-> RespondWith(<<"200">>), fidelity |-> "manual"]
      [] OTHER -> [step |-> RespondWith(args[1]), fidelity |-> "approx"]

\* The handler a location ends up with, the last one named: h is [b, step, root].
NginxHandler(h, d) ==
    CASE d.name = "proxy_pass" /\ d.args # <<>> ->
            [h EXCEPT !.step = {UpstreamRef(d.args[1])}, !.b = AddNote(@, "proxy_pass", "exact")]
      [] d.name = "return" ->
            LET r == NginxReturn(d.args)
            IN  [h EXCEPT !.step = {r.step}, !.b = AddNote(@, "return", r.fidelity)]
      [] d.name \in {"root", "alias"} ->
            [h EXCEPT !.root = IF d.args = <<>> THEN {} ELSE {d.args[1]}]
      [] OTHER -> h

\* A location: its route, if it has one, and its notes.  l is [b, routes].
NginxLocation(l, loc) ==
    LET exact == loc.args # <<>> /\ loc.args[1] = <<"=">>
        path == IF ~exact THEN loc.args[1] ELSE IF Len(loc.args) > 1 THEN loc.args[2] ELSE <<>>
        h == FoldLeft(NginxHandler, [b |-> l.b, step |-> {}, root |-> {}], loc.block)
        fromRoot == h.step = {} /\ h.root # {}
        steps == IF fromRoot THEN {FilesFrom(r) : r \in h.root} ELSE h.step
        b1 == IF fromRoot THEN AddNote(h.b, "root", "exact") ELSE h.b
        Route(step) == IF exact THEN ExactRouteTo(path, step) ELSE RouteTo(Under(path), step)
    IN
    CASE loc.args = <<>> -> l
      [] loc.args # <<>> /\ loc.args[1] \in {<<"~">>, <<"~*">>} ->
            [l EXCEPT !.b = AddNote(@, "location", "manual")]
      [] OTHER ->
            IF steps = {} THEN [l EXCEPT !.b = AddNote(b1, "location", "manual")]
            ELSE [b |-> b1, routes |-> Append(l.routes, Route(CHOOSE s \in steps : TRUE))]

NginxServer(b, node) ==
    LET names == SelectSeq(node.block, LAMBDA c : c.name = "server_name")
        hosts == IF names = <<>> \/ Last(names).args = <<<<"_">>>> THEN <<>> ELSE Last(names).args
        ssl == \E c \in ToSet(node.block) : c.name = "listen" /\ Contains(c.args, <<"ssl">>)
        b1 == IF ssl THEN AddNote(b, "listen", "approx") ELSE b
        l == FoldLeft(NginxLocation, [b |-> b1, routes |-> <<>>],
                      SelectSeq(node.block, LAMBDA c : c.name = "location"))
    IN  AddStmt(l.b, ImportedSite(hosts, ssl, l.routes))

RECURSIVE NginxMap(_, _)
NginxMap(b, nodes) ==
    LET MapNode(x, node) ==
          CASE node.name \in {"http", "stream", "events"} -> NginxMap(x, node.block)
            [] node.name = "upstream" -> NginxUpstream(x, node)
            [] node.name = "server" -> NginxServer(x, node)
            [] OTHER -> AddNote(x, node.name, "dropped")
    IN  FoldLeft(MapNode, b, nodes)

ImportNginx(tokens) == NginxMap(NewBuilder, ParseBlock(tokens, 1, <<>>, <<>>).nodes)

-----------------------------------------------------------------------------
\* The results an import of a foreign configuration can have.
Import(source, text) ==
    CASE source = "nginx" -> {ImportNginx(text)}
      [] source = "caddy" -> {ImportCaddy(text)}
      [] source = "haproxy" -> ImportHaproxy(text)
      [] source = "apache" -> {ImportApache(text)}
=============================================================================
