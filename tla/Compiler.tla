------------------------------ MODULE Compiler ------------------------------
(***************************************************************************)
(* The configuration compiler (pulsate-config/src/compile.rs): lowering a   *)
(* parsed document into the typed configuration, and the validation that    *)
(* stands between a document and the running server.                        *)
(*                                                                          *)
(* A document is a sequence of statements as the Flow parser returns them:  *)
(* [form, kw, args, body], where form is "directive", "block" or "route".   *)
(* An argument is [key, val], key "" when it is positional; a value is      *)
(* [type, v].  Hosts and paths are sequences of pieces, so that suffixes    *)
(* and prefixes are those of the strings; names and bodies are atoms.       *)
(* A diagnostic is the code of its error: spans and wording are left out.   *)
(***************************************************************************)
EXTENDS Integers, Sequences, FiniteSets, SequencesExt, FiniteSetsExt

CONSTANTS Environment,   \* the environment variables that are set, with values
          U16Max, U32Max \* the largest status code and the largest count

NoValue == [type |-> "none", v |-> "none"]

HANDLERS == {"proxy", "files", "redirect", "respond", "grpc", "ws"}

PluginSteps == {"plugin.auth"}

SUPPORTED_FLOW_VERSIONS == {"1"}

Positional(args) == SelectSeq(args, LAMBDA a : a.key = "")

FirstPositional(args) ==
    IF Positional(args) = <<>> THEN NoValue ELSE Positional(args)[1].val

NamedValue(args, key) ==
    LET hits == SelectSeq(args, LAMBDA a : a.key = key)
    IN  IF hits = <<>> THEN NoValue ELSE hits[1].val

\* A value read as a string, `default` when it is something else.
StrOr(val, default) == IF val.type = "str" THEN val.v ELSE default

\* The string items of an array value; the empty list for anything else.
StrItems(val) ==
    IF val.type # "array" THEN <<>>
    ELSE LET strs == SelectSeq(val.v, LAMBDA i : i.type = "str")
         IN  [k \in DOMAIN strs |-> strs[k].v]

\* try_from(i).unwrap_or(default): an integer that does not fit is replaced.
Narrow(i, max, default) == IF i \in 0..max THEN i ELSE default

\* ${VAR:-default} is resolved when the document is loaded.
ResolveStr(val) ==
    CASE val.type = "str" -> {val.v}
      [] val.type = "env" ->
            IF val.v.var \in DOMAIN Environment THEN {Environment[val.v.var]}
            ELSE val.v.default
      [] OTHER -> {}

\* The directives of a body with one of the keywords kws, in order.
Directives(body, kws) ==
    SelectSeq(body, LAMBDA s : s.form = "directive" /\ s.kw \in kws)

Blocks(body, kw) == SelectSeq(body, LAMBDA s : s.form = "block" /\ s.kw = kw)

\* The setting a body gives: that of its last directive of the wanted type.
Setting(body, kws, type, default) ==
    LET hits == SelectSeq(Directives(body, kws),
                          LAMBDA s : FirstPositional(s.args).type = type)
    IN  IF hits = <<>> THEN default ELSE FirstPositional(Last(hits).args).v

\* A list setting is replaced by every directive, one without an array too.
ListSetting(body, kw, default) ==
    LET hits == Directives(body, {kw})
    IN  IF hits = <<>> THEN default ELSE StrItems(FirstPositional(Last(hits).args))

NameOf(block) == StrOr(FirstPositional(block.args), "")

Map(Op(_), s) == [i \in DOMAIN s |-> Op(s[i])]

LowerRetry(b) ==
    LET Codes(d) == LET v == FirstPositional(d.args) IN
                    IF v.type = "array"
                    THEN {i.v : i \in {x \in ToSet(v.v) : x.type = "int" /\ x.v \in 0..U16Max}}
                    ELSE {}
    IN  [attempts |-> Narrow(Setting(b.body, {"attempts"}, "int", 1), U32Max, 1),
         retry_on_status |-> UNION {Codes(d) : d \in ToSet(Directives(b.body, {"on"}))},
         on_connect_error |-> TRUE]

LowerBreaker(b) ==
    [consecutive_failures |->
         Narrow(Setting(b.body, {"min_requests", "consecutive"}, "int", 5), U32Max, 5),
     open_for_secs |-> Setting(b.body, {"open_for"}, "duration", 15)]

\* A target whose URL does not resolve is left out of the pool.
LowerUpstream(b) ==
    LET lines == SelectSeq(Directives(b.body, {"target"}),
                           LAMBDA d : ResolveStr(FirstPositional(d.args)) # {})
        Target(d) == [url |-> CHOOSE u \in ResolveStr(FirstPositional(d.args)) : TRUE,
                      weight |-> LET w == NamedValue(d.args, "weight") IN
                                 IF w.type = "int" THEN Narrow(w.v, U32Max, 1) ELSE 1]
        LastBlock(kw, Lower(_)) == LET bs == Blocks(b.body, kw)
                                   IN  IF bs = <<>> THEN {} ELSE {Lower(Last(bs))}
    IN  [name |-> NameOf(b), targets |-> Map(Target, lines),
         policy |-> Setting(b.body, {"policy"}, "str", "round_robin"),
         retry |-> LastBlock("retry", LowerRetry),
         breaker |-> LastBlock("breaker", LowerBreaker)]

LowerCache(b) ==
    [name |-> NameOf(b),
     default_ttl_secs |-> Setting(b.body, {"default_ttl"}, "duration", 60),
     methods |-> ListSetting(b.body, "methods", <<"GET", "HEAD">>),
     vary |-> ListSetting(b.body, "vary", <<>>),
     swr_secs |-> Setting(b.body, {"stale_while_revalidate"}, "duration", 0)]

LowerWaf(b) ==
    LET ip == FlattenSeq(Map(LAMBDA x : x.body, Blocks(b.body, "ip")))
    IN  [name |-> NameOf(b), mode |-> Setting(b.body, {"mode"}, "str", "block"),
         ip_deny |-> ListSetting(ip, "deny", <<>>),
         ip_allow |-> ListSetting(ip, "allow", <<>>)]

FirstRef(args) ==
    LET refs == SelectSeq(args, LAMBDA a : a.val.type = "ref")
    IN  IF refs = <<>> THEN {} ELSE {refs[1].val.v}

\* The middleware a step stands for: none for a step that is not built in, or
\* whose argument is not of the kind it needs.
BuildMiddleware(step) ==
    LET first == FirstPositional(step.args) IN
    CASE step.name = "strip_prefix" /\ first.type = "str" ->
            <<[mw |-> "strip_prefix", prefix |-> first.v]>>
      [] step.name = "cors" ->
            <<[mw |-> "cors", origins |-> ToSet(StrItems(NamedValue(step.args, "origins"))),
               methods |-> StrItems(NamedValue(step.args, "methods")),
               credentials |-> NamedValue(step.args, "credentials")
                                 = [type |-> "bool", v |-> "true"]]>>
      [] step.name = "rate_limit" /\ first.type = "rate" ->
            <<[mw |-> "rate_limit", count |-> first.v.count, per |-> first.v.per,
               key |-> StrOr(NamedValue(step.args, "key"), "ip")]>>
      [] step.name \in {"waf", "cache"} /\ FirstRef(step.args) # {} ->
            <<[mw |-> step.name, ref |-> CHOOSE r \in FirstRef(step.args) : TRUE]>>
      [] OTHER -> <<>>

StatusArg(args, default) ==
    LET named == NamedValue(args, "status")
        val == IF named.type = "int" THEN named ELSE FirstPositional(args)
    IN  IF val.type = "int" THEN Narrow(val.v, U16Max, default) ELSE default

BuildHandler(step) ==
    LET args == step.args
        OfType(t) == SelectSeq(args, LAMBDA a : a.val.type = t)
        FirstOf(t) == IF OfType(t) = <<>> THEN {} ELSE {OfType(t)[1].val.v}
        first == StrOr(FirstPositional(args), "")
    IN
    CASE step.name = "files" ->
            [handler |-> "files", root |-> first,
             try_files |-> StrItems(NamedValue(args, "try"))]
      [] step.name = "respond" ->
            [handler |-> "respond", status |-> StatusArg(args, 200),
             body |-> StrOr(NamedValue(args, "body"), "")]
      [] step.name = "redirect" ->
            [handler |-> "redirect", to |-> StrOr(NamedValue(args, "to"), first),
             status |-> StatusArg(args, 308)]
      [] step.name = "proxy" ->
            [handler |-> "proxy", upstream |-> FirstOf("ref"), target |-> FirstOf("str")]
      [] OTHER -> [handler |-> "other", name |-> step.name]

\* Every @name used in an argument list; array items are values of their own.
CollectRefs(args) ==
    LET items == UNION {IF a.val.type = "array" THEN ToSet(a.val.v) ELSE {a.val}
                        : a \in ToSet(args)}
    IN  {v.v : v \in {x \in items : x.type = "ref"}}

\* The error code, when the fault it names is found.
Flag(code, found) == IF found THEN {code} ELSE {}

\* Lowering a route: [route, errors].  The handler is a set of at most one.
LowerRoute(r) ==
    LET steps == r.steps
        idxs == {i \in DOMAIN steps : steps[i].name \in HANDLERS}
        endsInPlugin == steps # <<>> /\ Last(steps).name \in PluginSteps
        terminal == IF idxs # {} THEN {Min(idxs)}
                    ELSE IF endsInPlugin THEN {Len(steps)} ELSE {}
        mws == SelectSeq([i \in DOMAIN steps |-> <<i, steps[i]>>],
                         LAMBDA s : s[1] \notin terminal)
        methods == SelectSeq(r.predicates, LAMBDA p : p.key = "method")
    IN  [route |-> [kind |-> r.kind, pattern |-> r.pattern,
                    method |-> IF methods = <<>> THEN {} ELSE {methods[1].value},
                    mw_specs |-> FlattenSeq(Map(LAMBDA s : BuildMiddleware(s[2]), mws)),
                    handler |-> {BuildHandler(steps[i]) : i \in terminal},
                    refs |-> UNION {CollectRefs(steps[i].args) : i \in DOMAIN steps}],
         errors |-> Flag("CFG_MULTI_HANDLER", Cardinality(idxs) > 1)
                    \cup Flag("CFG_MISSING_FIELD", terminal = {})]

\* The TLS mode of a site is that of its last `tls`; automatic without one.
LowerTls(body) ==
    LET hits == SelectSeq(body, LAMBDA s : s.form # "route" /\ s.kw = "tls")
        val == FirstPositional(Last(hits).args)
    IN  IF hits = <<>> THEN "auto"
        ELSE IF Last(hits).form = "block" THEN "manual"
        ELSE CASE val.type = "bool" -> IF val.v = "true" THEN "manual" ELSE "off"
               [] val.type = "str" -> IF val.v \in {"off", "auto"} THEN val.v ELSE "manual"
               [] OTHER -> "manual"

LowerSite(b) ==
    LET hosts == SelectSeq(Positional(b.args), LAMBDA a : a.val.type = "str")
        lowered == Map(LowerRoute, SelectSeq(b.body, LAMBDA s : s.form = "route"))
    IN  [site |-> [hosts |-> Map(LAMBDA a : a.val.v, hosts), tls |-> LowerTls(b.body),
                   routes |-> Map(LAMBDA l : l.route, lowered)],
         errors |-> UNION {l.errors : l \in ToSet(lowered)}]

\* Lowering a document: [config, errors].
Lower(doc) ==
    LET sites == Map(LowerSite, Blocks(doc, "site"))
        users == SelectSeq(Blocks(doc, "users"),
                           LAMBDA b : FirstPositional(b.args).type = "str")
        versions == {FirstPositional(d.args) : d \in ToSet(Directives(doc, {"flow_version"}))}
    IN  [config |-> [upstreams |-> Map(LowerUpstream, Blocks(doc, "upstream")),
                     caches |-> Map(LowerCache, Blocks(doc, "cache")),
                     wafs |-> Map(LowerWaf, Blocks(doc, "waf")),
                     user_sets |-> Map(LAMBDA b : [name |-> NameOf(b)], users),
                     sites |-> Map(LAMBDA l : l.site, sites)],
         errors |-> UNION {l.errors : l \in ToSet(sites)}
                    \cup Flag("CFG_TYPE_MISMATCH", \E v \in versions :
                                v.type = "str" /\ v.v \notin SUPPORTED_FLOW_VERSIONS)]

DefinedNames(config) ==
    Map(LAMBDA d : d.name, config.upstreams) \o Map(LAMBDA d : d.name, config.caches)
    \o Map(LAMBDA d : d.name, config.wafs) \o Map(LAMBDA d : d.name, config.user_sets)

AllRoutes(config) == UNION {ToSet(s.routes) : s \in ToSet(config.sites)}

Repeats(s) == \E i, j \in DOMAIN s : i < j /\ s[i] = s[j]

(* Fault: only caches are looked at. *)
CheckDupNamesOfCaches(config) ==
    Flag("CFG_DUPLICATE", Repeats(Map(LAMBDA d : d.name, config.caches)))

\* Names are unique within a kind; two kinds may share one.
CheckDupNames(config) ==
    Flag("CFG_DUPLICATE", \E kind \in {"upstreams", "caches", "wafs", "user_sets"} :
                             Repeats(Map(LAMBDA d : d.name, config[kind])))

CheckRefs(config) ==
    Flag("CFG_UNKNOWN_REF", \E r \in AllRoutes(config) :
                               ~ r.refs \subseteq ToSet(DefinedNames(config)))

CheckCors(config) ==
    Flag("CFG_INVALID_CORS", \E r \in AllRoutes(config) : \E mw \in ToSet(r.mw_specs) :
                                mw.mw = "cors" /\ mw.credentials /\ "*" \in mw.origins)

CheckHostCollisions(config) ==
    Flag("CFG_HOST_COLLISION", Repeats(FlattenSeq(Map(LAMBDA s : s.hosts, config.sites))))

Validate(config) ==
    CheckDupNames(config) \cup CheckRefs(config) \cup CheckCors(config)
    \cup CheckHostCollisions(config)

\* compile: total before publish; any error means no configuration.
Compile(doc) ==
    LET low == Lower(doc)
        errors == low.errors \cup Validate(low.config)
    IN  [errors |-> errors, config |-> IF errors = {} THEN {low.config} ELSE {}]
=============================================================================
