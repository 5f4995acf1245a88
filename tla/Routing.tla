------------------------------ MODULE Routing ------------------------------
(***************************************************************************)
(* From a document to the handler of a request.  A server starts from a     *)
(* document: it compiles it, exits when there are errors, otherwise builds  *)
(* the registry and the router and serves.                                  *)
(***************************************************************************)
EXTENDS RouteTable, Serving

CONSTANT Docs  \* the documents a server may be started with

VARIABLES phase,   \* "source", "rejected", "compiled" or "serving"
          doc,     \* the document
          result   \* what compile returned for it

rvars == <<phase, doc, result, table, asked, served>>

-----------------------------------------------------------------------------
RoutingStart(d) ==
    /\ phase = "source"
    /\ doc = d
    /\ result = [errors |-> {}, config |-> {}]
    /\ table = [router |-> <<>>, registry |-> <<>>]
    /\ asked = NotAsked /\ served = {}

RoutingInit == \E d \in Docs : RoutingStart(d)

CompileDoc ==
    /\ phase = "source"
    /\ result' = Compile(doc)
    /\ phase' = IF result'.errors = {} THEN "compiled" ELSE "rejected"
    /\ UNCHANGED <<doc, table, asked, served>>

Build ==
    /\ phase = "compiled"
    /\ \E config \in result.config :
          table' = [router |-> BuildRouter(config), registry |-> BuildUpstreams(config)]
    /\ phase' = "serving"
    /\ UNCHANGED <<doc, result, asked, served>>

Request(h, p, m) ==
    /\ phase = "serving"
    /\ Answer(h, p, m)
    /\ UNCHANGED <<phase, doc, result>>

\* A rejected document ends the program.
Rejected == phase = "rejected" /\ UNCHANGED rvars

RoutingNext == CompileDoc \/ Build \/ Rejected
        \/ \E h \in Hosts, p \in Paths, m \in Methods : Request(h, p, m)

RoutingSpec == RoutingInit /\ [][RoutingNext]_rvars

-----------------------------------------------------------------------------
Sites == Blocks(doc, "site")
RoutesOf(site) == SelectSeq(site.body, LAMBDA s : s.form = "route")

\* What a document that is accepted defines is all there when requests come:
\* every route statement has its entry in the table, in its site and with its
\* own pattern, although build_route drops a route without a handler and the
\* registry keeps one pool per name, and every upstream block has its pool.  It
\* is a table as Serving takes it.
EverythingIsBuilt ==
    phase = "serving" =>
        /\ IsRouter(table.router) /\ Len(table.router) = Len(Sites)
        /\ \A i \in DOMAIN Sites :
              Map(LAMBDA r : r.pattern, table.router[i].routes)
                 = Map(LAMBDA r : r.pattern, RoutesOf(Sites[i]))
        /\ Cardinality(DOMAIN table.registry) = Len(Blocks(doc, "upstream"))

\* The same document with its statements, and the routes of its sites, in the
\* opposite order.
Reversed(d) ==
    Reverse([i \in DOMAIN d |-> IF d[i].kw = "site"
                                THEN [d[i] EXCEPT !.body = Reverse(@)] ELSE d[i]])

AnswerFor(d) ==
    UNION {Route(BuildRouter(c), asked.host, asked.path, asked.method) : c \in Compile(d).config}

\* Two routes, or two sites, that match the request equally well.
Tied(s, Key(_)) == \E i, j \in DOMAIN s :
    i # j /\ Key(s[i]) # NoMatch /\ Key(s[i]) = Key(s[j])

Ambiguous ==
    \/ Tied(table.router, LAMBDA s : HostScore(s, asked.host))
    \/ \E i \in DOMAIN table.router :
          Tied(table.router[i].routes, LAMBDA r : Score(r, asked.path, asked.method))

\* The order in which a document is written decides neither whether it is
\* accepted nor, unless two matches tie, which route a request gets.
OrderOnlyBreaksTies ==
    /\ phase = "rejected" => Compile(Reversed(doc)).errors = result.errors
    /\ phase = "serving" => /\ Compile(Reversed(doc)).config # {}
                            /\ \/ asked.method = "none" \/ Ambiguous
                               \/ AnswerFor(Reversed(doc)) = served
=============================================================================
