------------------------------ MODULE Serving ------------------------------
(***************************************************************************)
(* A server with a routing table answers requests from it (Router::route).  *)
(***************************************************************************)
EXTENDS Router

CONSTANTS Hosts,       \* Host headers of requests, without their port
          Paths,       \* request paths
          Methods      \* request methods

ASSUME ServingAssumption == Hosts \subseteq Seq(STRING) /\ Paths \subseteq Seq(STRING)

VARIABLES table,   \* the artifacts: [router, registry]
          asked,   \* the request being routed
          served   \* the route it was given, as a set of at most one

svars == <<table, asked, served>>

\* What the artifacts' types say, and one thing they do not: no pattern is so
\* long that a prefix scores as high as an exact match.
IsRouter(router) ==
    /\ router \in Seq(ToSet(router))
    /\ \A site \in ToSet(router) :
          /\ site.hosts \in Seq(Seq(STRING)) /\ site.routes \in Seq(ToSet(site.routes))
          /\ \A r \in ToSet(site.routes) :
                /\ r.kind \in {"exact", "prefix", "regex"}
                /\ r.pattern \in Seq(STRING) /\ Len(r.pattern) < 999000

NotAsked == [host |-> <<>>, path |-> <<>>, method |-> "none"]

ServeInit == IsRouter(table.router) /\ asked = NotAsked /\ served = {}

Answer(h, p, m) ==
    /\ asked' = [host |-> h, path |-> p, method |-> m]
    /\ served' = Route(table.router, h, p, m)
    /\ UNCHANGED table

ServeNext == \E h \in Hosts, p \in Paths, m \in Methods : Answer(h, p, m)

ServeSpec == ServeInit /\ [][ServeNext]_svars

-----------------------------------------------------------------------------
\* The documented order of routes: exact above prefixes, longer prefixes above
\* shorter ones, and a prefix that is not the catch-all above a regex.
MoreSpecific(q, r) ==
    \/ q.kind = "exact" /\ r.kind # "exact"
    \/ /\ q.kind = "prefix" /\ r.kind = "prefix"
       /\ Len(PrefixOf(q.pattern)) > Len(PrefixOf(r.pattern))
    \/ q.kind = "prefix" /\ PrefixOf(q.pattern) # <<>> /\ r.kind = "regex"

\* What it means for a route to match: a prefix covers whole path segments.
Covers(r, path, method) ==
    /\ r.method = {} \/ method \in r.method
    /\ LET prefix == PrefixOf(r.pattern) IN
       IF r.kind = "prefix"
       THEN \E n \in 0..Len(path) : /\ SubSeq(path, 1, n) = prefix
                                    /\ n \in {0, Len(path)} \/ "/" \in {path[n], path[n + 1]}
       ELSE r.pattern = path

\* How closely a site names a host (docs/06): literally, by a wildcard whose
\* suffix it properly extends, by :default, or not at all.
Extends(host, pattern) ==
    /\ Len(pattern) >= 2 /\ pattern[1] = "*" /\ pattern[2] = "."
    /\ \E n \in 2..Len(host) + 1 : SubSeq(host, n, Len(host)) = SubSeq(pattern, 3, Len(pattern))

Closeness(site, host) ==
    LET names == ToSet(site.hosts) IN
    IF host \in names THEN 3
    ELSE IF \E p \in names : Extends(host, p) THEN 2
    ELSE IF <<":default">> \in names THEN 1 ELSE 0

\* An answer from a site that names the host as closely as any, by a route that
\* covers the request and is as specific as any of that site's routes that do;
\* none only when no route of that site covers it.
RightAnswer(router, host, path, method, answer) ==
    LET sites == ToSet(router)
        Best(s) == Closeness(s, host) > 0
                   /\ \A t \in sites : Closeness(t, host) <= Closeness(s, host)
        covering(s) == {r \in ToSet(s.routes) : Covers(r, path, method)}
    IN  IF ~\E s \in sites : Best(s) THEN answer = {}
        ELSE \E s \in sites :
                /\ Best(s)
                /\ answer = {} => covering(s) = {}
                /\ \A r \in answer : /\ r \in covering(s)
                                     /\ ~\E q \in covering(s) : MoreSpecific(q, r)

\* Every request is answered so.
MostSpecificWins ==
    asked.method # "none" =>
        RightAnswer(table.router, asked.host, asked.path, asked.method, served)
=============================================================================
