------------------------------- MODULE Router -------------------------------
(***************************************************************************)
(* The routing table's choice (pulsate-router/src/lib.rs).  Hosts and paths *)
(* are sequences of pieces, so that suffixes and prefixes are those of the  *)
(* strings.  NoMatch is below every score.                                  *)
(***************************************************************************)
EXTENDS Integers, Sequences, SequencesExt, FiniteSetsExt

NoMatch == 0

\* A trailing /* or * is the glob, not part of the prefix.
PrefixOf(pattern) ==
    LET Strip(s, piece) == IF s # <<>> /\ Last(s) = piece THEN Front(s) ELSE s
        p == Strip(Strip(pattern, "*"), "/")
    IN  IF p = <<"/">> THEN <<>> ELSE p

WithSlash(prefix) == IF Last(prefix) = "/" THEN prefix ELSE Append(prefix, "/")

(* Fault: a prefix may end inside a path segment. *)
ScoreInsideSegment(r, path, method) ==
    LET prefix == PrefixOf(r.pattern) IN
    IF r.method # {} /\ method \notin r.method THEN NoMatch
    ELSE CASE r.kind = "exact" -> IF r.pattern = path THEN 1000000 ELSE NoMatch
           [] r.kind = "prefix" -> IF IsPrefix(prefix, path) THEN 1000 + Len(prefix) ELSE NoMatch
           [] r.kind = "regex" -> IF r.pattern = path THEN 10 ELSE NoMatch

Score(r, path, method) ==
    LET prefix == PrefixOf(r.pattern) IN
    IF r.method # {} /\ method \notin r.method THEN NoMatch
    ELSE CASE r.kind = "exact" -> IF r.pattern = path THEN 1000000 ELSE NoMatch
           [] r.kind = "prefix" ->
                IF prefix = <<>> \/ path = prefix \/ IsPrefix(WithSlash(prefix), path)
                THEN 1000 + Len(prefix) ELSE NoMatch
           [] r.kind = "regex" -> IF r.pattern = path THEN 10 ELSE NoMatch

PatternScore(pat, host) ==
    IF pat = host THEN 3
    ELSE IF pat = <<":default">> THEN 1
    ELSE IF /\ IsPrefix(<<"*", ".">>, pat)
            /\ Len(host) > Len(pat) - 2
            /\ IsSuffix(SubSeq(pat, 3, Len(pat)), host)
         THEN 2
    ELSE NoMatch

HostScore(site, host) ==
    IF site.hosts = <<>> THEN NoMatch
    ELSE Max({PatternScore(p, host) : p \in ToSet(site.hosts)})

\* max_by_key: the last of the elements with the greatest key, if any matches.
MaxByKey(s, keys) ==
    LET hits == {i \in DOMAIN s : keys[i] # NoMatch}
    IN  IF hits = {} THEN {}
        ELSE {s[Max({i \in hits : \A j \in hits : keys[j] <= keys[i]})]}

(* Fault: the first route that matches. *)
RouteFirstDeclared(router, host, path, method) ==
    LET site == MaxByKey(router, [i \in DOMAIN router |-> HostScore(router[i], host)])
        hits(s) == {i \in DOMAIN s.routes : Score(s.routes[i], path, method) # NoMatch}
    IN  UNION {{s.routes[i] : i \in {j \in hits(s) : \A k \in hits(s) : j <= k}} : s \in site}

Route(router, host, path, method) ==
    LET RouteIn(s) == MaxByKey(s.routes, [i \in DOMAIN s.routes |-> Score(s.routes[i], path, method)])
        site == MaxByKey(router, [i \in DOMAIN router |-> HostScore(router[i], host)])
    IN  UNION {RouteIn(s) : s \in site}
=============================================================================
