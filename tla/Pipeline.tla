------------------------------ MODULE Pipeline ------------------------------
(***************************************************************************)
(* The middleware of a route (pulsate-pipeline) and the address lists it    *)
(* consults (pulsate-waf), as functions: Ingress looks at a request and may *)
(* answer it, Egress changes the response of the handler.                   *)
(*                                                                          *)
(* Middleware are the records BuildMw of RouteTable makes.  A path is a     *)
(* sequence of pieces, "/" and names; a response has a status, headers and  *)
(* the path of the file it carries.                                         *)
(***************************************************************************)
EXTENDS Integers, Sequences, FiniteSetsExt, TLC

CONSTANT Width  \* bits of an address (32 or 128)

None == "none"

-----------------------------------------------------------------------------
(* Addresses: [family, bits], "mapped" being an IPv4 address as IPv6.        *)

ToCanonical(ip) == IF ip.family = "mapped" THEN [ip EXCEPT !.family = "v4"] ELSE ip

\* How many low bits a prefix length leaves free.
FreeBits(prefix) == CASE prefix = 0 -> Width
                      [] prefix >= Width -> 0
                      [] OTHER -> Width - prefix

\* Fault: the mask is shifted one bit too far.
CidrContainsShifted(cidr, ip) ==
    LET Masked(x) == x - (x % 2^(FreeBits(cidr.prefix) + 1))
    IN  cidr.family = ip.family /\ Masked(cidr.bits) = Masked(ip.bits)

\* Cidr::contains
CidrContains(cidr, ip) ==
    LET Masked(x) == x - (x % 2^FreeBits(cidr.prefix))
    IN  cidr.family = ip.family /\ Masked(cidr.bits) = Masked(ip.bits)

\* IpAcl::check: allow entries first, and with any of them no other address.
AclBlocks(acl, peer) ==
    LET ip == ToCanonical(peer) IN
    /\ ~\E c \in acl.allow : CidrContains(c, ip)
    /\ acl.allow # {} \/ \E c \in acl.deny : CidrContains(c, ip)

-----------------------------------------------------------------------------
(* Responses, and their headers: a function from names to values.           *)

Reply(status) == [status |-> status, headers |-> <<>>, file |-> None]

SetHeader(headers, name, value) ==
    [n \in DOMAIN headers \cup {name} |-> IF n = name THEN value ELSE headers[n]]

RemoveHeaders(headers, names) == Restrict(headers, DOMAIN headers \ names)

\* The origin a cors() allows for a request: any, the request's own, or none.
OriginAllowed(cors, origin) ==
    CASE origin = None -> None
      [] "*" \in cors.origins -> "*"
      [] origin \in cors.origins -> origin
      [] OTHER -> None

ApplyCors(cors, origin, headers) ==
    LET allow == OriginAllowed(cors, origin)
        named == SetHeader(headers, "access-control-allow-origin", allow)
    IN  CASE allow = None -> headers
          [] cors.credentials -> SetHeader(named, "access-control-allow-credentials", "true")
          [] OTHER -> named

Preflight(cors, origin) ==
    LET headers == ApplyCors(cors, origin, <<>>)
    IN  [Reply(204) EXCEPT !.headers =
            IF cors.methods = {} THEN headers
            ELSE SetHeader(headers, "access-control-allow-methods", "listed")]

Blocked == Reply(403)

RateLimited(reset_secs) ==
    [Reply(429) EXCEPT !.headers = SetHeader(@, "retry-after", reset_secs)]

-----------------------------------------------------------------------------
(* Ingress.  A view is the request as the middleware see it.                *)

NormalizePath(rest) == IF rest # <<>> /\ Head(rest) = "/" THEN rest ELSE <<"/">> \o rest

\* strip_prefix rewrites the path for the middleware and the handler after it.
Strip(view, prefix) ==
    IF Len(prefix) <= Len(view.path) /\ SubSeq(view.path, 1, Len(prefix)) = prefix
    THEN [view EXCEPT !.path = NormalizePath(SubSeq(@, Len(prefix) + 1, Len(@)))]
    ELSE view

\* WafEngine::inspect: a match blocks unless the engine only detects.
Inspect(waf, view) == waf.mode = "block" /\ view.flagged

\* What a middleware other than the rate limiter answers by itself, if anything.
ShortCircuit(m, view) ==
    CASE m.mw = "cors" -> IF view.method = "OPTIONS" /\ view.origin # None
                          THEN {Preflight(m, view.origin)} ELSE {}
      [] m.mw = "ip" -> IF AclBlocks(m.acl, view.peer) THEN {Blocked} ELSE {}
      [] m.mw = "waf" -> IF Inspect(m, view) THEN {Blocked} ELSE {}
      [] OTHER -> {}

\* The bucket a request counts against.
RateKey(key, view) == IF key = "ip" THEN ToCanonical(view.peer) ELSE view.path

\* The middleware from position `from` on, up to the next rate limiter or to
\* the first that answers: where they stop, the view there, and the answer.
Ingress(mws, from, start) ==
    LET Run(m, acc) ==
            IF acc.answer # {} \/ acc.limited THEN acc
            ELSE IF m.mw = "rate_limit" THEN [acc EXCEPT !.limited = TRUE]
            ELSE [acc EXCEPT !.at = @ + 1, !.answer = ShortCircuit(m, acc.view),
                             !.view = IF m.mw = "strip_prefix" THEN Strip(@, m.prefix) ELSE @]
    IN  MapThenFoldSet(Run, [at |-> from, view |-> start, answer |-> {}, limited |-> FALSE],
                       LAMBDA i : mws[i], Max, from..Len(mws))

-----------------------------------------------------------------------------
(* Egress.                                                                  *)

\* headers() removes before it sets.
OnResponse(m, origin, headers) ==
    CASE m.mw = "headers" -> m.set @@ RemoveHeaders(headers, m.remove)
      [] m.mw = "cors" -> ApplyCors(m, origin, headers)
      [] OTHER -> headers

\* In reverse, so that the first middleware has the last word.
Egress(mws, origin, r) ==
    [r EXCEPT !.headers = MapThenFoldSet(LAMBDA m, acc : OnResponse(m, origin, acc), @,
                                         LAMBDA i : mws[i], Min, DOMAIN mws)]
=============================================================================
