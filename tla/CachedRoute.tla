----------------------------- MODULE CachedRoute -----------------------------
(***************************************************************************)
(* handle() of pulsate-http (serve.rs) on a route with middleware and a    *)
(* cache: concurrent requests route, run the Ingress middleware, look the  *)
(* cache up, go to the handler, run Egress, offer the response to the      *)
(* cache and finalize.  Nothing is awaited but the handler, so what comes  *)
(* before the await is one step and what comes after it is another.        *)
(*                                                                         *)
(* A response keeps the class the cache judges it by, the request headers  *)
(* it was selected for, the CORS header it carries and, for staleness, how *)
(* long ago the origin replaced it.                                        *)
(***************************************************************************)
EXTENDS CacheStore

CONSTANTS Workers,         \* concurrent requests
          Requests,        \* what clients ask for
          Answers,         \* what the origin answers
          AllowedOrigins,  \* origins of the route's cors() middleware
          Flight           \* bound: ticks a response spends on the way

ASSUME RouteAssumption == Flight \in Nat /\ Answers \subseteq Responses

None == "none"
Nothing == [source |-> "nothing"]

VARIABLES pc,    \* where each request is
          req,   \* the request, once it is past the cache
          resp   \* the handler's response, until it is sent

vars == <<inner, pc, req, resp>>

Plain(status) == [status |-> status, cookie |-> FALSE, vary |-> {}, cc |-> {},
                  maxage |-> Unset, size |-> 0, tags |-> {}]

(* A response made here, for this request. *)
Made(q, class) ==
    [class |-> class, selected |-> q.headers, acao |-> None,
     current |-> TRUE, lag |-> 0, travel |-> 0]

RouteInit == /\ Init
             /\ pc = [w \in Workers |-> "idle"]
             /\ req = [w \in Workers |-> Nothing]
             /\ resp = [w \in Workers |-> Nothing]

----------------------------------------------------------------------------
(* Fault: the key leaves the vary dimension out. *)
KeyWithoutVary(q) == [method |-> q.method, target |-> q.target, vary |-> <<>>]

(* CacheLayer::key: method, host and target, and the configured headers. *)
Key(q) == [method |-> q.method, target |-> q.target, vary |-> Restrict(q.headers, Vary)]

(* CacheLayer::request_allows_cache *)
RequestAllowsCache(q) == q.method \in {"GET", "HEAD"} /\ ~q.nostore

(* egress: cors() stamps the header for an origin it allows. *)
OriginAllowed(o) == o # None /\ ("*" \in AllowedOrigins \/ o \in AllowedOrigins)

Egress(q, r) == IF ~OriginAllowed(q.origin) THEN r
                ELSE [r EXCEPT !.acao = IF "*" \in AllowedOrigins THEN "*" ELSE q.origin]

(* The response goes out and [Finalize] runs. *)
Finish(w) == /\ pc' = [pc EXCEPT ![w] = "idle"]
             /\ req' = [req EXCEPT ![w] = Nothing]
             /\ resp' = [resp EXCEPT ![w] = Nothing]

(* No route matches. *)
NotFound(w, q) == /\ pc[w] = "idle"
                  /\ ~q.routed
                  /\ Finish(w)
                  /\ UNCHANGED inner

(* Ingress answers itself: a preflight, a block or an exhausted rate limit. *)
ShortCircuit(w, q) == /\ pc[w] = "idle"
                      /\ q.routed
                      /\ q.ingress # "passes"
                      /\ Finish(w)
                      /\ UNCHANGED inner

AsksCache(q) == q.routed /\ q.ingress = "passes" /\ RequestAllowsCache(q)

(* cache_lookup finds a servable entry: the stored response, and no Egress. *)
CacheHit(w, q) == /\ pc[w] = "idle"
                  /\ AsksCache(q)
                  /\ LookupHit(Key(q))
                  /\ Finish(w)

GoToHandler(w, q) == /\ pc[w] = "idle"
                     /\ q.routed /\ q.ingress = "passes"
                     /\ pc' = [pc EXCEPT ![w] = "fetch"]
                     /\ req' = [req EXCEPT ![w] = q]
                     /\ UNCHANGED resp

CacheMiss(w, q) == /\ RequestAllowsCache(q)
                   /\ LookupMiss(Key(q))
                   /\ GoToHandler(w, q)

Bypass(w, q) == /\ ~RequestAllowsCache(q)
                /\ GoToHandler(w, q)
                /\ UNCHANGED inner

----------------------------------------------------------------------------
(* The origin reads its state and answers with a response of class r; the   *)
(* headers named in its Vary select the representation.                     *)
OriginAnswers(w, r) ==
    /\ pc[w] = "fetch"
    /\ pc' = [pc EXCEPT ![w] = "answered"]
    /\ resp' = [resp EXCEPT ![w] = Made(req[w], r)]
    /\ UNCHANGED <<inner, req>>

(* The body is above max_request_body_bytes (413), or every upstream failed *)
(* (502): an error response takes the same way as any other.                *)
HandlerFails(w) ==
    /\ pc[w] = "fetch"
    /\ pc' = [pc EXCEPT ![w] = "answered"]
    /\ resp' = [resp EXCEPT ![w] = Made(req[w], Plain(502))]
    /\ UNCHANGED <<inner, req>>

(* cache_store keeps what Egress made of the response. *)
Keep(w) == LET q == req[w]
               r == Egress(q, resp[w])
           IN  IF ~RequestAllowsCache(q) THEN UNCHANGED inner
               ELSE \/ StoreRefused(Key(q), r.class)
                    \/ StoreAtCapacity(Key(q), r.class)
                    \/ StoreOverBudget(Key(q), r.class)
                    \/ StoreInserted(Key(q), r.class, [r EXCEPT !.travel = 0])

(* After the await: Egress, cache_store, Finalize. *)
Deliver(w) == /\ pc[w] = "answered"
              /\ Keep(w)
              /\ Finish(w)

(* The client goes away and the connection drops the future. *)
Cancel(w) == /\ pc[w] \in {"fetch", "answered"}
             /\ pc' = [pc EXCEPT ![w] = "idle"]
             /\ req' = [req EXCEPT ![w] = Nothing]
             /\ resp' = [resp EXCEPT ![w] = Nothing]
             /\ UNCHANGED inner

----------------------------------------------------------------------------
(* The origin replaces the resource: copies already read are out of date. *)
Outdate(r) == [r EXCEPT !.current = FALSE]

WithBody(e, body) == [e EXCEPT !.body = body]

OriginChanges ==
    /\ inner' = [inner EXCEPT !.map =
                    [k \in DOMAIN inner.map |-> WithBody(inner.map[k], Outdate(inner.map[k].body))]]
    /\ resp' = [w \in Workers |-> IF pc[w] = "answered" THEN Outdate(resp[w]) ELSE resp[w]]
    /\ UNCHANGED <<pc, req>>

MaxLag == MaxAge + Flight

Later(r) == [r EXCEPT !.lag = IF r.current \/ r.lag >= MaxLag THEN r.lag ELSE r.lag + 1]

(* A tick; no response travels for longer than Flight. *)
TimePasses ==
    /\ \A w \in Workers : pc[w] = "answered" => resp[w].travel < Flight
    /\ inner' = [inner EXCEPT !.map =
                    [k \in DOMAIN inner.map |-> WithBody(Older(inner.map[k]), Later(inner.map[k].body))]]
    /\ resp' = [w \in Workers |->
                  IF pc[w] = "answered" THEN [Later(resp[w]) EXCEPT !.travel = resp[w].travel + 1]
                                        ELSE resp[w]]
    /\ UNCHANGED <<pc, req>>

(* purge_tag and clear, called while requests are under way. *)
Purge == /\ Clear \/ \E t \in Tags : PurgeTag(t)
         /\ UNCHANGED <<pc, req, resp>>

Serve(w) == \/ \E r \in Answers : OriginAnswers(w, r)
            \/ HandlerFails(w)
            \/ Deliver(w)

RouteNext == \/ \E w \in Workers, q \in Requests : NotFound(w, q)
             \/ \E w \in Workers, q \in Requests : ShortCircuit(w, q)
             \/ \E w \in Workers, q \in Requests : CacheHit(w, q)
             \/ \E w \in Workers, q \in Requests : CacheMiss(w, q)
             \/ \E w \in Workers, q \in Requests : Bypass(w, q)
             \/ \E w \in Workers : Serve(w)
             \/ \E w \in Workers : Cancel(w)
             \/ OriginChanges
             \/ TimePasses
             \/ Purge

RouteSpec == RouteInit /\ [][RouteNext]_vars

----------------------------------------------------------------------------
(* What a request would be given from the cache now: [r, freshness]. *)
Hits(q) == IF AsksCache(q) /\ Servable(Key(q))
           THEN {[r |-> inner.map[Key(q)].body, freshness |-> Freshness(Key(q))]} ELSE {}

(* A request is served from the cache only what the origin would have       *)
(* selected for its own headers, and never a response that was not to be    *)
(* shared: key() and the Vary check of cacheable_ttl agree.                 *)
HitsAreReusable ==
    \A q \in Requests : \A hit \in Hits(q) :
        LET class == hit.r.class
        IN /\ \A d \in class.vary : hit.r.selected[d] = q.headers[d]
           /\ class.status = 200 /\ ~class.cookie /\ class.cc \cap {"no-store", "private"} = {}

(* What the cache serves as fresh was replaced at the origin no longer ago  *)
(* than its lifetime and the time it took to arrive, what it serves stale   *)
(* no longer than the stale window on top (lookup), even where a slow       *)
(* response overwrites a newer one.                                         *)
BoundedStaleness ==
    \A q \in Requests : \A hit \in Hits(q) :
        hit.r.lag <= CacheableTtl(hit.r.class) + Flight
                     + (IF hit.freshness = "Stale" THEN SWR ELSE 0)

(* "[Egress] (still runs)" after a hit (docs/08-cache.md): a hit carries    *)
(* the CORS header for the origin that asks.                                *)
EgressRunsOnHits ==
    \A q \in Requests : \A hit \in Hits(q) :
        OriginAllowed(q.origin) => hit.r.acao \in {"*", q.origin}
=============================================================================
