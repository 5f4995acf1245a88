------------------------- MODULE CachedRouteProofs -------------------------
(***************************************************************************)
(* What a route's cache gives back, for any number of concurrent requests,  *)
(* any requests and responses, any configuration of the cache and any way   *)
(* in which the origin changes, entries are evicted and requests are        *)
(* cancelled.                                                               *)
(***************************************************************************)
EXTENDS CachedRoute, FiniteSetTheorems, TLAPS

Parts == {"class", "selected", "acao", "current", "lag", "travel"}

Classes == Responses \cup {Plain(502)}

\* A response on its way to the cache: it was selected for the request, and it
\* has not been out of date for longer than it has been travelling.
Travelling(q, r) ==
    /\ DOMAIN r = Parts /\ r.class \in Classes /\ r.selected = q.headers
    /\ r.lag \in Nat /\ r.travel \in Nat /\ r.lag <= r.travel /\ r.travel <= Flight

\* An entry: it may be shared, its key tells apart the requests its response
\* was selected for, and it has been out of date for no longer than it has been
\* kept and travelled before.
EntryOK(k, e) ==
    /\ DOMAIN e = {"size", "ttl", "tags", "age", "body"}
    /\ DOMAIN e.body = Parts
    /\ e.ttl = CacheableTtl(e.body.class) /\ e.ttl \in Nat
    /\ k.vary = Restrict(e.body.selected, Vary)
    /\ e.age \in Nat /\ e.body.lag \in Nat /\ e.body.lag <= e.age + Flight

StoreOK(i) == /\ DOMAIN i = {"map", "bytes"}
              /\ \A k \in DOMAIN i.map : EntryOK(k, i.map[k])

WorkersOK == /\ DOMAIN pc = Workers /\ DOMAIN req = Workers /\ DOMAIN resp = Workers
             /\ \A w \in Workers : pc[w] = "answered" => Travelling(req[w], resp[w])

RouteInv == StoreOK(inner) /\ WorkersOK

-----------------------------------------------------------------------------
(* The store.                                                               *)

\* What removing entries leaves is as it was (Inner::remove, purge_tag).
LEMMA RemovedStore ==
    ASSUME NEW i, NEW ks, StoreOK(i)
    PROVE  StoreOK(RemoveAll(i, ks))
<1>1. PICK b : RemoveAll(i, ks) = [map |-> Restrict(i.map, DOMAIN i.map \ ks), bytes |-> b]
  BY Zenon DEF RemoveAll
<1>2. /\ DOMAIN Restrict(i.map, DOMAIN i.map \ ks) = DOMAIN i.map \ ks
      /\ \A k \in DOMAIN i.map \ ks : Restrict(i.map, DOMAIN i.map \ ks)[k] = i.map[k]
  BY DEF Restrict
<1> QED
  BY <1>1, <1>2 DEF StoreOK

\* So is what evict_until_fits leaves.
LEMMA EvictedStore ==
    ASSUME NEW i, NEW incoming, StoreOK(i), NEW e \in EvictUntilFits(i, incoming)
    PROVE  StoreOK(e)
<1>1. PICK ks : e = RemoveAll(i, ks)
  BY Zenon DEF EvictUntilFits
<1> QED
  BY <1>1, RemovedStore

\* A response that may be stored has a lifetime (cacheable_ttl).
LEMMA Lifetime ==
    ASSUME NEW r \in Classes, CacheableTtl(r) # NotCacheable
    PROVE  CacheableTtl(r) \in Nat
<1>1. CASE r \in Responses
  BY <1>1, CacheAssumption DEF CacheableTtl, NotCacheable, Unset
<1>2. CASE r = Plain(502)
  BY <1>2 DEF CacheableTtl, Plain
<1> QED
  BY <1>1, <1>2 DEF Classes

\* What is not cacheable is all that has no lifetime (cacheable_ttl).
LEMMA Shareable ==
    ASSUME NEW r, CacheableTtl(r) # NotCacheable
    PROVE  /\ r.status = 200 /\ ~r.cookie /\ r.vary \subseteq Vary
           /\ r.cc \cap {"no-store", "private"} = {}
  BY DEF CacheableTtl

\* maybe_store, for a response on its way: every way it may end keeps the store
\* sound.
LEMMA KeptStore ==
    ASSUME StoreOK(inner), NEW w \in Workers, Travelling(req[w], resp[w]), Keep(w)
    PROVE  StoreOK(inner')
<1> DEFINE q == req[w]
           r == Egress(q, resp[w])
           body == [r EXCEPT !.travel = 0]
<1>1. /\ DOMAIN r = Parts /\ r.class \in Classes /\ r.selected = q.headers
      /\ r.lag \in Nat /\ r.lag <= Flight
  BY RouteAssumption DEF Travelling, Egress, Parts
<1>2. /\ DOMAIN body = Parts /\ body.class = r.class /\ body.selected = r.selected
      /\ body.lag = r.lag
  BY <1>1 DEF Parts
<1>3. \/ UNCHANGED inner
      \/ StoreRefused(Key(q), r.class)
      \/ StoreAtCapacity(Key(q), r.class)
      \/ StoreOverBudget(Key(q), r.class)
      \/ StoreInserted(Key(q), r.class, body)
  BY Zenon DEF Keep
<1> HIDE DEF r, body
<1>4. CASE UNCHANGED inner \/ StoreRefused(Key(q), r.class)
  BY <1>4, Zenon DEF StoreRefused
<1>5. CASE StoreAtCapacity(Key(q), r.class)
  <2>1. inner' = Remove(inner, Key(q))
    BY <1>5, Zenon DEF StoreAtCapacity
  <2> QED
    BY <2>1, RemovedStore, Zenon DEF Remove
<1>6. StoreOK(Remove(inner, Key(q)))
  BY RemovedStore, Zenon DEF Remove
<1>7. CASE StoreOverBudget(Key(q), r.class)
  <2>1. inner' \in EvictUntilFits(Remove(inner, Key(q)), r.class.size)
    BY <1>7, Zenon DEF StoreOverBudget
  <2> QED
    BY <1>6, <2>1, EvictedStore, Zenon
<1>8. CASE StoreInserted(Key(q), r.class, body)
  <2>1. /\ CacheableTtl(r.class) # NotCacheable
        /\ \E e \in EvictUntilFits(Remove(inner, Key(q)), r.class.size) :
              inner' = Insert(e, Key(q), NewEntry(r.class, body))
    BY <1>8, Zenon DEF StoreInserted, Storable
  <2>2. PICK e \in EvictUntilFits(Remove(inner, Key(q)), r.class.size) :
            inner' = Insert(e, Key(q), NewEntry(r.class, body))
    BY <2>1
  <2>3. StoreOK(e)
    BY <1>6, EvictedStore, Zenon
  <2>4. EntryOK(Key(q), NewEntry(r.class, body))
    <3>1. CacheableTtl(r.class) \in Nat
      BY <1>1, <2>1, Lifetime
    <3>2. Key(q).vary = Restrict(body.selected, Vary)
      BY <1>1, <1>2 DEF Key
    <3> QED
      BY <1>1, <1>2, <3>1, <3>2, RouteAssumption DEF EntryOK, NewEntry
  <2> QED
    BY <2>2, <2>3, <2>4 DEF StoreOK, Insert
<1> QED
  BY <1>3, <1>4, <1>5, <1>7, <1>8

-----------------------------------------------------------------------------
(* Time and the origin.                                                     *)

\* A tick makes an entry a tick older, and no more than a tick more out of date.
LEMMA EntryLater ==
    ASSUME NEW k, NEW e, EntryOK(k, e)
    PROVE  EntryOK(k, WithBody(Older(e), Later(e.body)))
<1> DEFINE o == Older(e)
           b == Later(e.body)
<1>1. /\ DOMAIN o = {"size", "ttl", "tags", "age", "body"} /\ o.ttl = e.ttl
      /\ o.age = IF e.age < MaxAge THEN e.age + 1 ELSE e.age
  BY DEF EntryOK, Older
<1>2. /\ DOMAIN b = Parts /\ b.class = e.body.class /\ b.selected = e.body.selected
      /\ b.lag \in {e.body.lag, e.body.lag + 1}
      /\ b.lag = e.body.lag \/ e.body.lag < MaxAge + Flight
  BY CacheAssumption, RouteAssumption DEF EntryOK, Later, Parts, MaxLag
<1> HIDE DEF o, b
<1>3. /\ DOMAIN WithBody(o, b) = {"size", "ttl", "tags", "age", "body"}
      /\ WithBody(o, b).ttl = e.ttl /\ WithBody(o, b).age = o.age /\ WithBody(o, b).body = b
  BY <1>1 DEF WithBody
<1> QED
  BY <1>1, <1>2, <1>3, CacheAssumption, RouteAssumption DEF EntryOK, o, b

\* The origin's change concerns nothing but the mark.
LEMMA EntryOutdated ==
    ASSUME NEW k, NEW e, EntryOK(k, e)
    PROVE  EntryOK(k, WithBody(e, Outdate(e.body)))
<1> DEFINE b == Outdate(e.body)
<1>1. /\ DOMAIN b = Parts /\ b.class = e.body.class /\ b.selected = e.body.selected
      /\ b.lag = e.body.lag
  BY DEF EntryOK, Outdate, Parts
<1> HIDE DEF b
<1>2. /\ DOMAIN WithBody(e, b) = {"size", "ttl", "tags", "age", "body"}
      /\ WithBody(e, b).ttl = e.ttl /\ WithBody(e, b).age = e.age /\ WithBody(e, b).body = b
  BY DEF WithBody, EntryOK
<1> QED
  BY <1>1, <1>2 DEF EntryOK, b

\* A response on its way grows out of date no faster than it travels.
LEMMA TravelsOn ==
    ASSUME NEW q, NEW r, Travelling(q, r)
    PROVE  /\ Travelling(q, Outdate(r))
           /\ r.travel < Flight => Travelling(q, [Later(r) EXCEPT !.travel = r.travel + 1])
<1>1. Travelling(q, Outdate(r))
  BY DEF Travelling, Outdate, Parts
<1> DEFINE l == Later(r)
<1>2. /\ DOMAIN l = Parts /\ l.class = r.class /\ l.selected = r.selected
      /\ l.lag \in {r.lag, r.lag + 1}
  BY DEF Travelling, Later, Parts
<1> HIDE DEF l
<1>3. r.travel < Flight => Travelling(q, [l EXCEPT !.travel = r.travel + 1])
  BY <1>2, RouteAssumption DEF Travelling, Parts
<1> QED
  BY <1>1, <1>3 DEF l

-----------------------------------------------------------------------------
(* The invariant.                                                           *)

\* It holds of an empty cache and no request under way.
LEMMA RouteStarts == RouteInit => RouteInv
<1> SUFFICES ASSUME RouteInit PROVE RouteInv
  OBVIOUS
<1>1. StoreOK(inner)
  BY DEF RouteInit, Init, StoreOK
<1>2. WorkersOK
  BY DEF RouteInit, WorkersOK
<1> QED
  BY <1>1, <1>2 DEF RouteInv

\* A request that ends leaves the others alone.
LEMMA Finished ==
    ASSUME WorkersOK, NEW w \in Workers, Finish(w)
    PROVE  WorkersOK'
  BY DEF WorkersOK, Finish

\* The steps of a request up to the handler: route, Ingress, cache_lookup.
LEMMA RequestStep ==
    ASSUME RouteInv, NEW w \in Workers, NEW q \in Requests,
           \/ NotFound(w, q) \/ ShortCircuit(w, q) \/ CacheHit(w, q)
           \/ CacheMiss(w, q) \/ Bypass(w, q)
    PROVE  RouteInv'
<1>1. StoreOK(inner) /\ WorkersOK
  BY DEF RouteInv
<1>2. CASE NotFound(w, q) \/ ShortCircuit(w, q) \/ CacheHit(w, q)
  <2>1. Finish(w) /\ UNCHANGED inner
    BY <1>2, Zenon DEF NotFound, ShortCircuit, CacheHit, LookupHit
  <2> QED
    BY <1>1, <2>1, Finished DEF RouteInv
<1>3. CASE CacheMiss(w, q) \/ Bypass(w, q)
  <2>1. GoToHandler(w, q)
    BY <1>3, Zenon DEF CacheMiss, Bypass
  <2>2. WorkersOK'
    BY <1>1, <2>1 DEF WorkersOK, GoToHandler
  <2>3. StoreOK(inner')
    <3>1. inner' = inner \/ inner' = Remove(inner, Key(q))
      BY <1>3, Zenon DEF CacheMiss, Bypass, LookupMiss
    <3> QED
      BY <1>1, <3>1, RemovedStore, Zenon DEF Remove
  <2> QED
    BY <2>2, <2>3 DEF RouteInv
<1> QED
  BY <1>2, <1>3

\* The handler's answer, and what follows it after the await.
LEMMA AnswerStep ==
    ASSUME RouteInv, NEW w \in Workers, Serve(w) \/ Cancel(w)
    PROVE  RouteInv'
<1>1. StoreOK(inner) /\ WorkersOK
  BY DEF RouteInv
<1>2. CASE (\E r \in Answers : OriginAnswers(w, r)) \/ HandlerFails(w)
  <2>1. PICK class \in Classes :
            /\ pc' = [pc EXCEPT ![w] = "answered"]
            /\ resp' = [resp EXCEPT ![w] = Made(req[w], class)]
            /\ UNCHANGED <<inner, req>>
    <3>1. ASSUME NEW r \in Answers, OriginAnswers(w, r)
          PROVE  /\ r \in Classes
                 /\ pc' = [pc EXCEPT ![w] = "answered"]
                 /\ resp' = [resp EXCEPT ![w] = Made(req[w], r)]
                 /\ UNCHANGED <<inner, req>>
      BY <3>1, RouteAssumption, Zenon DEF OriginAnswers, Classes
    <3>2. ASSUME HandlerFails(w)
          PROVE  /\ Plain(502) \in Classes
                 /\ pc' = [pc EXCEPT ![w] = "answered"]
                 /\ resp' = [resp EXCEPT ![w] = Made(req[w], Plain(502))]
                 /\ UNCHANGED <<inner, req>>
      <4>1. Plain(502) \in Classes
        BY DEF Classes
      <4> QED
        BY <3>2, <4>1, Zenon DEF HandlerFails
    <3> QED
      BY <1>2, <3>1, <3>2
  <2>2. Travelling(req[w], Made(req[w], class))
    BY RouteAssumption DEF Travelling, Made, Parts
  <2>3. WorkersOK'
    BY <1>1, <2>1, <2>2 DEF WorkersOK
  <2> QED
    BY <1>1, <2>1, <2>3 DEF RouteInv
<1>3. CASE Deliver(w)
  <2>1. Travelling(req[w], resp[w]) /\ Keep(w) /\ Finish(w)
    BY <1>1, <1>3, Zenon DEF Deliver, WorkersOK
  <2> QED
    BY <1>1, <2>1, KeptStore, Finished DEF RouteInv
<1>4. CASE Cancel(w)
  <2>1. Finish(w) /\ UNCHANGED inner
    BY <1>4, Zenon DEF Cancel, Finish
  <2> QED
    BY <1>1, <2>1, Finished DEF RouteInv
<1> QED
  BY <1>2, <1>3, <1>4, Zenon DEF Serve

\* A change at the origin, a tick and a purge concern every entry and every
\* response on its way.
LEMMA OutsideStep ==
    ASSUME RouteInv, OriginChanges \/ TimePasses \/ Purge
    PROVE  RouteInv'
<1>1. StoreOK(inner) /\ WorkersOK
  BY DEF RouteInv
<1>2. CASE OriginChanges
  <2>1. StoreOK(inner')
    BY <1>1, <1>2, EntryOutdated DEF OriginChanges, StoreOK
  <2>2. WorkersOK'
    BY <1>1, <1>2, TravelsOn DEF OriginChanges, WorkersOK
  <2> QED
    BY <2>1, <2>2 DEF RouteInv
<1>3. CASE TimePasses
  <2>1. StoreOK(inner')
    BY <1>1, <1>3, EntryLater DEF TimePasses, StoreOK
  <2>2. WorkersOK'
    BY <1>1, <1>3, TravelsOn DEF TimePasses, WorkersOK
  <2> QED
    BY <2>1, <2>2 DEF RouteInv
<1>4. CASE Purge
  <2>1. UNCHANGED <<pc, req, resp>> /\ (Clear \/ \E t \in Tags : PurgeTag(t))
    BY <1>4, Zenon DEF Purge
  <2>2. ASSUME Clear PROVE StoreOK(inner')
    BY <2>2 DEF Clear, StoreOK
  <2>3. ASSUME \E t \in Tags : PurgeTag(t) PROVE StoreOK(inner')
    <3>1. \E ks : inner' = RemoveAll(inner, ks)
      BY <2>3, Zenon DEF PurgeTag
    <3> QED
      BY <1>1, <3>1, RemovedStore
  <2>4. WorkersOK'
    BY <1>1, <2>1 DEF WorkersOK
  <2> QED
    BY <2>1, <2>2, <2>3, <2>4 DEF RouteInv
<1> QED
  BY <1>2, <1>3, <1>4

\* The invariant of the route and its cache.
THEOREM RouteInvariant == RouteSpec => []RouteInv
<1>1. RouteInv /\ [RouteNext]_vars => RouteInv'
  <2> SUFFICES ASSUME RouteInv, [RouteNext]_vars PROVE RouteInv'
    OBVIOUS
  <2>1. CASE UNCHANGED vars
    BY <2>1 DEF RouteInv, WorkersOK, vars
  <2> QED
    BY <2>1, RequestStep, AnswerStep, OutsideStep, Zenon DEF RouteNext
<1> QED
  BY <1>1, RouteStarts, PTL DEF RouteSpec

\* A hit is what the origin would have selected for the request's own headers,
\* and something that may be shared (CacheLayer::key, cacheable_ttl).
THEOREM ReusableTheorem == RouteSpec => []HitsAreReusable
<1>1. RouteInv => HitsAreReusable
  <2> SUFFICES ASSUME RouteInv, NEW q \in Requests, NEW hit \in Hits(q)
               PROVE  /\ \A d \in hit.r.class.vary : hit.r.selected[d] = q.headers[d]
                      /\ hit.r.class.status = 200 /\ ~hit.r.class.cookie
                      /\ hit.r.class.cc \cap {"no-store", "private"} = {}
    BY Zenon DEF HitsAreReusable
  <2>1. /\ Key(q) \in DOMAIN inner.map /\ hit.r = inner.map[Key(q)].body
        /\ EntryOK(Key(q), inner.map[Key(q)])
    BY DEF Hits, Servable, RouteInv, StoreOK
  <2>2. /\ CacheableTtl(hit.r.class) # NotCacheable
        /\ Restrict(q.headers, Vary) = Restrict(hit.r.selected, Vary)
    BY <2>1 DEF EntryOK, Key, NotCacheable
  <2>3. \A d \in Vary : q.headers[d] = hit.r.selected[d]
    BY <2>2 DEF Restrict
  <2> QED
    BY <2>2, <2>3, Shareable
<1> QED
  BY <1>1, RouteInvariant, PTL

\* A hit was replaced at the origin no longer ago than its lifetime, the time it
\* took to arrive and, if it is stale, the stale window (CacheLayer::lookup).
THEOREM StalenessTheorem == RouteSpec => []BoundedStaleness
<1>1. RouteInv => BoundedStaleness
  <2> SUFFICES ASSUME RouteInv, NEW q \in Requests, NEW hit \in Hits(q)
               PROVE  hit.r.lag <= CacheableTtl(hit.r.class) + Flight
                                   + (IF hit.freshness = "Stale" THEN SWR ELSE 0)
    BY Zenon DEF BoundedStaleness
  <2> DEFINE e == inner.map[Key(q)]
  <2>1. /\ Key(q) \in DOMAIN inner.map /\ hit.r = e.body /\ hit.freshness = Freshness(Key(q))
        /\ e.age <= e.ttl + SWR /\ EntryOK(Key(q), e)
    BY DEF Hits, Servable, RouteInv, StoreOK
  <2>2. hit.freshness = "Stale" \/ e.age <= e.ttl
    BY <2>1 DEF Freshness
  <2>3. /\ e.ttl = CacheableTtl(hit.r.class) /\ e.ttl \in Nat /\ e.age \in Nat
        /\ hit.r.lag \in Nat /\ hit.r.lag <= e.age + Flight
    BY <2>1 DEF EntryOK
  <2> QED
    BY <2>1, <2>2, <2>3, CacheAssumption, RouteAssumption
<1> QED
  BY <1>1, RouteInvariant, PTL

-----------------------------------------------------------------------------
(* The budgets.                                                             *)

\* What the running total counts: every body is within the body limit, and the
\* total is the sum of the bodies (Inner::bytes).
Counted(i) ==
    /\ DOMAIN i = {"map", "bytes"}
    /\ IsFiniteSet(DOMAIN i.map)
    /\ \A k \in DOMAIN i.map : /\ DOMAIN i.map[k] = {"size", "ttl", "tags", "age", "body"}
                                /\ i.map[k].size \in 0..MaxBody /\ i.map[k].age \in Nat
    /\ i.bytes = TotalSize(i.map, DOMAIN i.map)

\* The store is counted right and within its budgets.
Fits(i) == Counted(i) /\ Cardinality(DOMAIN i.map) <= MaxEntries /\ i.bytes <= MaxTotal

\* The limits of CacheConfig are numbers.
LEMMA Limits == MaxEntries \in Nat /\ MaxBody \in Nat /\ MaxTotal \in Nat /\ MaxAge \in Nat
  BY CacheAssumption

\* A set of naturals that is not empty has a least element.
LEMMA LeastElement ==
    ASSUME NEW S, S \subseteq Nat, S # {}
    PROVE  Min(S) \in S /\ \A y \in S : Min(S) <= y
<1> DEFINE R == OpToRel(<, Nat)
<1>1. IsWellFoundedOn(R, Nat)
  BY NatLessThanWellFounded
<1>2. \A x, y \in Nat : y < x => <<y, x>> \in R
  BY Zenon DEF OpToRel
<1> HIDE DEF R
<1>3. PICK x \in S : \A y \in S : ~(<<y, x>> \in R)
  BY <1>1, WFMin
<1>4. \A y \in S : ~(y < x)
  BY <1>2, <1>3, Zenon
<1>5. \A y \in S : x <= y
  BY <1>4
<1> QED
  BY <1>5 DEF Min

\* Finitely many bodies within the limit hold finitely many bytes.
LEMMA TotalIsNatural ==
    ASSUME NEW m, NEW ks, IsFiniteSet(ks), \A k \in ks : m[k].size \in 0..MaxBody
    PROVE  IsFiniteSet(BytesOf(m, ks)) /\ TotalSize(m, ks) \in Nat
<1>1. IsFiniteSet(ks \X (1..MaxBody))
  <2>1. IsFiniteSet(1..MaxBody)
    <3>1. 1 \in Int /\ MaxBody \in Int
      BY Limits
    <3> QED
      BY <3>1, FS_Interval, Zenon
  <2> QED
    BY <2>1, FS_Product, Zenon
<1>2. BytesOf(m, ks) \in SUBSET (ks \X (1..MaxBody))
  <2> SUFFICES ASSUME NEW k \in ks, NEW b \in 1..m[k].size PROVE <<k, b>> \in ks \X (1..MaxBody)
    BY DEF BytesOf
  <2> QED
    BY Limits
<1>3. IsFiniteSet(BytesOf(m, ks))
  BY <1>1, <1>2, FS_Subset
<1> QED
  BY <1>3, FS_CardinalityType DEF TotalSize

\* No body holds no byte.
LEMMA TotalOfNone == \A m : TotalSize(m, {}) = 0
<1>1. \A m : BytesOf(m, {}) = {}
  BY DEF BytesOf
<1> QED
  BY <1>1, FS_EmptySet DEF TotalSize

\* The bodies of two disjoint sets of keys add up.
LEMMA TotalOfParts ==
    ASSUME NEW m, NEW a, NEW b, IsFiniteSet(a), IsFiniteSet(b), a \cap b = {},
           \A k \in a \cup b : m[k].size \in 0..MaxBody
    PROVE  TotalSize(m, a \cup b) = TotalSize(m, a) + TotalSize(m, b)
<1>1. BytesOf(m, a \cup b) = BytesOf(m, a) \cup BytesOf(m, b)
  BY DEF BytesOf
<1>2. BytesOf(m, a) \cap BytesOf(m, b) = {}
  BY DEF BytesOf
<1>3. IsFiniteSet(BytesOf(m, a)) /\ IsFiniteSet(BytesOf(m, b))
  BY TotalIsNatural
<1>4. TotalSize(m, a) \in Nat /\ TotalSize(m, b) \in Nat
  BY TotalIsNatural
<1>5. Cardinality(BytesOf(m, a) \cup BytesOf(m, b))
        = Cardinality(BytesOf(m, a)) + Cardinality(BytesOf(m, b)) - 0
  BY <1>2, <1>3, FS_Union, FS_EmptySet
<1>6. TotalSize(m, a \cup b) = TotalSize(m, a) + TotalSize(m, b) - 0
  BY <1>1, <1>5, Zenon DEF TotalSize
<1> QED
  BY <1>4, <1>6

\* Only the sizes of the bodies matter.
LEMMA TotalOfSizes ==
    ASSUME NEW m, NEW n, NEW ks, \A k \in ks : m[k].size = n[k].size
    PROVE  TotalSize(m, ks) = TotalSize(n, ks)
<1>1. BytesOf(m, ks) = BytesOf(n, ks)
  BY DEF BytesOf
<1> QED
  BY <1>1 DEF TotalSize

\* One body holds as many bytes as it is long.
LEMMA TotalOfOne ==
    ASSUME NEW m, NEW k, m[k].size \in Nat
    PROVE  TotalSize(m, {k}) = m[k].size
<1>1. BytesOf(m, {k}) = {k} \X (1..m[k].size)
  BY DEF BytesOf
<1>2. IsFiniteSet({k}) /\ Cardinality({k}) = 1
  BY FS_Singleton
<1>3. IsFiniteSet(1..m[k].size) /\ Cardinality(1..m[k].size) = m[k].size
  <2>1. 1 \in Int /\ m[k].size \in Int
    OBVIOUS
  <2>2. /\ IsFiniteSet(1..m[k].size)
        /\ Cardinality(1..m[k].size) = IF 1 > m[k].size THEN 0 ELSE m[k].size - 1 + 1
    BY <2>1, FS_Interval, Zenon
  <2> QED
    BY <2>2
<1>4. Cardinality({k} \X (1..m[k].size)) = Cardinality({k}) * Cardinality(1..m[k].size)
  BY <1>2, <1>3, FS_Product
<1>5. TotalSize(m, {k}) = Cardinality({k}) * Cardinality(1..m[k].size)
  BY <1>1, <1>4, Zenon DEF TotalSize
<1> QED
  BY <1>2, <1>3, <1>5

\* Removing entries takes their bodies off the total, and never more than is
\* there: the subtraction does not saturate (Inner::remove, purge_tag).
LEMMA RemovedBytes ==
    ASSUME NEW i, Counted(i), NEW ks, ks \subseteq DOMAIN i.map
    PROVE  /\ Counted(RemoveAll(i, ks))
           /\ DOMAIN RemoveAll(i, ks).map = DOMAIN i.map \ ks
           /\ \A k \in DOMAIN i.map \ ks : RemoveAll(i, ks).map[k] = i.map[k]
           /\ RemoveAll(i, ks).bytes = TotalSize(i.map, DOMAIN i.map \ ks)
           /\ RemoveAll(i, ks).bytes \in Nat /\ RemoveAll(i, ks).bytes <= i.bytes
           /\ i.bytes \in Nat
<1> DEFINE left == DOMAIN i.map \ ks
           m == Restrict(i.map, left)
<1>1. /\ IsFiniteSet(DOMAIN i.map)
      /\ \A k \in DOMAIN i.map : /\ DOMAIN i.map[k] = {"size", "ttl", "tags", "age", "body"}
                                  /\ i.map[k].size \in 0..MaxBody /\ i.map[k].age \in Nat
      /\ i.bytes = TotalSize(i.map, DOMAIN i.map)
  BY DEF Counted
<1>2. IsFiniteSet(left) /\ IsFiniteSet(ks)
  BY <1>1, FS_Subset
<1>3. /\ TotalSize(i.map, ks) \in Nat /\ TotalSize(i.map, left) \in Nat
      /\ i.bytes = TotalSize(i.map, left) + TotalSize(i.map, ks)
  <2>1. left \cup ks = DOMAIN i.map /\ left \cap ks = {}
    OBVIOUS
  <2>2. /\ \A k \in left \cup ks : i.map[k].size \in 0..MaxBody
        /\ \A k \in left : i.map[k].size \in 0..MaxBody
        /\ \A k \in ks : i.map[k].size \in 0..MaxBody
    BY <1>1
  <2> HIDE DEF left
  <2>3. TotalSize(i.map, left \cup ks) = TotalSize(i.map, left) + TotalSize(i.map, ks)
    BY <1>2, <2>1, <2>2, TotalOfParts
  <2>4. TotalSize(i.map, ks) \in Nat /\ TotalSize(i.map, left) \in Nat
    BY <1>2, <2>2, TotalIsNatural
  <2> QED
    BY <1>1, <2>1, <2>3, <2>4
<1>4. SaturatingSub(i.bytes, TotalSize(i.map, ks)) = TotalSize(i.map, left)
  BY <1>3 DEF SaturatingSub
<1>5. RemoveAll(i, ks) = [map |-> m, bytes |-> TotalSize(i.map, left)]
  BY <1>4, Zenon DEF RemoveAll
<1>6. DOMAIN m = left /\ \A k \in left : m[k] = i.map[k]
  BY DEF Restrict
<1> HIDE DEF m, left
<1>7. TotalSize(m, left) = TotalSize(i.map, left)
  <2>1. \A k \in left : m[k].size = i.map[k].size
    BY <1>6
  <2> QED
    BY <2>1, TotalOfSizes, Zenon
<1>8. Counted([map |-> m, bytes |-> TotalSize(i.map, left)])
  <2>1. \A k \in left : k \in DOMAIN i.map
    BY DEF left
  <2> QED
    BY <1>1, <1>2, <1>6, <1>7, <2>1 DEF Counted
<1> QED
  BY <1>3, <1>5, <1>6, <1>8 DEF left

\* What evict_until_fits leaves: the rounds took the oldest entries, each one
\* while the body did not fit.
LEMMA EvictedBytes ==
    ASSUME NEW i, Counted(i), NEW incoming \in Nat, NEW e \in EvictUntilFits(i, incoming)
    PROVE  \E gone \in SUBSET DOMAIN i.map :
              /\ e = RemoveAll(i, gone)
              /\ \A g \in gone, s \in DOMAIN i.map \ gone : i.map[g].age >= i.map[s].age
              /\ gone # {} => \E g \in gone :
                    TotalSize(i.map, (DOMAIN i.map \ gone) \cup {g}) + incoming > MaxTotal
<1> DEFINE rounds == Cardinality(DOMAIN i.map)
           Gone(order, n) == {order[r] : r \in 1..n}
           Fitting(order) == {n \in 0..rounds : RemoveAll(i, Gone(order, n)).bytes + incoming <= MaxTotal}
<1>1. PICK order \in OldestFirst(i.map) :
          e = RemoveAll(i, Gone(order, Min(Fitting(order) \cup {rounds})))
  BY Zenon DEF EvictUntilFits
<1>2. rounds \in Nat
  BY FS_CardinalityType DEF Counted
<1>3. /\ order \in [1..rounds -> DOMAIN i.map]
      /\ \A a, b \in 1..rounds : order[a] = order[b] => a = b
      /\ \A k \in DOMAIN i.map : \E r \in 1..rounds : order[r] = k
      /\ \A a, b \in 1..rounds : a < b => i.map[order[a]].age >= i.map[order[b]].age
  BY DEF OldestFirst, Bijection, Injection, Surjection, IsInjective
<1> DEFINE n == Min(Fitting(order) \cup {rounds})
           gone == Gone(order, n)
<1>4. /\ n \in 0..rounds
      /\ \A x \in 0..rounds : x < n =>
            ~(RemoveAll(i, Gone(order, x)).bytes + incoming <= MaxTotal)
  <2> DEFINE F == Fitting(order) \cup {rounds}
  <2>1. F \subseteq 0..rounds /\ F # {} /\ F \subseteq Nat
    BY <1>2
  <2>2. \A x \in 0..rounds : RemoveAll(i, Gone(order, x)).bytes + incoming <= MaxTotal => x \in F
    OBVIOUS
  <2> HIDE DEF F
  <2>3. n = Min(F)
    BY DEF F
  <2> HIDE DEF n
  <2>4. n \in F /\ \A y \in F : n <= y
    BY <2>1, <2>3, LeastElement, Zenon
  <2>5. \A x \in 0..rounds : x < n => x \notin F
    <3> HIDE DEF rounds
    <3> QED
      BY <1>2, <2>1, <2>4
  <2> QED
    BY <2>1, <2>2, <2>4, <2>5, Zenon
<1> HIDE DEF n, Fitting
<1>5. \A x \in 0..rounds : Gone(order, x) \subseteq DOMAIN i.map
  BY <1>2, <1>3
<1>6. \A g \in gone, s \in DOMAIN i.map \ gone : i.map[g].age >= i.map[s].age
  <2> SUFFICES ASSUME NEW a \in 1..n, NEW s \in DOMAIN i.map \ gone
               PROVE  i.map[order[a]].age >= i.map[s].age
    OBVIOUS
  <2>1. PICK b \in 1..rounds : order[b] = s
    BY <1>3
  <2>2. ~(b <= n)
    BY <2>1, <1>4
  <2> QED
    BY <1>2, <1>3, <1>4, <2>1, <2>2
<1>7. ASSUME gone # {}
      PROVE  \E g \in gone : TotalSize(i.map, (DOMAIN i.map \ gone) \cup {g}) + incoming > MaxTotal
  <2>1. n >= 1 /\ n - 1 \in 0..rounds /\ n \in 1..n /\ n \in 1..rounds
    BY <1>2, <1>4, <1>7
  <2>2. RemoveAll(i, Gone(order, n - 1)).bytes + incoming > MaxTotal
    <3>1. RemoveAll(i, Gone(order, n - 1)).bytes \in Nat
      BY <1>5, <2>1, RemovedBytes, Zenon
    <3>2. n - 1 < n
      BY <2>1, <1>2
    <3>3. ~(RemoveAll(i, Gone(order, n - 1)).bytes + incoming <= MaxTotal)
      BY <1>4, <2>1, <3>2, Zenon
    <3> HIDE DEF Gone
    <3> QED
      BY <3>1, <3>3, Limits
  <2>3. DOMAIN i.map \ Gone(order, n - 1) = (DOMAIN i.map \ gone) \cup {order[n]}
    <3>1. Gone(order, n) = Gone(order, n - 1) \cup {order[n]}
      BY <1>2, <2>1
    <3>2. order[n] \notin Gone(order, n - 1)
      <4> SUFFICES ASSUME NEW r \in 1..(n - 1), order[r] = order[n] PROVE FALSE
        OBVIOUS
      <4>1. r \in 1..rounds /\ r # n
        BY <1>2, <2>1
      <4> QED
        BY <1>3, <2>1, <4>1
    <3>3. order[n] \in DOMAIN i.map
      BY <1>3, <2>1
    <3> HIDE DEF Gone
    <3> QED
      BY <3>1, <3>2, <3>3
  <2>4. Gone(order, n - 1) \subseteq DOMAIN i.map
    BY <1>5, <2>1, Zenon
  <2>5. order[n] \in gone
    BY <2>1
  <2> HIDE DEF Gone
  <2>6. RemoveAll(i, Gone(order, n - 1)).bytes = TotalSize(i.map, DOMAIN i.map \ Gone(order, n - 1))
    BY <2>4, RemovedBytes
  <2>7. TotalSize(i.map, (DOMAIN i.map \ gone) \cup {order[n]}) + incoming > MaxTotal
    BY <2>2, <2>3, <2>6
  <2> QED
    BY <2>5, <2>7
<1>8. e = RemoveAll(i, gone)
  BY <1>1 DEF n
<1>9. gone \in SUBSET DOMAIN i.map
  BY <1>4, <1>5, Zenon
<1> HIDE DEF gone
<1> QED
  BY <1>6, <1>7, <1>8, <1>9

\* A store that fits still does with entries removed.
LEMMA RemovedFits ==
    ASSUME NEW i, Fits(i), NEW ks, ks \subseteq DOMAIN i.map
    PROVE  Fits(RemoveAll(i, ks))
<1> DEFINE j == RemoveAll(i, ks)
<1>1. /\ Counted(j) /\ DOMAIN j.map = DOMAIN i.map \ ks
      /\ j.bytes \in Nat /\ j.bytes <= i.bytes /\ i.bytes \in Nat
  BY RemovedBytes, Zenon DEF Fits
<1>2. IsFiniteSet(DOMAIN i.map) /\ Cardinality(DOMAIN i.map) <= MaxEntries /\ i.bytes <= MaxTotal
  BY DEF Fits, Counted
<1>3. /\ Cardinality(DOMAIN j.map) <= Cardinality(DOMAIN i.map)
      /\ Cardinality(DOMAIN j.map) \in Nat /\ Cardinality(DOMAIN i.map) \in Nat
  <2>1. DOMAIN j.map \in SUBSET DOMAIN i.map
    BY <1>1
  <2> QED
    BY <1>2, <2>1, FS_Subset, FS_CardinalityType, Zenon
<1> HIDE DEF j
<1>4. Fits(j)
  BY <1>1, <1>2, <1>3, Limits DEF Fits
<1> QED
  BY <1>4 DEF j

\* So does one whose bodies keep their sizes.
LEMMA ResizedFits ==
    ASSUME NEW i, Fits(i), NEW j, DOMAIN j = {"map", "bytes"}, j.bytes = i.bytes,
           DOMAIN j.map = DOMAIN i.map,
           \A k \in DOMAIN i.map : /\ DOMAIN j.map[k] = {"size", "ttl", "tags", "age", "body"}
                                   /\ j.map[k].size = i.map[k].size /\ j.map[k].age \in Nat
    PROVE  Fits(j)
<1>1. TotalSize(j.map, DOMAIN i.map) = TotalSize(i.map, DOMAIN i.map)
  BY TotalOfSizes
<1> QED
  BY <1>1 DEF Fits, Counted

\* The insertion at the end of maybe_store adds the body to the total.
LEMMA InsertedFits ==
    ASSUME NEW i, Counted(i), NEW k, k \notin DOMAIN i.map, NEW entry,
           DOMAIN entry = {"size", "ttl", "tags", "age", "body"},
           entry.size \in 0..MaxBody, entry.age \in Nat,
           Cardinality(DOMAIN i.map) < MaxEntries, i.bytes + entry.size <= MaxTotal
    PROVE  Fits(Insert(i, k, entry))
<1> DEFINE ks == DOMAIN i.map
           m == [j \in ks \cup {k} |-> IF j = k THEN entry ELSE i.map[j]]
<1>1. /\ DOMAIN m = ks \cup {k} /\ m[k] = entry
      /\ \A j \in ks : m[j] = i.map[j]
  OBVIOUS
<1>2. /\ IsFiniteSet(ks) /\ i.bytes = TotalSize(i.map, ks)
      /\ \A j \in ks : /\ DOMAIN i.map[j] = {"size", "ttl", "tags", "age", "body"}
                       /\ i.map[j].size \in 0..MaxBody /\ i.map[j].age \in Nat
  BY DEF Counted
<1>3. Insert(i, k, entry) = [map |-> m, bytes |-> i.bytes + entry.size]
  BY Zenon DEF Insert
<1> HIDE DEF m, ks
<1>4. \A j \in ks \cup {k} : /\ DOMAIN m[j] = {"size", "ttl", "tags", "age", "body"}
                             /\ m[j].size \in 0..MaxBody /\ m[j].age \in Nat
  BY <1>1, <1>2
<1>5. TotalSize(m, ks \cup {k}) = i.bytes + entry.size
  <2>1. IsFiniteSet({k}) /\ ks \cap {k} = {}
    BY FS_Singleton DEF ks
  <2>2. TotalSize(m, ks \cup {k}) = TotalSize(m, ks) + TotalSize(m, {k})
    BY <1>2, <1>4, <2>1, TotalOfParts
  <2>3. TotalSize(m, ks) = TotalSize(i.map, ks)
    BY <1>1, TotalOfSizes
  <2>4. TotalSize(m, {k}) = entry.size
    BY <1>1, TotalOfOne, Limits
  <2> QED
    BY <1>2, <2>2, <2>3, <2>4
<1>6. /\ IsFiniteSet(ks \cup {k}) /\ Cardinality(ks \cup {k}) <= MaxEntries
  <2>1. IsFiniteSet(ks \cup {k}) /\ Cardinality(ks \cup {k}) = Cardinality(ks) + 1
    BY <1>2, FS_AddElement DEF ks
  <2>2. Cardinality(ks) \in Nat /\ Cardinality(ks) < MaxEntries
    BY <1>2, FS_CardinalityType DEF ks
  <2> QED
    BY <2>1, <2>2, Limits
<1>7. Fits([map |-> m, bytes |-> i.bytes + entry.size])
  BY <1>1, <1>4, <1>5, <1>6 DEF Fits, Counted
<1> QED
  BY <1>3, <1>7

\* Removing one key removes nothing but its entry.
LEMMA RemovedOne ==
    ASSUME NEW i, Counted(i), NEW k
    PROVE  /\ Counted(Remove(i, k))
           /\ DOMAIN Remove(i, k).map = DOMAIN i.map \ {k}
           /\ \A j \in DOMAIN i.map \ {k} : Remove(i, k).map[j] = i.map[j]
           /\ Fits(i) => Fits(Remove(i, k))
<1> DEFINE ks == {k} \cap DOMAIN i.map
<1>1. ks \subseteq DOMAIN i.map /\ DOMAIN i.map \ ks = DOMAIN i.map \ {k}
  OBVIOUS
<1>2. Remove(i, k) = RemoveAll(i, ks)
  BY Zenon DEF Remove
<1> HIDE DEF ks
<1>3. /\ Counted(RemoveAll(i, ks))
      /\ DOMAIN RemoveAll(i, ks).map = DOMAIN i.map \ ks
      /\ \A j \in DOMAIN i.map \ ks : RemoveAll(i, ks).map[j] = i.map[j]
  BY <1>1, RemovedBytes
<1>4. Fits(i) => Fits(RemoveAll(i, ks))
  BY <1>1, RemovedFits
<1> QED
  BY <1>1, <1>2, <1>3, <1>4

\* maybe_store, however it ends, leaves a store that fits.
LEMMA StoredFits ==
    ASSUME Fits(inner), NEW k, NEW r, r.size \in Nat, NEW body,
           \/ StoreRefused(k, r) \/ StoreAtCapacity(k, r) \/ StoreOverBudget(k, r)
           \/ StoreInserted(k, r, body)
    PROVE  Fits(inner')
<1> DEFINE freed == Remove(inner, k)
<1>1. Counted(freed) /\ Fits(freed) /\ DOMAIN freed.map = DOMAIN inner.map \ {k}
  BY RemovedOne, Zenon DEF Fits
<1>2. \A e \in EvictUntilFits(freed, r.size) :
          Fits(e) /\ DOMAIN e.map \subseteq DOMAIN freed.map
  <2> SUFFICES ASSUME NEW e \in EvictUntilFits(freed, r.size)
               PROVE  Fits(e) /\ DOMAIN e.map \subseteq DOMAIN freed.map
    OBVIOUS
  <2> HIDE DEF freed
  <2>1. PICK gone \in SUBSET DOMAIN freed.map : e = RemoveAll(freed, gone)
    BY <1>1, EvictedBytes
  <2>2. Fits(RemoveAll(freed, gone)) /\ DOMAIN RemoveAll(freed, gone).map = DOMAIN freed.map \ gone
    BY <1>1, RemovedFits, RemovedBytes
  <2> QED
    BY <2>1, <2>2
<1>3. CASE StoreRefused(k, r)
  BY <1>3, Zenon DEF StoreRefused
<1>4. CASE StoreAtCapacity(k, r)
  <2>1. inner' = freed
    BY <1>4, Zenon DEF StoreAtCapacity
  <2> QED
    BY <1>1, <2>1, Zenon
<1>5. CASE StoreOverBudget(k, r)
  <2>1. inner' \in EvictUntilFits(freed, r.size)
    BY <1>5, Zenon DEF StoreOverBudget
  <2> QED
    BY <1>2, <2>1, Zenon
<1>6. CASE StoreInserted(k, r, body)
  <2>1. \E e \in EvictUntilFits(freed, r.size) :
              e.bytes + r.size <= MaxTotal /\ inner' = Insert(e, k, NewEntry(r, body))
    BY <1>6, Zenon DEF StoreInserted
  <2>2. PICK e \in EvictUntilFits(freed, r.size) :
              e.bytes + r.size <= MaxTotal /\ inner' = Insert(e, k, NewEntry(r, body))
    BY <2>1
  <2>3. Counted(e) /\ DOMAIN e.map \subseteq DOMAIN freed.map
    BY <1>2, Zenon DEF Fits
  <2>4. k \notin DOMAIN e.map
    BY <1>1, <2>3
  <2>5. IsFiniteSet(DOMAIN freed.map) /\ IsFiniteSet(DOMAIN e.map)
    BY <1>1, <2>3, Zenon DEF Counted
  <2>6. r.size <= MaxBody /\ Cardinality(DOMAIN freed.map) < MaxEntries
    BY <1>6, Zenon DEF StoreInserted, Storable
  <2> HIDE DEF freed
  <2>7. Cardinality(DOMAIN e.map) < MaxEntries
    <3>1. /\ Cardinality(DOMAIN e.map) <= Cardinality(DOMAIN freed.map)
          /\ Cardinality(DOMAIN e.map) \in Nat /\ Cardinality(DOMAIN freed.map) \in Nat
      BY <2>3, <2>5, FS_Subset, FS_CardinalityType
    <3> QED
      BY <2>6, <3>1, Limits
  <2> DEFINE entry == NewEntry(r, body)
  <2>8. /\ DOMAIN entry = {"size", "ttl", "tags", "age", "body"}
        /\ entry.size = r.size /\ entry.size \in 0..MaxBody /\ entry.age \in Nat
    BY <2>6, Limits DEF NewEntry
  <2> HIDE DEF entry
  <2>9. e.bytes + entry.size <= MaxTotal
    BY <2>2, <2>8
  <2>10. inner' = Insert(e, k, entry)
    BY <2>2 DEF entry
  <2> QED
    BY <2>3, <2>4, <2>7, <2>8, <2>9, <2>10, InsertedFits, Zenon
<1> QED
  BY <1>3, <1>4, <1>5, <1>6

\* purge_tag and clear.
LEMMA PurgedFits ==
    ASSUME Fits(inner), Clear \/ \E t \in Tags : PurgeTag(t)
    PROVE  Fits(inner')
<1>1. ASSUME Clear PROVE Fits(inner')
  <2>1. inner' = [map |-> <<>>, bytes |-> 0]
    BY <1>1 DEF Clear
  <2>2. DOMAIN inner'.map = {}
    BY <2>1
  <2> QED
    BY <2>1, <2>2, TotalOfNone, FS_EmptySet, Limits DEF Fits, Counted
<1>2. ASSUME NEW t \in Tags, PurgeTag(t) PROVE Fits(inner')
  <2> DEFINE ks == {k \in DOMAIN inner.map : t \in inner.map[k].tags}
  <2>1. inner' = RemoveAll(inner, ks) /\ ks \subseteq DOMAIN inner.map
    BY <1>2 DEF PurgeTag
  <2> HIDE DEF ks
  <2> QED
    BY <2>1, RemovedFits, Zenon
<1> QED
  BY <1>1, <1>2

\* lookup.
LEMMA LookedUpFits ==
    ASSUME Fits(inner), NEW k, LookupHit(k) \/ LookupMiss(k)
    PROVE  Fits(inner')
<1>1. inner' = inner \/ inner' = Remove(inner, k)
  BY Zenon DEF LookupHit, LookupMiss
<1>2. Counted(inner)
  BY DEF Fits
<1> QED
  BY <1>1, <1>2, RemovedOne

\* An empty store fits.
LEMMA EmptyFits == Init => Fits(inner)
<1> SUFFICES ASSUME Init PROVE Fits(inner)
  OBVIOUS
<1>1. inner = [map |-> <<>>, bytes |-> 0]
  BY DEF Init
<1>2. DOMAIN inner.map = {}
  BY <1>1
<1> QED
  BY <1>1, <1>2, TotalOfNone, FS_EmptySet, Limits DEF Fits, Counted

\* A store that fits is within its budgets.
LEMMA FitsIsWithin == Fits(inner) => WithinBudgets
  BY Limits DEF Fits, Counted, WithinBudgets

\* Growing older, and what the origin does, leaves the sizes alone.
LEMMA AgedFits ==
    ASSUME Fits(inner), Tick \/ TimePasses \/ OriginChanges
    PROVE  Fits(inner')
<1>1. /\ DOMAIN inner = {"map", "bytes"}
      /\ \A k \in DOMAIN inner.map : /\ DOMAIN inner.map[k] = {"size", "ttl", "tags", "age", "body"}
                                     /\ inner.map[k].age \in Nat
  BY DEF Fits, Counted
<1>2. \A k \in DOMAIN inner.map : \A b :
          LET e == Older(inner.map[k])
              f == WithBody(e, b)
              g == WithBody(inner.map[k], b)
          IN  /\ DOMAIN e = {"size", "ttl", "tags", "age", "body"}
              /\ e.size = inner.map[k].size /\ e.age \in Nat
              /\ DOMAIN f = {"size", "ttl", "tags", "age", "body"}
              /\ f.size = inner.map[k].size /\ f.age \in Nat
              /\ DOMAIN g = {"size", "ttl", "tags", "age", "body"}
              /\ g.size = inner.map[k].size /\ g.age \in Nat
  <2> SUFFICES ASSUME NEW k \in DOMAIN inner.map, NEW b
               PROVE  LET e == Older(inner.map[k])
                          f == WithBody(e, b)
                          g == WithBody(inner.map[k], b)
                      IN  /\ DOMAIN e = {"size", "ttl", "tags", "age", "body"}
                          /\ e.size = inner.map[k].size /\ e.age \in Nat
                          /\ DOMAIN f = {"size", "ttl", "tags", "age", "body"}
                          /\ f.size = inner.map[k].size /\ f.age \in Nat
                          /\ DOMAIN g = {"size", "ttl", "tags", "age", "body"}
                          /\ g.size = inner.map[k].size /\ g.age \in Nat
    OBVIOUS
  <2> DEFINE e == Older(inner.map[k])
  <2>1. /\ DOMAIN e = {"size", "ttl", "tags", "age", "body"}
        /\ e.size = inner.map[k].size /\ e.age \in Nat
    BY <1>1 DEF Older
  <2>2. \A x : DOMAIN x = {"size", "ttl", "tags", "age", "body"} =>
            /\ DOMAIN WithBody(x, b) = {"size", "ttl", "tags", "age", "body"}
            /\ WithBody(x, b).size = x.size /\ WithBody(x, b).age = x.age
    BY DEF WithBody
  <2> HIDE DEF e
  <2>3. /\ DOMAIN WithBody(e, b) = {"size", "ttl", "tags", "age", "body"}
        /\ WithBody(e, b).size = inner.map[k].size /\ WithBody(e, b).age \in Nat
    BY <2>1, <2>2
  <2>4. /\ DOMAIN WithBody(inner.map[k], b) = {"size", "ttl", "tags", "age", "body"}
        /\ WithBody(inner.map[k], b).size = inner.map[k].size /\ WithBody(inner.map[k], b).age \in Nat
    BY <1>1, <2>2
  <2> QED
    BY <2>1, <2>3, <2>4 DEF e
<1>3. /\ DOMAIN inner' = {"map", "bytes"} /\ inner'.bytes = inner.bytes
      /\ DOMAIN inner'.map = DOMAIN inner.map
      /\ \A k \in DOMAIN inner.map :
            /\ DOMAIN inner'.map[k] = {"size", "ttl", "tags", "age", "body"}
            /\ inner'.map[k].size = inner.map[k].size /\ inner'.map[k].age \in Nat
  <2>1. CASE Tick
    BY <1>1, <1>2, <2>1 DEF Tick
  <2>2. CASE TimePasses
    BY <1>1, <1>2, <2>2 DEF TimePasses
  <2>3. CASE OriginChanges
    BY <1>1, <1>2, <2>3 DEF OriginChanges
  <2> QED
    BY <2>1, <2>2, <2>3
<1> QED
  BY <1>3, ResizedFits

\* maybe_store evicts the oldest entries, and no more of them than the new body
\* needs: in any state whose total is counted right.
LEMMA EvictionStep == Fits(inner) => EvictsInOrder
<1> SUFFICES ASSUME Fits(inner), NEW k \in Keys \cap DOMAIN inner'.map,
                    NEW r \in Responses, NEW body, StoreInserted(k, r, body),
                    NEW others, others = DOMAIN inner.map \ {k},
                    NEW kept, kept = others \cap DOMAIN inner'.map,
                    NEW gone, gone = others \ kept, gone # {}
             PROVE  /\ \A g \in gone, s \in kept : inner.map[g].age >= inner.map[s].age
                    /\ \E g \in gone : TotalSize(inner.map, kept \cup {g}) + r.size > MaxTotal
  BY Zenon DEF EvictsInOrder
<1> DEFINE freed == Remove(inner, k)
<1>1. /\ Counted(freed) /\ DOMAIN freed.map = others
      /\ \A j \in others : freed.map[j] = inner.map[j]
  BY RemovedOne, Zenon DEF Fits
<1>2. r.size \in Nat
  BY CacheAssumption
<1>3. \E e \in EvictUntilFits(freed, r.size) : inner' = Insert(e, k, NewEntry(r, body))
  BY Zenon DEF StoreInserted
<1>4. PICK e \in EvictUntilFits(freed, r.size) : inner' = Insert(e, k, NewEntry(r, body))
  BY <1>3
<1> HIDE DEF freed
<1>5. PICK out \in SUBSET DOMAIN freed.map :
          /\ e = RemoveAll(freed, out)
          /\ \A g \in out, s \in DOMAIN freed.map \ out : freed.map[g].age >= freed.map[s].age
          /\ out # {} => \E g \in out :
                TotalSize(freed.map, (DOMAIN freed.map \ out) \cup {g}) + r.size > MaxTotal
  BY <1>1, <1>2, EvictedBytes
<1>6. DOMAIN inner'.map = (others \ out) \cup {k}
  <2>1. DOMAIN e.map = others \ out
    <3>1. DOMAIN RemoveAll(freed, out).map = DOMAIN freed.map \ out
      BY <1>1, RemovedBytes
    <3> QED
      BY <1>1, <1>5, <3>1
  <2> QED
    BY <1>4, <2>1 DEF Insert
<1>7. kept = others \ out /\ gone = out
  BY <1>1, <1>5, <1>6
<1>8. \A g \in gone, s \in kept : inner.map[g].age >= inner.map[s].age
  BY <1>1, <1>5, <1>7
<1>9. PICK g \in gone : TotalSize(freed.map, kept \cup {g}) + r.size > MaxTotal
  BY <1>1, <1>5, <1>7
<1>10. TotalSize(freed.map, kept \cup {g}) = TotalSize(inner.map, kept \cup {g})
  <2>1. \A j \in kept \cup {g} : freed.map[j].size = inner.map[j].size
    BY <1>1, <1>7
  <2> DEFINE ks == kept \cup {g}
  <2> HIDE DEF ks
  <2>2. TotalSize(freed.map, ks) = TotalSize(inner.map, ks)
    BY <2>1, TotalOfSizes DEF ks
  <2> QED
    BY <2>2 DEF ks
<1> QED
  BY <1>8, <1>9, <1>10

\* The store under any sequence of calls stays within its budgets.
THEOREM StoreBudgetTheorem == Spec => []WithinBudgets
<1>1. Fits(inner) /\ [Next]_inner => Fits(inner)'
  <2> SUFFICES ASSUME Fits(inner), [Next]_inner PROVE Fits(inner')
    OBVIOUS
  <2>1. CASE UNCHANGED inner
    BY <2>1, Zenon
  <2>2. ASSUME NEW k \in Keys, NEW r \in Responses,
               \/ StoreRefused(k, r) \/ StoreAtCapacity(k, r) \/ StoreOverBudget(k, r)
               \/ StoreInserted(k, r, r)
        PROVE  Fits(inner')
    BY <2>2, StoredFits, CacheAssumption
  <2> QED
    BY <2>1, <2>2, LookedUpFits, PurgedFits, AgedFits, Zenon DEF Next
<1> QED
  BY <1>1, EmptyFits, FitsIsWithin, PTL DEF Spec

\* A route's cache stays within its budgets, whatever its requests store.
THEOREM RouteBudgetInvariant == RouteSpec => []Fits(inner)
<1>1. RouteInv /\ Fits(inner) /\ [RouteNext]_vars => Fits(inner)'
  <2> SUFFICES ASSUME RouteInv, Fits(inner), [RouteNext]_vars PROVE Fits(inner')
    OBVIOUS
  <2>1. CASE UNCHANGED inner
    BY <2>1, Zenon
  <2>2. ASSUME NEW w \in Workers, Deliver(w) PROVE Fits(inner')
    <3>1. Keep(w) /\ Travelling(req[w], resp[w])
      BY <2>2, Zenon DEF Deliver, RouteInv, WorkersOK
    <3> DEFINE q == req[w]
               r == Egress(q, resp[w])
    <3>2. r.class \in Classes
      <4>1. DOMAIN resp[w] = Parts /\ resp[w].class \in Classes
        BY <3>1, Zenon DEF Travelling
      <4> QED
        BY <4>1 DEF Egress, Parts
    <3>3. r.class.size \in Nat
      BY <3>2, CacheAssumption DEF Classes, Plain
    <3>4. \/ UNCHANGED inner
          \/ \E body : \/ StoreRefused(Key(q), r.class) \/ StoreAtCapacity(Key(q), r.class)
                       \/ StoreOverBudget(Key(q), r.class) \/ StoreInserted(Key(q), r.class, body)
      BY <3>1, Zenon DEF Keep
    <3> HIDE DEF r
    <3> QED
      BY <2>1, <3>3, <3>4, StoredFits
  <2>3. ASSUME NEW w \in Workers, NEW q \in Requests, CacheMiss(w, q) PROVE Fits(inner')
    BY <2>3, LookedUpFits, Zenon DEF CacheMiss
  <2>4. ASSUME Purge PROVE Fits(inner')
    BY <2>4, PurgedFits, Zenon DEF Purge
  <2>5. \/ UNCHANGED inner \/ OriginChanges \/ TimePasses \/ Purge
        \/ \E w \in Workers : Deliver(w)
        \/ \E w \in Workers, q \in Requests : CacheMiss(w, q)
    <3>1. CASE UNCHANGED vars
      BY <3>1, Zenon DEF vars
    <3>2. CASE RouteNext
      BY <3>2, Zenon DEF RouteNext, NotFound, ShortCircuit, CacheHit, LookupHit, Bypass, Serve,
         OriginAnswers, HandlerFails, Cancel
    <3> QED
      BY <3>1, <3>2
  <2> QED
    BY <2>1, <2>2, <2>3, <2>4, <2>5, AgedFits
<1>2. RouteInit => Fits(inner)
  BY EmptyFits, Zenon DEF RouteInit
<1> QED
  BY <1>1, <1>2, RouteInvariant, PTL DEF RouteSpec

\* What a route's requests store stays within max_entries, max_total_bytes and
\* max_body_bytes, although maybe_store looks at the running total only.
THEOREM RouteBudgetTheorem == RouteSpec => []WithinBudgets
  BY RouteBudgetInvariant, FitsIsWithin, PTL

\* A request's store evicts the oldest entries first, and no more than it needs
\* (evict_until_fits).
THEOREM EvictionTheorem == RouteSpec => EvictsOldestAndNoMore
<1>1. Fits(inner) => [EvictsInOrder]_inner
  BY EvictionStep, Zenon
<1> QED
  BY <1>1, RouteBudgetInvariant, PTL DEF EvictsOldestAndNoMore
=============================================================================
