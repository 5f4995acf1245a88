----------------------------- MODULE CacheStore -----------------------------
(***************************************************************************)
(* The response cache of pulsate-cache: MemoryStore (one mutex around the  *)
(* entry map and the running total of body bytes) and CacheLayer's lookup, *)
(* maybe_store and cacheable_ttl.  Each operation holds the mutex from its *)
(* first access to its last, so each is one action.                        *)
(*                                                                         *)
(* Time is relative: an entry has an age instead of stored_at.  Ages are   *)
(* capped at MaxAge; entries of one age are evicted in any order.          *)
(***************************************************************************)
EXTENDS Integers, FiniteSets, FiniteSetsExt, Functions, TLC

CONSTANTS Keys,        \* cache keys
          Responses,   \* what may be offered to maybe_store
          Tags,        \* cache tags
          Vary,        \* CacheConfig.vary
          DefaultTtl,  \* CacheConfig.default_ttl
          SWR,         \* CacheConfig.stale_while_revalidate
          MaxEntries,  \* CacheConfig.max_entries
          MaxBody,     \* CacheConfig.max_body_bytes
          MaxTotal,    \* CacheConfig.max_total_bytes
          MaxAge       \* bound: ages are not told apart from here on

NotCacheable == -1
Unset == -1

ASSUME CacheAssumption ==
    /\ \A r \in Responses : /\ r.status \in Nat /\ r.size \in Nat /\ r.cookie \in BOOLEAN
                            /\ r.cc \subseteq {"no-store", "private", "no-cache"}
                            /\ r.maxage \in Nat \cup {Unset}
                            /\ r.tags \subseteq Tags
                            /\ r.maxage + SWR < MaxAge
    /\ DefaultTtl \in Nat /\ SWR \in Nat /\ MaxAge \in Nat
    /\ MaxEntries \in Nat /\ MaxBody \in Nat /\ MaxTotal \in Nat
    /\ DefaultTtl + SWR < MaxAge

VARIABLE inner  \* Inner: the map and the byte total

Init == inner = [map |-> <<>>, bytes |-> 0]

----------------------------------------------------------------------------
(* cacheable_ttl: the freshness lifetime, or NotCacheable.  maxage stands   *)
(* for s-maxage, else max-age, where it parses.                             *)
CacheableTtl(r) ==
    CASE \/ r.status # 200
         \/ r.cookie
         \/ "*" \in r.vary \/ ~(r.vary \subseteq Vary)
         \/ r.cc \cap {"no-store", "private"} # {} -> NotCacheable
      [] OTHER -> IF "no-cache" \in r.cc THEN 0
                  ELSE IF r.maxage # Unset THEN r.maxage ELSE DefaultTtl

SaturatingSub(a, b) == IF a >= b THEN a - b ELSE 0

(* The bytes of the bodies under the keys ks, each with its place. *)
BytesOf(m, ks) == UNION {{k} \X (1..m[k].size) : k \in ks}

(* The sum of body.len() over the keys ks. *)
TotalSize(m, ks) == Cardinality(BytesOf(m, ks))

(* Inner::remove, for each key of ks in any order. *)
RemoveAll(i, ks) ==
    [map   |-> Restrict(i.map, DOMAIN i.map \ ks),
     bytes |-> SaturatingSub(i.bytes, TotalSize(i.map, ks))]

Remove(i, k) == RemoveAll(i, {k} \cap DOMAIN i.map)

(* Fault: the youngest entry goes first. *)
YoungestFirst(m) ==
    {order \in Bijection(1..Cardinality(DOMAIN m), DOMAIN m) :
        \A a, b \in DOMAIN order : a < b => m[order[a]].age <= m[order[b]].age}

(* The orders in which min_by_key may find the entries. *)
OldestFirst(m) ==
    {order \in Bijection(1..Cardinality(DOMAIN m), DOMAIN m) :
        \A a, b \in DOMAIN order : a < b => m[order[a]].age >= m[order[b]].age}

(* evict_until_fits: the states its loop may end in.  It leaves off at the  *)
(* first round after which the body fits, or with the map empty.            *)
EvictUntilFits(i, incoming) ==
    LET rounds == Cardinality(DOMAIN i.map)
        After(order, n) == RemoveAll(i, {order[r] : r \in 1..n})
        Fitting(order) == {n \in 0..rounds : After(order, n).bytes + incoming <= MaxTotal}
    IN  {After(order, Min(Fitting(order) \cup {rounds})) : order \in OldestFirst(i.map)}

----------------------------------------------------------------------------
(* lookup *)

(* Fault: the age of an entry is not looked at. *)
ServableForever(k) == k \in DOMAIN inner.map

Servable(k) == k \in DOMAIN inner.map /\ inner.map[k].age <= inner.map[k].ttl + SWR

Freshness(k) == IF inner.map[k].age <= inner.map[k].ttl THEN "Fresh" ELSE "Stale"

LookupHit(k) == Servable(k) /\ UNCHANGED inner

(* An expired entry is removed on the way. *)
LookupMiss(k) == ~Servable(k) /\ inner' = Remove(inner, k)

----------------------------------------------------------------------------
(* maybe_store(k, r): body is what a hit on the entry will be given back *)

Storable(r) == CacheableTtl(r) # NotCacheable /\ r.size <= MaxBody

StoreRefused(k, r) == ~Storable(r) /\ UNCHANGED inner

(* The old entry under the key is gone even if the new one is refused. *)
StoreAtCapacity(k, r) ==
    /\ Storable(r)
    /\ inner' = Remove(inner, k)
    /\ Cardinality(DOMAIN inner'.map) >= MaxEntries

(* A body above the whole budget has evicted every entry by now. *)
StoreOverBudget(k, r) ==
    LET freed == Remove(inner, k) IN
    /\ Storable(r)
    /\ Cardinality(DOMAIN freed.map) < MaxEntries
    /\ inner' \in EvictUntilFits(freed, r.size)
    /\ inner'.bytes + r.size > MaxTotal

NewEntry(r, body) ==
    [size |-> r.size, ttl |-> CacheableTtl(r), tags |-> r.tags, age |-> 0, body |-> body]

Insert(i, k, entry) ==
    [map |-> [j \in DOMAIN i.map \cup {k} |-> IF j = k THEN entry ELSE i.map[j]],
     bytes |-> i.bytes + entry.size]

(* Fault: the entry count is compared with > instead of >=. *)
StoreInsertedOneMore(k, r, body) ==
    LET freed == Remove(inner, k) IN
    /\ Storable(r)
    /\ Cardinality(DOMAIN freed.map) <= MaxEntries
    /\ \E e \in EvictUntilFits(freed, r.size) :
          /\ e.bytes + r.size <= MaxTotal
          /\ inner' = Insert(e, k, NewEntry(r, body))

StoreInserted(k, r, body) ==
    LET freed == Remove(inner, k) IN
    /\ Storable(r)
    /\ Cardinality(DOMAIN freed.map) < MaxEntries
    /\ \E e \in EvictUntilFits(freed, r.size) :
          /\ e.bytes + r.size <= MaxTotal
          /\ inner' = Insert(e, k, NewEntry(r, body))

----------------------------------------------------------------------------
(* purge_tag: everything that carries the tag goes, under one lock. *)
PurgeTag(t) == inner' = RemoveAll(inner, {k \in DOMAIN inner.map : t \in inner.map[k].tags})

Clear == inner' = [map |-> <<>>, bytes |-> 0]

Older(e) == [e EXCEPT !.age = IF e.age < MaxAge THEN e.age + 1 ELSE e.age]

Tick == inner' = [inner EXCEPT !.map = [k \in DOMAIN inner.map |-> Older(inner.map[k])]]

Next == \/ \E k \in Keys : LookupHit(k)
        \/ \E k \in Keys : LookupMiss(k)
        \/ \E k \in Keys, r \in Responses : StoreRefused(k, r)
        \/ \E k \in Keys, r \in Responses : StoreAtCapacity(k, r)
        \/ \E k \in Keys, r \in Responses : StoreOverBudget(k, r)
        \/ \E k \in Keys, r \in Responses : StoreInserted(k, r, r)
        \/ \E t \in Tags : PurgeTag(t)
        \/ Clear
        \/ Tick

Spec == Init /\ [][Next]_inner

----------------------------------------------------------------------------
(* max_entries, max_total_bytes and max_body_bytes bound what is stored     *)
(* after every operation.  maybe_store decides by the saturating running    *)
(* total, which must not have drifted from the sum of the bodies, whatever  *)
(* was replaced, evicted, purged or expired before.                         *)
WithinBudgets ==
    /\ Cardinality(DOMAIN inner.map) <= MaxEntries
    /\ TotalSize(inner.map, DOMAIN inner.map) <= MaxTotal
    /\ \A k \in DOMAIN inner.map : inner.map[k].size <= MaxBody

(* A store keeps no entry older than one it evicts, and evicts no more than *)
(* the new body needs.                                                      *)
EvictsInOrder ==
    \A k \in Keys \cap DOMAIN inner'.map :
        LET others == DOMAIN inner.map \ {k}
            kept == others \cap DOMAIN inner'.map
            gone == others \ kept
        IN gone # {} => \A r \in Responses : StoreInserted(k, r, inner'.map[k].body) =>
              /\ \A g \in gone, s \in kept : inner.map[g].age >= inner.map[s].age
              /\ \E g \in gone : TotalSize(inner.map, kept \cup {g}) + r.size > MaxTotal

(* "evict the oldest entries first" (CacheConfig): no step of the store     *)
(* evicts in another order, or more than it needs.                          *)
EvictsOldestAndNoMore == [][EvictsInOrder]_inner
=============================================================================
