---------------------------- MODULE MCCachedRoute ----------------------------
(* Instances of CachedRoute for TLC. *)
EXTENDS CachedRoute

CONSTANT StoreKeys  \* keys that no request of the route has

Symmetry == Permutations(Workers)

(* The accept header is a configured vary dimension, the user header is not.*)
Ask(accept, user, origin) ==
    [method |-> "GET", target |-> "/", headers |-> [accept |-> accept, user |-> user],
     origin |-> origin, nostore |-> FALSE, routed |-> TRUE, ingress |-> "passes"]

Page(vary, cc, maxage) ==
    [status |-> 200, cookie |-> FALSE, vary |-> vary, cc |-> cc,
     maxage |-> maxage, size |-> 1, tags |-> {"a"}]

(* Requests that differ in each header, and some that never reach the cache. *)
MCRequests == {Ask(1, 1, "o1"), Ask(2, 1, "o1"), Ask(1, 2, "o1"),
               [Ask(1, 1, "o1") EXCEPT !.routed = FALSE],
               [Ask(1, 1, "o1") EXCEPT !.nostore = TRUE],
               [Ask(1, 1, "o1") EXCEPT !.ingress = "preflight"],
               [Ask(1, 1, "o1") EXCEPT !.ingress = "blocked"]}

(* Responses that vary on each header, one that is not to be shared and one *)
(* larger than the cache.                                                   *)
MCAnswers == {[Page({"accept"}, {}, Unset) EXCEPT !.size = 2], Page({"user"}, {}, 0),
              [Page({}, {"private"}, 0) EXCEPT !.cookie = TRUE],
              [Page({}, {}, 0) EXCEPT !.size = 3]}
MCKeys == {Key(q) : q \in MCRequests} \cup StoreKeys

(* Two allowed origins ask for one resource. *)
MCOrigins == {Ask(1, 1, "o1"), Ask(1, 1, "o2")}
MCOriginKeys == {Key(q) : q \in MCOrigins}
MCShared == {Page({}, {}, 1)}

----------------------------------------------------------------------------
(* A behaviour is one of the route's, or one of the store under any         *)
(* sequence of calls.                                                       *)
VARIABLE alone

Body(size, maxage, tags) == [Page({}, {}, maxage) EXCEPT !.size = size, !.tags = tags]

(* What the route stores; empty, small and large bodies, one above the      *)
(* whole budget, one above the body limit, and one that may not be cached.  *)
MCResponses == MCAnswers \cup
               {Body(0, 1, {"a"}), Body(1, Unset, {}), Body(2, 0, {"a"}), Body(4, 1, {}),
                [Body(1, 1, {}) EXCEPT !.status = 404]}

MCInit == RouteInit /\ alone \in BOOLEAN

MCNext == \/ /\ alone /\ Next /\ DOMAIN inner'.map \subseteq StoreKeys
             /\ UNCHANGED <<pc, req, resp, alone>>
          \/ ~alone /\ RouteNext /\ UNCHANGED alone

MCSpec == MCInit /\ [][MCNext]_<<vars, alone>>
=============================================================================
