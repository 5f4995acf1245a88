--------------------------- MODULE K8sController ---------------------------
(***************************************************************************)
(* The Gateway API controller (pulsate-k8s/src/controller.rs).  Gateways    *)
(* are reconciled one at a time each, and different gateways concurrently.  *)
(* Every pass lists classes, gateways and routes in three awaits, builds    *)
(* the whole configuration and reloads the store, then patches the object   *)
(* it was started for.                                                      *)
(*                                                                          *)
(* The API server and kube-runtime are external: an event puts the gateways *)
(* it concerns on the queue, a requeue puts them there later, and the       *)
(* finalizer helper calls apply or cleanup and edits the finalizer.         *)
(***************************************************************************)
EXTENDS Integers, Sequences, FiniteSetsExt

CONSTANTS Gateways,      \* gateway keys, with [ns, name, class]
          ListenerLists, \* what listeners a gateway may have
          RouteIds,      \* HTTPRoute keys, with [ns, name]
          RouteSpecs,    \* what an HTTPRoute may say
          StartRoutes,   \* the HTTPRoutes there at the start
          MaxEdits,      \* bound: changes to the cluster and calls that fail
          Accepts(_)     \* whether the store accepts the text made of some lists

Absent == [there |-> FALSE]

ASSUME K8sAssumption ==
    StartRoutes \in [RouteIds -> {Absent} \cup [there : {TRUE}, spec : RouteSpecs]]

Idle == [at |-> "idle"]
Nothing == [ours |-> FALSE, gateways |-> {}, routes |-> <<>>]

VARIABLES gws,        \* the Gateway objects
          routes,     \* the HTTPRoute objects
          ours,       \* whether the class "ours" names this controller
          queue,      \* gateways to reconcile now
          timers,     \* gateways to reconcile later
          pass,       \* the reconcile pass of each gateway
          published,  \* what the store's configuration was made of
          installed,  \* history: newest generation of each gateway installed
          edits       \* changes made and calls failed so far

cluster == <<gws, routes, ours>>
kvars == <<gws, routes, ours, queue, timers, pass, published, installed, edits>>

Present(f) == {k \in DOMAIN f : f[k].there}

\* The objects as the API lists them: the gateways, with their generations for
\* the history, and the routes.
Listed(k, listeners, gen) == [key |-> k, ns |-> k.ns, name |-> k.name, class |-> k.class,
                              listeners |-> listeners, gen |-> gen]

ListedGateways == {Listed(k, gws[k].listeners, gws[k].gen) : k \in Present(gws)}

ListedRoutes == [id \in Present(routes) |-> routes[id].spec]

\* What a pass has read, without the generations: all that its text depends on.
Inputs(mine, gateways, rs) ==
    [ours |-> mine, gateways |-> {[g EXCEPT !.gen = 0] : g \in gateways}, routes |-> rs]

NewGateway(ls, gen) == [there |-> TRUE, listeners |-> ls, gen |-> gen, deleting |-> FALSE,
                        finalizer |-> FALSE, observed |-> 0]

K8sInit ==
    /\ \E ls \in ListenerLists : gws = [k \in Gateways |-> NewGateway(ls, 1)]
    /\ routes = StartRoutes
    /\ ours = TRUE
    /\ queue = Gateways
    /\ timers = {}
    /\ pass = [k \in Gateways |-> Idle]
    /\ published = Nothing
    /\ installed = [k \in Gateways |-> 0]
    /\ edits = 0

-----------------------------------------------------------------------------
(* What users do to the cluster.                                            *)

Edited == edits < MaxEdits /\ edits' = edits + 1
          /\ UNCHANGED <<timers, pass, published, installed>>

EditGateway(k, ls) ==
    /\ Edited
    /\ gws[k].there /\ ls # gws[k].listeners
    /\ gws' = [gws EXCEPT ![k].listeners = ls, ![k].gen = @ + 1]
    /\ queue' = queue \cup {k}
    /\ UNCHANGED <<routes, ours>>

\* Deleting an object with a finalizer only marks it.
DeleteGateway(k) ==
    /\ Edited
    /\ gws[k].there /\ ~gws[k].deleting
    /\ gws' = IF gws[k].finalizer THEN [gws EXCEPT ![k].deleting = TRUE]
                                   ELSE [gws EXCEPT ![k] = Absent]
    /\ queue' = queue \cup {k}
    /\ UNCHANGED <<routes, ours>>

\* route_to_gateways: an HTTPRoute event concerns the parents it names.
RouteToGateways(id, spec) ==
    {k \in Gateways : \E p \in Range(spec.parents) :
        k.ns \in (IF p.ns = {} THEN {id.ns} ELSE p.ns) /\ k.name = p.name}

PutRoute(id, spec) ==
    /\ Edited
    /\ routes[id].there => routes[id].spec # spec
    /\ routes' = [routes EXCEPT ![id] = [there |-> TRUE, spec |-> spec]]
    /\ queue' = queue \cup (RouteToGateways(id, spec) \cap Present(gws))
    /\ UNCHANGED <<gws, ours>>

DeleteRoute(id) ==
    /\ Edited
    /\ routes[id].there
    /\ queue' = queue \cup (RouteToGateways(id, routes[id].spec) \cap Present(gws))
    /\ routes' = [routes EXCEPT ![id] = Absent]
    /\ UNCHANGED <<gws, ours>>

\* A class event is mapped to no gateway at all.
EditClass ==
    /\ Edited
    /\ ours' = ~ours
    /\ UNCHANGED <<gws, routes, queue>>

-----------------------------------------------------------------------------
(* A reconcile pass.                                                        *)

(* Fault: the pass ends for good. *)
RequeueNever(k) == pass' = [pass EXCEPT ![k] = Idle] /\ UNCHANGED timers

\* The pass ends and asks to be run again later.
Requeue(k) == /\ pass' = [pass EXCEPT ![k] = Idle]
              /\ timers' = timers \cup {k}

\* A pass that has read nothing yet.
Begun(g) == [at |-> "classes", gen |-> g.gen, cleanup |-> g.deleting,
             ours |-> FALSE, gateways |-> {}, routes |-> <<>>]

\* reconcile, up to the first await of rebuild.  The first pass over a gateway
\* only adds the finalizer, which is an event of its own.  The leader guard is
\* the default one, AlwaysLeader, so no replica is turned away.
Reconcile(k) ==
    LET g == gws[k] IN
    /\ k \in queue /\ pass[k].at = "idle"
    /\ IF ~g.there \/ (g.deleting /\ ~g.finalizer)
       THEN queue' = queue \ {k} /\ UNCHANGED <<gws, pass>>
       ELSE IF ~g.finalizer
       THEN gws' = [gws EXCEPT ![k].finalizer = TRUE] /\ UNCHANGED <<queue, pass>>
       ELSE /\ queue' = queue \ {k}
            /\ pass' = [pass EXCEPT ![k] = Begun(g)]
            /\ UNCHANGED gws
    /\ timers' = timers \ {k}
    /\ UNCHANGED <<routes, ours, published, installed, edits>>

ListClasses(k) ==
    /\ pass[k].at = "classes"
    /\ pass' = [pass EXCEPT ![k].at = "gateways", ![k].ours = ours]
    /\ UNCHANGED <<cluster, queue, timers, published, installed, edits>>

\* A cleanup pass leaves its own gateway out, and no other.
ListGateways(k) ==
    /\ pass[k].at = "gateways"
    /\ pass' = [pass EXCEPT ![k].at = "routes",
                            ![k].gateways = {g \in ListedGateways : pass[k].cleanup => g.key # k}]
    /\ UNCHANGED <<cluster, queue, timers, published, installed, edits>>

ListRoutes(k) ==
    /\ pass[k].at = "routes"
    /\ pass' = [pass EXCEPT ![k].at = "install", ![k].routes = ListedRoutes]
    /\ UNCHANGED <<cluster, queue, timers, published, installed, edits>>

\* What is left of a pass to do once its configuration runs.
Built(p) == [at |-> "patch", gen |-> p.gen, cleanup |-> p.cleanup]

\* History: the newest generation of a gateway installed so far, with these.
Newest(g, gateways) == Max({installed[g]} \cup {x.gen : x \in {y \in gateways : y.key = g}})

\* install: a text that does not compile leaves the store as it is.
Install(k) ==
    LET p == pass[k]
        in == Inputs(p.ours, p.gateways, p.routes)
    IN
    /\ p.at = "install"
    /\ IF Accepts(in)
       THEN /\ published' = in
            /\ installed' = [g \in Gateways |-> Newest(g, p.gateways)]
            /\ pass' = [pass EXCEPT ![k] = Built(p)]
            /\ UNCHANGED timers
       ELSE Requeue(k) /\ UNCHANGED <<published, installed>>
    /\ UNCHANGED <<cluster, queue, edits>>

(* Fault: the status names the generation the object has by now. *)
MarkAcceptedLatest(k) ==
    /\ pass[k].at = "patch" /\ ~pass[k].cleanup
    /\ gws' = IF gws[k].there THEN [gws EXCEPT ![k].observed = gws[k].gen] ELSE gws
    /\ Requeue(k)
    /\ UNCHANGED <<routes, ours, queue, published, installed, edits>>

\* mark_accepted, after apply: the status names the generation of the object
\* the pass was started for.
MarkAccepted(k) ==
    /\ pass[k].at = "patch" /\ ~pass[k].cleanup
    /\ gws' = IF gws[k].there THEN [gws EXCEPT ![k].observed = pass[k].gen] ELSE gws
    /\ Requeue(k)
    /\ UNCHANGED <<routes, ours, queue, published, installed, edits>>

\* After cleanup the finalizer is removed, and with it the object.
RemoveFinalizer(k) ==
    /\ pass[k].at = "patch" /\ pass[k].cleanup
    /\ gws' = [gws EXCEPT ![k] = Absent]
    /\ pass' = [pass EXCEPT ![k] = Idle]
    /\ UNCHANGED <<routes, ours, queue, timers, published, installed, edits>>

\* An API call fails: error_policy runs the pass again later.
ApiFails(k) ==
    /\ pass[k].at \in {"classes", "gateways", "routes", "patch"}
    /\ edits < MaxEdits /\ edits' = edits + 1
    /\ Requeue(k)
    /\ UNCHANGED <<cluster, queue, published, installed>>

TimerFires(k) ==
    /\ k \in timers
    /\ timers' = timers \ {k}
    /\ queue' = queue \cup {k}
    /\ UNCHANGED <<cluster, pass, published, installed, edits>>

Pass(k) == Reconcile(k) \/ ListClasses(k) \/ ListGateways(k) \/ ListRoutes(k)
           \/ Install(k) \/ MarkAccepted(k) \/ RemoveFinalizer(k)

K8sNext ==
    \/ \E k \in Gateways : Pass(k) \/ ApiFails(k) \/ TimerFires(k) \/ DeleteGateway(k)
    \/ \E k \in Gateways, ls \in ListenerLists : EditGateway(k, ls)
    \/ \E id \in RouteIds : DeleteRoute(id)
    \/ \E id \in RouteIds, spec \in RouteSpecs : PutRoute(id, spec)
    \/ EditClass

K8sSpec == K8sInit /\ [][K8sNext]_kvars

\* The runtime works its queue off and its timers fire.
K8sFairSpec == K8sSpec /\ \A k \in Gateways : WF_kvars(Pass(k)) /\ WF_kvars(TimerFires(k))

-----------------------------------------------------------------------------
\* A status that says generation n of a gateway was accepted is true: a
\* configuration built from that generation or a newer one has been installed,
\* although the status is written after the list was read, concurrently with
\* edits and with passes for other gateways.
StatusIsEarned == \A k \in Present(gws) : gws[k].observed <= installed[k]

Current == Inputs(ours, ListedGateways, ListedRoutes)

\* Once the cluster stops changing, and as long as a gateway is left, what the
\* store runs becomes and stays the translation of the cluster: passes that
\* read old lists and install last, failed calls and unmapped class changes are
\* all made good by the requeue.  A document that does not parse is exempt.
Converges == <>[](Present(gws) # {} => published = Current \/ ~Accepts(Current))
=============================================================================
