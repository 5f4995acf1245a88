------------------------ MODULE ConfigurationProofs -------------------------
(***************************************************************************)
(* Proofs about the two ways configuration comes in: the Gateway API       *)
(* controller, for any gateways, routes, classes and order of events, and  *)
(* the lexer of Flow text, for texts of any length.                        *)
(*                                                                         *)
(* The controller's inductive invariant says what a pass in progress has   *)
(* in hand and since when, so that the status it writes last was earned by *)
(* what it read.                                                           *)
(*                                                                         *)
(* The lexer's says of its own state what the property says of the tokens: *)
(* pos is where the last token ends, and line and col are those of the     *)
(* byte at pos.  That each loop stops past where it began and within the   *)
(* text rests on the least element of a set of positions.                  *)
(***************************************************************************)
EXTENDS K8sController, Lexing, FiniteSetTheorems, NaturalsInduction, WellFoundedInduction,
        TLAPS

(* The Gateway API controller *)

LiveGateways == [there : {TRUE}, listeners : ListenerLists, gen : Nat, deleting : BOOLEAN,
                 finalizer : BOOLEAN, observed : Nat]

RouteLists == UNION {[D -> RouteSpecs] : D \in SUBSET RouteIds}

\* What a pass may have listed: each gateway once.
Lists == {L \in SUBSET {Listed(k, ls, gen) : k \in Gateways, ls \in ListenerLists, gen \in Nat} :
             \A x, y \in L : x.key = y.key => x = y}

Reading == [at : {"classes", "gateways", "routes", "install"}, gen : Nat, cleanup : BOOLEAN,
            ours : BOOLEAN, gateways : Lists, routes : RouteLists]
Patching == [at : {"patch"}, gen : Nat, cleanup : BOOLEAN]

ControllerTypes ==
    /\ gws \in [Gateways -> {Absent} \cup LiveGateways]
    /\ routes \in [RouteIds -> {Absent} \cup [there : {TRUE}, spec : RouteSpecs]]
    /\ ours \in BOOLEAN
    /\ pass \in [Gateways -> {Idle} \cup Reading \cup Patching]
    /\ installed \in [Gateways -> Nat]

\* The object a pass that applies was started for stays: only the cleanup pass
\* of the same gateway removes it.
ObjectStays(k) ==
    pass[k].at # "idle" /\ ~pass[k].cleanup =>
        gws[k].there /\ gws[k].finalizer /\ pass[k].gen <= gws[k].gen

\* The list it read later has that object in its generation or a newer one.
ListedSince(k) ==
    pass[k].at \in {"routes", "install"} /\ ~pass[k].cleanup =>
        \E x \in pass[k].gateways : x.key = k /\ pass[k].gen <= x.gen

\* What is about to be written to the status has been installed.
InstalledSince(k) ==
    pass[k].at = "patch" /\ ~pass[k].cleanup => pass[k].gen <= installed[k]

Earned(k) == gws[k].there => gws[k].observed <= installed[k]

Known(k) == ObjectStays(k) /\ ListedSince(k) /\ InstalledSince(k) /\ Earned(k)

Passes == \A k \in Gateways : Known(k)

KInv == ControllerTypes /\ Passes
-----------------------------------------------------------------------------
\* The newest of what was installed and what is being installed: a list has one
\* generation of a gateway at most.
LEMMA NewestIsNewest ==
    ASSUME ControllerTypes, NEW L \in Lists, NEW k \in Gateways
    PROVE  /\ Newest(k, L) \in Nat
           /\ installed[k] <= Newest(k, L)
           /\ \A x \in L : x.key = k => x.gen <= Newest(k, L)
<1> DEFINE G == {x.gen : x \in {y \in L : y.key = k}}
<1>1. installed[k] \in Nat
  BY DEF ControllerTypes
<1>2. \A x \in L : x.gen \in Nat
  BY DEF Lists, Listed
<1>3. CASE \E x \in L : x.key = k
  <2>1. PICK x \in L : x.key = k
    BY <1>3
  <2>2. \A y \in L : y.key = k => y = x
    BY <2>1 DEF Lists
  <2>3. G = {x.gen}
    BY <2>1, <2>2, Zenon
  <2>4. Newest(k, L) = Max({installed[k], x.gen})
    BY <2>3, Zenon DEF Newest
  <2>5. x.gen \in Nat
    BY <1>2
  <2>6. Newest(k, L) \in {installed[k], x.gen} /\ installed[k] <= Newest(k, L) /\ x.gen <= Newest(k, L)
    <3>1. CASE installed[k] <= x.gen
      BY <1>1, <2>4, <2>5, <3>1 DEF Max
    <3>2. CASE x.gen <= installed[k]
      BY <1>1, <2>4, <2>5, <3>2 DEF Max
    <3> QED
      BY <1>1, <2>5, <3>1, <3>2
  <2> QED
    BY <1>1, <2>2, <2>5, <2>6
<1>4. CASE ~ \E x \in L : x.key = k
  <2>1. G = {}
    BY <1>4, Zenon
  <2>2. Newest(k, L) = Max({installed[k]})
    BY <2>1, Zenon DEF Newest
  <2>3. Max({installed[k]}) = installed[k]
    BY <1>1 DEF Max
  <2> QED
    BY <1>1, <1>4, <2>2, <2>3
<1> QED
  BY <1>3, <1>4

\* An object that is there has its fields.
LEMMA LiveFields ==
    ASSUME ControllerTypes, NEW k \in Gateways
    PROVE  /\ gws[k].there <=> gws[k] \in LiveGateways
           /\ ~gws[k].there <=> gws[k] = Absent
           /\ gws[k] \in LiveGateways => gws[k].gen \in Nat /\ gws[k].observed \in Nat
                                        /\ gws[k].listeners \in ListenerLists
<1>1. gws[k] \in {Absent} \cup LiveGateways
  BY DEF ControllerTypes
<1>2. gws[k] = Absent => gws[k].there = FALSE
  BY DEF Absent
<1>3. gws[k] \in LiveGateways => gws[k].there = TRUE
  BY Zenon DEF LiveGateways
<1>4. gws[k] \in LiveGateways => gws[k].gen \in Nat /\ gws[k].observed \in Nat
                                        /\ gws[k].listeners \in ListenerLists
  BY Zenon DEF LiveGateways
<1> QED
  BY <1>1, <1>2, <1>3, <1>4, Zenon

\* What a pass that is not idle knows of itself.
LEMMA PassFields ==
    ASSUME ControllerTypes, NEW k \in Gateways
    PROVE  /\ pass[k].at = "idle" <=> pass[k] = Idle
           /\ pass[k].at = "patch" <=> pass[k] \in Patching
           /\ pass[k].at \notin {"idle", "patch"} <=> pass[k] \in Reading
           /\ pass[k].at # "idle" => pass[k].gen \in Nat /\ pass[k].cleanup \in BOOLEAN
<1>1. pass[k] \in {Idle} \cup Reading \cup Patching
  BY DEF ControllerTypes
<1>2. pass[k] = Idle => pass[k].at = "idle"
  BY DEF Idle
<1>3. pass[k] \in Reading => /\ pass[k].at \in {"classes", "gateways", "routes", "install"}
                             /\ pass[k].gen \in Nat /\ pass[k].cleanup \in BOOLEAN
  BY DEF Reading
<1>4. pass[k] \in Patching => /\ pass[k].at = "patch"
                              /\ pass[k].gen \in Nat /\ pass[k].cleanup \in BOOLEAN
  BY DEF Patching
<1> QED
  BY <1>1, <1>2, <1>3, <1>4

\* The API lists each gateway that is there once.
LEMMA ListsOnce ==
    ASSUME ControllerTypes, NEW S \in SUBSET ListedGateways
    PROVE  S \in Lists
<1>1. \A k \in Present(gws) : k \in Gateways /\ gws[k].listeners \in ListenerLists /\ gws[k].gen \in Nat
  <2>1. DOMAIN gws = Gateways
    BY DEF ControllerTypes
  <2> QED
    BY <2>1, LiveFields, Zenon DEF Present
<1>2. \A x \in S : \E k \in Present(gws) : x = Listed(k, gws[k].listeners, gws[k].gen)
  BY DEF ListedGateways
<1>3. \A x \in S : x.key \in Present(gws) /\ x = Listed(x.key, gws[x.key].listeners, gws[x.key].gen)
  BY <1>2 DEF Listed
<1>4. S \in SUBSET {Listed(k, ls, gen) : k \in Gateways, ls \in ListenerLists, gen \in Nat}
  BY <1>1, <1>3
<1>5. \A x, y \in S : x.key = y.key => x = y
  BY <1>3, Zenon
<1> QED
  BY <1>4, <1>5 DEF Lists

\* A step that leaves the pass of a gateway, its object and what is installed of
\* it alone, or only makes the last two newer, keeps what is known of it.
LEMMA PassKept ==
    ASSUME KInv, NEW k \in Gateways, pass'[k] = pass[k],
           gws[k].there => /\ gws'[k].there
                           /\ gws[k].finalizer => gws'[k].finalizer
                           /\ gws'[k].observed = gws[k].observed
                           /\ gws'[k].gen \in Nat /\ gws[k].gen <= gws'[k].gen,
           gws'[k].there => gws[k].there,
           installed'[k] \in Nat, installed[k] <= installed'[k]
    PROVE  Known(k)'
<1>0. /\ ObjectStays(k) /\ ListedSince(k) /\ InstalledSince(k) /\ Earned(k)
      /\ ControllerTypes
  BY Zenon DEF KInv, Passes, Known
<1>1. /\ installed[k] \in Nat
      /\ gws[k].there => gws[k].gen \in Nat /\ gws[k].observed \in Nat
      /\ pass[k].at # "idle" => pass[k].gen \in Nat
  BY <1>0, LiveFields, PassFields, Zenon DEF ControllerTypes
<1>2. ObjectStays(k)'
  BY <1>0, <1>1 DEF ObjectStays
<1>3. ListedSince(k)'
  BY <1>0, Zenon DEF ListedSince
<1>4. InstalledSince(k)'
  BY <1>0, <1>1 DEF InstalledSince
<1>5. Earned(k)'
  BY <1>0, <1>1 DEF Earned
<1> QED
  BY <1>2, <1>3, <1>4, <1>5, Zenon DEF Known

-----------------------------------------------------------------------------
\* The types are inductive.
LEMMA ControllerTypesStep == ControllerTypes /\ [K8sNext]_kvars => ControllerTypes'
<1> SUFFICES ASSUME ControllerTypes, [K8sNext]_kvars PROVE ControllerTypes'
  OBVIOUS
<1>0. /\ gws \in [Gateways -> {Absent} \cup LiveGateways]
      /\ routes \in [RouteIds -> {Absent} \cup [there : {TRUE}, spec : RouteSpecs]]
      /\ ours \in BOOLEAN
      /\ pass \in [Gateways -> {Idle} \cup Reading \cup Patching]
      /\ installed \in [Gateways -> Nat]
  BY Zenon DEF ControllerTypes
<1>1. ASSUME NEW k \in Gateways, Pass(k) PROVE ControllerTypes'
  <2>1. CASE Reconcile(k)
    <3>1. UNCHANGED <<routes, ours, installed>>
      BY <2>1, Zenon DEF Reconcile
    <3>2. gws' \in [Gateways -> {Absent} \cup LiveGateways]
      <4>1. CASE gws' = gws
        BY <1>0, <4>1
      <4>2. CASE gws[k].there /\ gws' = [gws EXCEPT ![k].finalizer = TRUE]
        <5>1. gws[k] \in LiveGateways
          BY <4>2, LiveFields, Zenon
        <5>2. [gws[k] EXCEPT !.finalizer = TRUE] \in LiveGateways
          BY <5>1, Zenon DEF LiveGateways
        <5> QED
          BY <1>0, <4>2, <5>2
      <4> QED
        BY <2>1, <4>1, <4>2, Zenon DEF Reconcile
    <3>3. pass' \in [Gateways -> {Idle} \cup Reading \cup Patching]
      <4>1. CASE pass' = pass
        BY <1>0, <4>1
      <4>2. CASE gws[k].there /\ pass' = [pass EXCEPT ![k] = Begun(gws[k])]
        <5>1. gws[k] \in LiveGateways
          BY <4>2, LiveFields, Zenon
        <5>2. gws[k].gen \in Nat /\ gws[k].deleting \in BOOLEAN
          BY <5>1, Zenon DEF LiveGateways
        <5>3. {} \in Lists
          BY DEF Lists
        <5>4. << >> \in RouteLists
          <6>1. << >> \in [{} -> RouteSpecs]
            OBVIOUS
          <6> QED
            BY <6>1 DEF RouteLists
        <5>5. Begun(gws[k]) \in Reading
          BY <5>2, <5>3, <5>4 DEF Begun, Reading
        <5> QED
          BY <1>0, <4>2, <5>5
      <4> QED
        BY <2>1, <4>1, <4>2, Zenon DEF Reconcile
    <3> QED
      BY <1>0, <3>1, <3>2, <3>3, Zenon DEF ControllerTypes
  <2>2. CASE ListClasses(k)
    <3>1. pass[k] \in Reading
      BY <2>2, PassFields DEF ListClasses
    <3>2. [pass[k] EXCEPT !.at = "gateways", !.ours = ours] \in Reading
      BY <1>0, <3>1, Zenon DEF Reading
    <3>3. pass' = [pass EXCEPT ![k] = [pass[k] EXCEPT !.at = "gateways", !.ours = ours]]
      BY <2>2, <1>0, Zenon DEF ListClasses
    <3>4. UNCHANGED <<gws, routes, ours, installed>>
      BY <2>2, Zenon DEF ListClasses, cluster
    <3> QED
      BY <1>0, <3>2, <3>3, <3>4, Zenon DEF ControllerTypes
  <2>3. CASE ListGateways(k)
    <3> DEFINE S == {g \in ListedGateways : pass[k].cleanup => g.key # k}
    <3>1. pass[k] \in Reading
      BY <2>3, PassFields DEF ListGateways
    <3>2. S \in Lists
      BY ListsOnce
    <3>3. [pass[k] EXCEPT !.at = "routes", !.gateways = S] \in Reading
      BY <3>1, <3>2, Zenon DEF Reading
    <3>4. pass' = [pass EXCEPT ![k] = [pass[k] EXCEPT !.at = "routes", !.gateways = S]]
      BY <2>3, <1>0, Zenon DEF ListGateways
    <3>5. UNCHANGED <<gws, routes, ours, installed>>
      BY <2>3, Zenon DEF ListGateways, cluster
    <3> QED
      BY <1>0, <3>3, <3>4, <3>5, Zenon DEF ControllerTypes
  <2>4. CASE ListRoutes(k)
    <3>1. pass[k] \in Reading
      BY <2>4, PassFields DEF ListRoutes
    <3>2. ListedRoutes \in RouteLists
      <4>1. \A id \in Present(routes) : id \in RouteIds /\ routes[id].spec \in RouteSpecs
        <5> SUFFICES ASSUME NEW id \in Present(routes)
                     PROVE  id \in RouteIds /\ routes[id].spec \in RouteSpecs
          OBVIOUS
        <5>1. id \in RouteIds /\ routes[id].there
          BY <1>0 DEF Present
        <5>2. routes[id] # Absent
          <6>1. Absent.there = FALSE
            BY DEF Absent
          <6> QED
            BY <5>1, <6>1, Zenon
        <5>3. routes[id] \in [there : {TRUE}, spec : RouteSpecs]
          BY <1>0, <5>1, <5>2, Zenon
        <5> QED
          BY <5>1, <5>3, Zenon
      <4>2. ListedRoutes \in [Present(routes) -> RouteSpecs]
        BY <4>1 DEF ListedRoutes
      <4> QED
        BY <4>1, <4>2, Zenon DEF RouteLists
    <3>3. [pass[k] EXCEPT !.at = "install", !.routes = ListedRoutes] \in Reading
      BY <3>1, <3>2, Zenon DEF Reading
    <3>4. pass' = [pass EXCEPT ![k] = [pass[k] EXCEPT !.at = "install", !.routes = ListedRoutes]]
      BY <2>4, <1>0, Zenon DEF ListRoutes
    <3>5. UNCHANGED <<gws, routes, ours, installed>>
      BY <2>4, Zenon DEF ListRoutes, cluster
    <3> QED
      BY <1>0, <3>3, <3>4, <3>5, Zenon DEF ControllerTypes
  <2>5. CASE Install(k)
    <3>1. pass[k] \in Reading
      BY <2>5, PassFields DEF Install
    <3>2. pass[k].gateways \in Lists /\ Built(pass[k]) \in Patching
      BY <3>1 DEF Reading, Patching, Built
    <3>3. installed' \in [Gateways -> Nat]
      <4>1. CASE installed' = [g \in Gateways |-> Newest(g, pass[k].gateways)]
        <5>1. \A g \in Gateways : Newest(g, pass[k].gateways) \in Nat
          BY <3>2, NewestIsNewest
        <5> QED
          BY <4>1, <5>1
      <4> QED
        BY <1>0, <2>5, <4>1 DEF Install
    <3>4. pass' = [pass EXCEPT ![k] = Built(pass[k])] \/ pass' = [pass EXCEPT ![k] = Idle]
      BY <2>5, Zenon DEF Install, Requeue
    <3>5. UNCHANGED <<gws, routes, ours>>
      BY <2>5, Zenon DEF Install, cluster
    <3> QED
      BY <1>0, <3>2, <3>3, <3>4, <3>5, Zenon DEF ControllerTypes
  <2>6. CASE MarkAccepted(k)
    <3>1. gws' \in [Gateways -> {Absent} \cup LiveGateways]
      <4>1. CASE gws[k].there /\ gws' = [gws EXCEPT ![k].observed = pass[k].gen]
        <5>1. gws[k] \in LiveGateways
          BY <4>1, LiveFields, Zenon
        <5>2. pass[k].gen \in Nat
          BY <2>6, PassFields DEF MarkAccepted
        <5>3. [gws[k] EXCEPT !.observed = pass[k].gen] \in LiveGateways
          BY <5>1, <5>2, Zenon DEF LiveGateways
        <5> QED
          BY <1>0, <4>1, <5>3
      <4> QED
        BY <1>0, <2>6, <4>1, Zenon DEF MarkAccepted
    <3>2. pass' = [pass EXCEPT ![k] = Idle] /\ UNCHANGED <<routes, ours, installed>>
      BY <2>6, Zenon DEF MarkAccepted, Requeue
    <3> QED
      BY <1>0, <3>1, <3>2, Zenon DEF ControllerTypes
  <2>7. CASE RemoveFinalizer(k)
    BY <1>0, <2>7, Zenon DEF RemoveFinalizer, ControllerTypes
  <2> QED
    BY <1>1, <2>1, <2>2, <2>3, <2>4, <2>5, <2>6, <2>7 DEF Pass
<1>2. ASSUME NEW k \in Gateways, ApiFails(k) \/ TimerFires(k) PROVE ControllerTypes'
  BY <1>0, <1>2, Zenon DEF ApiFails, TimerFires, Requeue, cluster, ControllerTypes
<1>3. ASSUME NEW k \in Gateways, DeleteGateway(k) PROVE ControllerTypes'
  <2>1. gws[k] \in LiveGateways
    BY <1>3, LiveFields, Zenon DEF DeleteGateway
  <2>2. [gws[k] EXCEPT !.deleting = TRUE] \in LiveGateways
    BY <2>1, Zenon DEF LiveGateways
  <2>3. UNCHANGED <<routes, ours, pass, installed>>
    BY <1>3, Zenon DEF DeleteGateway, Edited
  <2>4. gws' = [gws EXCEPT ![k] = [gws[k] EXCEPT !.deleting = TRUE]] \/ gws' = [gws EXCEPT ![k] = Absent]
    BY <1>0, <1>3 DEF DeleteGateway
  <2> QED
    BY <1>0, <2>2, <2>3, <2>4, Zenon DEF ControllerTypes
<1>4. ASSUME NEW k \in Gateways, NEW ls \in ListenerLists, EditGateway(k, ls) PROVE ControllerTypes'
  <2>1. gws[k] \in LiveGateways
    BY <1>4, LiveFields, Zenon DEF EditGateway
  <2>2. [gws[k] EXCEPT !.listeners = ls, !.gen = gws[k].gen + 1] \in LiveGateways
    <3>0. gws[k].gen \in Nat
      BY <2>1, Zenon DEF LiveGateways
    <3>1. gws[k].gen + 1 \in Nat
      BY <3>0
    <3> QED
      BY <2>1, <3>1, Zenon DEF LiveGateways
  <2>3. UNCHANGED <<routes, ours, pass, installed>>
    BY <1>4, Zenon DEF EditGateway, Edited
  <2>4. gws' = [gws EXCEPT ![k] = [gws[k] EXCEPT !.listeners = ls, !.gen = gws[k].gen + 1]]
    BY <1>0, <1>4, Zenon DEF EditGateway
  <2> QED
    BY <1>0, <2>2, <2>3, <2>4, Zenon DEF ControllerTypes
<1>5. ASSUME NEW id \in RouteIds, DeleteRoute(id) PROVE ControllerTypes'
  BY <1>0, <1>5, Zenon DEF DeleteRoute, Edited, ControllerTypes
<1>6. ASSUME NEW id \in RouteIds, NEW spec \in RouteSpecs, PutRoute(id, spec) PROVE ControllerTypes'
  BY <1>0, <1>6, Zenon DEF PutRoute, Edited, ControllerTypes
<1>7. CASE EditClass
  BY <1>0, <1>7, Zenon DEF EditClass, Edited, ControllerTypes
<1>8. CASE UNCHANGED kvars
  BY <1>0, <1>8, Zenon DEF kvars, ControllerTypes
<1> QED
  BY <1>1, <1>2, <1>3, <1>4, <1>5, <1>6, <1>7, <1>8, Zenon DEF K8sNext

\* A step that does not concern a gateway keeps what is known of it.
LEMMA OthersKept ==
    ASSUME KInv, NEW k \in Gateways, pass'[k] = pass[k], gws'[k] = gws[k],
           installed'[k] = installed[k]
    PROVE  Known(k)'
<1>1. /\ gws[k].there => gws[k].gen \in Nat
      /\ installed[k] \in Nat
  BY LiveFields, Zenon DEF KInv, ControllerTypes
<1> QED
  BY <1>1, PassKept

\* So does the end of a pass, or a step of it, if the object stays.
LEMMA IdleKnown ==
    ASSUME NEW k \in Gateways, pass'[k] = Idle, Earned(k)'
    PROVE  Known(k)'
<1>1. pass'[k].at = "idle"
  BY DEF Idle
<1> QED
  BY <1>1 DEF Known, ObjectStays, ListedSince, InstalledSince

\* What is known of the passes is inductive.
LEMMA PassesStep == KInv /\ [K8sNext]_kvars => Passes'
<1> SUFFICES ASSUME KInv, [K8sNext]_kvars, NEW j \in Gateways PROVE Known(j)'
  BY DEF Passes
<1>0. ControllerTypes /\ Known(j)
  BY DEF KInv, Passes
<1>00. DOMAIN gws = Gateways /\ DOMAIN pass = Gateways
  BY <1>0 DEF ControllerTypes
<1>1. ASSUME NEW k \in Gateways, Reconcile(k) PROVE Known(j)'
  <2>1. UNCHANGED installed
    BY <1>1, Zenon DEF Reconcile
  <2>2. CASE UNCHANGED <<gws, pass>>
    BY <2>1, <2>2, OthersKept
  <2>3. CASE gws[k].there /\ gws' = [gws EXCEPT ![k].finalizer = TRUE] /\ pass' = pass
    <3>1. gws[k] \in LiveGateways
      BY <1>0, <2>3, LiveFields, Zenon
    <3>2. CASE j = k
      <4>1. gws'[j] = [gws[j] EXCEPT !.finalizer = TRUE]
        BY <1>00, <2>3, <3>2
      <4>2. /\ gws'[j].there /\ gws'[j].finalizer /\ gws'[j].observed = gws[j].observed
            /\ gws'[j].gen = gws[j].gen /\ gws[j].gen \in Nat
        BY <3>1, <3>2, <4>1, Zenon DEF LiveGateways
      <4>3. installed[j] \in Nat
        BY <1>0 DEF ControllerTypes
      <4> QED
        BY <2>1, <2>3, <3>2, <4>2, <4>3, PassKept
    <3>3. CASE j # k
      BY <1>00, <2>1, <2>3, <3>3, OthersKept
    <3> QED
      BY <3>2, <3>3
  <2>4. CASE gws[k].there /\ gws[k].finalizer /\ gws' = gws /\ pass' = [pass EXCEPT ![k] = Begun(gws[k])]
    <3>1. CASE j = k
      <4>1. pass'[j] = Begun(gws[j])
        BY <1>00, <2>4, <3>1
      <4>2. pass'[j].at = "classes" /\ pass'[j].gen = gws[j].gen
        BY <4>1 DEF Begun
      <4>3. gws[j].gen \in Nat
        BY <1>0, <2>4, <3>1, LiveFields, Zenon
      <4>4. ObjectStays(j)'
        BY <2>4, <3>1, <4>2, <4>3 DEF ObjectStays
      <4>5. Earned(j)'
        BY <1>0, <2>1, <2>4, Zenon DEF Known, Earned
      <4> QED
        BY <4>2, <4>4, <4>5 DEF Known, ListedSince, InstalledSince
    <3>2. CASE j # k
      BY <1>00, <2>1, <2>4, <3>2, OthersKept
    <3> QED
      BY <3>1, <3>2
  <2> QED
    BY <1>1, <2>2, <2>3, <2>4, Zenon DEF Reconcile
<1>2. ASSUME NEW k \in Gateways, ListClasses(k) PROVE Known(j)'
  <2>1. UNCHANGED <<gws, installed>> /\ pass[k].at = "classes"
    BY <1>2, Zenon DEF ListClasses, cluster
  <2>2. CASE j = k
    <3>1. pass[j] \in Reading
      BY <1>0, <2>1, <2>2, PassFields
    <3>2. pass'[j] = [pass[j] EXCEPT !.at = "gateways", !.ours = ours]
      BY <1>2, <1>00, <2>2 DEF ListClasses
    <3>3. pass'[j].at = "gateways" /\ pass'[j].gen = pass[j].gen /\ pass'[j].cleanup = pass[j].cleanup
      BY <3>1, <3>2 DEF Reading
    <3>4. ObjectStays(j)' /\ Earned(j)'
      BY <1>0, <2>1, <2>2, <3>3 DEF Known, ObjectStays, Earned
    <3> QED
      BY <3>3, <3>4 DEF Known, ListedSince, InstalledSince
  <2>3. CASE j # k
    <3>1. pass'[j] = pass[j]
      BY <1>2, <1>00, <2>3 DEF ListClasses
    <3> QED
      BY <2>1, <3>1, OthersKept
  <2> QED
    BY <2>2, <2>3
<1>3. ASSUME NEW k \in Gateways, ListGateways(k) PROVE Known(j)'
  <2> DEFINE S == {g \in ListedGateways : pass[k].cleanup => g.key # k}
  <2>1. UNCHANGED <<gws, installed>> /\ pass[k].at = "gateways"
    BY <1>3, Zenon DEF ListGateways, cluster
  <2>2. CASE j = k
    <3>1. pass[j] \in Reading
      BY <1>0, <2>1, <2>2, PassFields
    <3>2. pass'[j] = [pass[j] EXCEPT !.at = "routes", !.gateways = S]
      BY <1>3, <1>00, <2>2 DEF ListGateways
    <3>3. /\ pass'[j].at = "routes" /\ pass'[j].gen = pass[j].gen /\ pass'[j].cleanup = pass[j].cleanup
          /\ pass'[j].gateways = S
      BY <3>1, <3>2 DEF Reading
    <3>4. ObjectStays(j)' /\ Earned(j)'
      BY <1>0, <2>1, <2>2, <3>3 DEF Known, ObjectStays, Earned
    <3>5. ListedSince(j)'
      <4> SUFFICES ASSUME ~pass[j].cleanup PROVE \E x \in S : x.key = j /\ pass[j].gen <= x.gen
        BY <3>3, Zenon DEF ListedSince
      <4> DEFINE x == Listed(j, gws[j].listeners, gws[j].gen)
      <4>1. gws[j].there /\ pass[j].gen <= gws[j].gen
        BY <1>0, <2>1, <2>2 DEF Known, ObjectStays
      <4>2. x \in ListedGateways
        BY <1>00, <4>1, Zenon DEF ListedGateways, Present
      <4>3. x.key = j /\ x.gen = gws[j].gen
        BY DEF Listed
      <4>4. x \in S
        BY <2>2, <4>2, Zenon
      <4> QED
        BY <4>1, <4>3, <4>4, Zenon
    <3> QED
      BY <3>3, <3>4, <3>5 DEF Known, InstalledSince
  <2>3. CASE j # k
    <3>1. pass'[j] = pass[j]
      BY <1>3, <1>00, <2>3 DEF ListGateways
    <3> QED
      BY <2>1, <3>1, OthersKept
  <2> QED
    BY <2>2, <2>3
<1>4. ASSUME NEW k \in Gateways, ListRoutes(k) PROVE Known(j)'
  <2>1. UNCHANGED <<gws, installed>> /\ pass[k].at = "routes"
    BY <1>4, Zenon DEF ListRoutes, cluster
  <2>2. CASE j = k
    <3>1. pass[j] \in Reading
      BY <1>0, <2>1, <2>2, PassFields
    <3>2. pass'[j] = [pass[j] EXCEPT !.at = "install", !.routes = ListedRoutes]
      BY <1>4, <1>00, <2>2 DEF ListRoutes
    <3>3. /\ pass'[j].at = "install" /\ pass'[j].gen = pass[j].gen /\ pass'[j].cleanup = pass[j].cleanup
          /\ pass'[j].gateways = pass[j].gateways
      BY <3>1, <3>2 DEF Reading
    <3>4. ObjectStays(j)' /\ Earned(j)'
      BY <1>0, <2>1, <2>2, <3>3 DEF Known, ObjectStays, Earned
    <3>5. ListedSince(j)'
      BY <1>0, <2>1, <2>2, <3>3, Zenon DEF Known, ListedSince
    <3> QED
      BY <3>3, <3>4, <3>5 DEF Known, InstalledSince
  <2>3. CASE j # k
    <3>1. pass'[j] = pass[j]
      BY <1>4, <1>00, <2>3 DEF ListRoutes
    <3> QED
      BY <2>1, <3>1, OthersKept
  <2> QED
    BY <2>2, <2>3
<1>5. ASSUME NEW k \in Gateways, Install(k) PROVE Known(j)'
  <2>1. gws' = gws /\ pass[k].at = "install"
    BY <1>5, Zenon DEF Install, cluster
  <2>2. pass[k] \in Reading
    BY <1>0, <2>1, PassFields
  <2>3. pass[k].gateways \in Lists
    BY <2>2 DEF Reading
  <2>4. /\ installed[j] \in Nat
        /\ gws[j].there => gws[j].gen \in Nat /\ gws[j].observed \in Nat
        /\ pass[j].at # "idle" => pass[j].gen \in Nat
    BY <1>0, LiveFields, PassFields, Zenon DEF ControllerTypes
  <2>5. CASE /\ installed' = [g \in Gateways |-> Newest(g, pass[k].gateways)]
             /\ pass' = [pass EXCEPT ![k] = Built(pass[k])]
    <3>1. installed'[j] = Newest(j, pass[k].gateways)
      BY <2>5
    <3>2. /\ installed'[j] \in Nat /\ installed[j] <= installed'[j]
          /\ \A x \in pass[k].gateways : x.key = j => x.gen <= installed'[j]
      BY <1>0, <2>3, <3>1, NewestIsNewest
    <3>3. CASE j # k
      BY <1>00, <2>1, <2>4, <2>5, <3>2, <3>3, PassKept
    <3>4. CASE j = k
      <4>1. pass'[j] = Built(pass[j])
        BY <1>00, <2>5, <3>4
      <4>2. pass'[j].at = "patch" /\ pass'[j].gen = pass[j].gen /\ pass'[j].cleanup = pass[j].cleanup
        BY <4>1 DEF Built
      <4>3. ObjectStays(j)'
        BY <1>0, <2>1, <3>4, <4>2 DEF Known, ObjectStays
      <4>4. Earned(j)'
        BY <1>0, <2>1, <2>4, <3>2 DEF Known, Earned
      <4>5. InstalledSince(j)'
        <5> SUFFICES ASSUME ~pass[j].cleanup PROVE pass[j].gen <= installed'[j]
          BY <4>2, Zenon DEF InstalledSince
        <5>1. PICK x \in pass[j].gateways : x.key = j /\ pass[j].gen <= x.gen
          BY <1>0, <2>1, <3>4, Zenon DEF Known, ListedSince
        <5>2. x.gen \in Nat
          BY <2>3, <3>4, <5>1 DEF Lists, Listed
        <5> QED
          BY <2>1, <2>4, <3>2, <3>4, <5>1, <5>2
      <4> QED
        BY <4>2, <4>3, <4>4, <4>5 DEF Known, ListedSince
    <3> QED
      BY <3>3, <3>4
  <2>6. CASE installed' = installed /\ pass' = [pass EXCEPT ![k] = Idle]
    BY <1>0, <1>00, <2>1, <2>6, OthersKept, IdleKnown DEF Known, Earned
  <2> QED
    BY <1>5, <2>5, <2>6, Zenon DEF Install, Requeue
<1>6. ASSUME NEW k \in Gateways, MarkAccepted(k) PROVE Known(j)'
  <2>1. installed' = installed /\ pass' = [pass EXCEPT ![k] = Idle]
    BY <1>6, Zenon DEF MarkAccepted, Requeue
  <2>2. CASE j = k
    <3>1. pass[j].gen <= installed[j]
      BY <1>0, <1>6, <2>2 DEF Known, InstalledSince, MarkAccepted
    <3>2. CASE gws[j].there /\ gws' = [gws EXCEPT ![j].observed = pass[j].gen]
      <4>1. gws[j] \in LiveGateways
        BY <1>0, <3>2, LiveFields, Zenon
      <4>2. gws'[j] = [gws[j] EXCEPT !.observed = pass[j].gen]
        BY <1>00, <3>2
      <4>3. gws'[j].observed = pass[j].gen
        BY <4>1, <4>2 DEF LiveGateways
      <4>4. Earned(j)'
        BY <2>1, <3>1, <4>3 DEF Earned
      <4> QED
        BY <1>00, <2>1, <2>2, <4>4, IdleKnown
    <3>3. CASE gws' = gws
      BY <1>0, <1>00, <2>1, <2>2, <3>3, IdleKnown DEF Known, Earned
    <3> QED
      BY <1>6, <2>2, <3>2, <3>3, Zenon DEF MarkAccepted
  <2>3. CASE j # k
    <3>1. gws'[j] = gws[j]
      BY <1>6, <1>00, <2>3 DEF MarkAccepted
    <3> QED
      BY <1>00, <2>1, <2>3, <3>1, OthersKept
  <2> QED
    BY <2>2, <2>3
<1>7. ASSUME NEW k \in Gateways, RemoveFinalizer(k) PROVE Known(j)'
  <2>1. installed' = installed /\ pass' = [pass EXCEPT ![k] = Idle] /\ gws' = [gws EXCEPT ![k] = Absent]
    BY <1>7, Zenon DEF RemoveFinalizer
  <2>2. CASE j = k
    <3>1. gws'[j] = Absent /\ pass'[j] = Idle
      BY <1>00, <2>1, <2>2
    <3>2. gws'[j].there = FALSE
      BY <3>1 DEF Absent
    <3>3. Earned(j)'
      BY <3>2, Zenon DEF Earned
    <3> QED
      BY <3>1, <3>3, IdleKnown
  <2>3. CASE j # k
    BY <1>00, <2>1, <2>3, OthersKept
  <2> QED
    BY <2>2, <2>3
<1>8. ASSUME NEW k \in Gateways, ApiFails(k) \/ TimerFires(k) PROVE Known(j)'
  <2>1. gws' = gws /\ installed' = installed /\ (pass' = pass \/ pass' = [pass EXCEPT ![k] = Idle])
    BY <1>8, Zenon DEF ApiFails, TimerFires, Requeue, cluster
  <2> QED
    BY <1>0, <1>00, <2>1, OthersKept, IdleKnown DEF Known, Earned
<1>9. ASSUME NEW k \in Gateways, DeleteGateway(k) PROVE Known(j)'
  <2>1. UNCHANGED <<pass, installed>> /\ gws[k].there
    BY <1>9, Zenon DEF DeleteGateway, Edited
  <2>2. CASE gws[k].finalizer /\ gws' = [gws EXCEPT ![k].deleting = TRUE] /\ j = k
    <3>1. gws[j] \in LiveGateways
      BY <1>0, <2>1, <2>2, LiveFields, Zenon
    <3>2. gws'[j] = [gws[j] EXCEPT !.deleting = TRUE]
      BY <1>00, <2>2
    <3>3. /\ gws'[j].there /\ gws'[j].finalizer = gws[j].finalizer /\ gws'[j].observed = gws[j].observed
          /\ gws'[j].gen = gws[j].gen /\ gws[j].gen \in Nat
      BY <3>1, <3>2, Zenon DEF LiveGateways
    <3>4. installed[j] \in Nat
      BY <1>0 DEF ControllerTypes
    <3> QED
      BY <2>1, <2>2, <3>3, <3>4, PassKept
  <2>3. CASE ~gws[k].finalizer /\ gws' = [gws EXCEPT ![k] = Absent] /\ j = k
    <3>1. gws'[j] = Absent
      BY <1>00, <2>3
    <3>2. gws'[j].there = FALSE
      BY <3>1 DEF Absent
    <3>3. pass[j].at = "idle" \/ pass[j].cleanup
      BY <1>0, <2>3, Zenon DEF Known, ObjectStays
    <3> QED
      BY <2>1, <3>2, <3>3, Zenon DEF Known, ObjectStays, ListedSince, InstalledSince, Earned
  <2>4. CASE j # k
    <3>1. gws'[j] = gws[j]
      BY <1>9, <1>00, <2>4 DEF DeleteGateway
    <3> QED
      BY <2>1, <3>1, OthersKept
  <2> QED
    BY <1>9, <2>2, <2>3, <2>4, Zenon DEF DeleteGateway
<1>10. ASSUME NEW k \in Gateways, NEW ls \in ListenerLists, EditGateway(k, ls) PROVE Known(j)'
  <2>1. UNCHANGED <<pass, installed>> /\ gws[k].there
    BY <1>10, Zenon DEF EditGateway, Edited
  <2>2. CASE j = k
    <3>1. gws[j] \in LiveGateways
      BY <1>0, <2>1, <2>2, LiveFields, Zenon
    <3>2. gws'[j] = [gws[j] EXCEPT !.listeners = ls, !.gen = gws[j].gen + 1]
      BY <1>10, <1>00, <2>2 DEF EditGateway
    <3>3. /\ gws'[j].there /\ gws'[j].finalizer = gws[j].finalizer /\ gws'[j].observed = gws[j].observed
          /\ gws'[j].gen = gws[j].gen + 1 /\ gws[j].gen \in Nat
      BY <3>1, <3>2, Zenon DEF LiveGateways
    <3>4. installed[j] \in Nat
      BY <1>0 DEF ControllerTypes
    <3> QED
      BY <2>1, <2>2, <3>3, <3>4, PassKept
  <2>3. CASE j # k
    <3>1. gws'[j] = gws[j]
      BY <1>10, <1>00, <2>3 DEF EditGateway
    <3> QED
      BY <2>1, <3>1, OthersKept
  <2> QED
    BY <2>2, <2>3
<1>11. CASE (\E id \in RouteIds : DeleteRoute(id)) \/ (\E id \in RouteIds, spec \in RouteSpecs : PutRoute(id, spec))
            \/ EditClass \/ UNCHANGED kvars
  <2>1. UNCHANGED <<gws, pass, installed>>
    BY <1>11, Zenon DEF DeleteRoute, PutRoute, EditClass, Edited, kvars
  <2> QED
    BY <2>1, OthersKept
<1> QED
  BY <1>1, <1>2, <1>3, <1>4, <1>5, <1>6, <1>7, <1>8, <1>9, <1>10, <1>11, Zenon DEF K8sNext, Pass

\* KInv is an invariant of the controller.
THEOREM ControllerInvariant == K8sSpec => []KInv
<1>1. K8sInit => KInv
  <2> SUFFICES ASSUME K8sInit PROVE KInv
    OBVIOUS
  <2>1. PICK ls \in ListenerLists : gws = [k \in Gateways |-> NewGateway(ls, 1)]
    BY Zenon DEF K8sInit
  <2>2. NewGateway(ls, 1) \in LiveGateways /\ NewGateway(ls, 1).observed = 0
    BY DEF NewGateway, LiveGateways
  <2>3. /\ routes = StartRoutes /\ ours = TRUE /\ pass = [k \in Gateways |-> Idle]
        /\ installed = [k \in Gateways |-> 0]
    BY Zenon DEF K8sInit
  <2>4. ControllerTypes
    BY <2>1, <2>2, <2>3, K8sAssumption, Zenon DEF ControllerTypes
  <2>5. ASSUME NEW k \in Gateways PROVE Known(k)
    <3>1. pass[k].at = "idle"
      BY <2>3 DEF Idle
    <3>2. gws[k].observed <= installed[k]
      BY <2>1, <2>2, <2>3
    <3> QED
      BY <3>1, <3>2 DEF Known, ObjectStays, ListedSince, InstalledSince, Earned
  <2> QED
    BY <2>4, <2>5 DEF KInv, Passes
<1>2. KInv /\ [K8sNext]_kvars => KInv'
  BY ControllerTypesStep, PassesStep DEF KInv
<1> QED
  BY <1>1, <1>2, PTL DEF K8sSpec

\* For any gateways, listeners and routes, and however passes, edits, deletions
\* and failed calls interleave, a generation the status of a gateway names as
\* accepted (mark_accepted) has been installed, or a newer one has.
THEOREM StatusTheorem == K8sSpec => []StatusIsEarned
<1>1. KInv => StatusIsEarned
  BY Zenon DEF KInv, ControllerTypes, Passes, Known, Earned, StatusIsEarned, Present
<1> QED
  BY <1>1, ControllerInvariant, PTL

-----------------------------------------------------------------------------
(* The lexer *)

\* The line breaks of t before p, and line and column at p.
Breaks(t, p) == {k \in 1..p - 1 : t[k] = "nl"}
Line(t, p) == 1 + Cardinality(Breaks(t, p))
Column(t, p) == p - (IF Breaks(t, p) = {} THEN 0 ELSE Max(Breaks(t, p)))

\* Nothing but blanks and comments from p to q - 1.
Trivia(t, p, q) ==
    \A k \in p..q - 1 : \/ t[k] = "sp"
                        \/ \E j \in p..k : t[j] = "#" /\ \A n \in j..k : t[n] # "nl"

\* A token found from p on, and where it says it is.
Placed(t, p, token) ==
    /\ p <= token.off /\ token.off < token.end
    /\ Trivia(t, p, token.off)
    /\ token.line = Line(t, token.off) /\ token.col = Column(t, token.off)

TokenKinds == Punctuation \cup {"sep", "arrow", "str", "env", "atom"}
Tokens == [kind : TokenKinds, off : Nat, end : Nat, line : Int, col : Int]

LInv == /\ text \in Seq(STRING)
        /\ pos \in 1..Len(text) + 1
        /\ at = [line |-> Line(text, pos), col |-> Column(text, pos)]
        /\ tokens \in Seq(Tokens)
        /\ pos = IF tokens = <<>> THEN 1 ELSE tokens[Len(tokens)].end
        /\ \A i \in DOMAIN tokens : Placed(text, Resumed(i), tokens[i]) /\ tokens[i].end <= pos

-----------------------------------------------------------------------------
\* Min is what it should be on every set of naturals that is not empty.
LEMMA LeastPosition ==
    ASSUME NEW S, S \subseteq Nat, S # {}
    PROVE  Min(S) \in S /\ \A y \in S : Min(S) <= y
<1> DEFINE R == OpToRel(<, Nat)
<1>1. IsWellFoundedOn(R, Nat)
  BY NatLessThanWellFounded, Zenon
<1>2. \A x, y \in Nat : y < x => <<y, x>> \in R
  BY Zenon DEF OpToRel
<1> HIDE DEF R
<1>3. PICK x \in S : \A y \in S : ~(<<y, x>> \in R)
  BY <1>1, WFMin, Zenon
<1>4. \A y \in S : ~(y < x)
  BY <1>2, <1>3, Zenon
<1>5. \A y \in S : x <= y
  BY <1>4
<1> QED
  BY <1>5, Zenon DEF Min

\* So is Max on the sets of positions up to n.
LEMMA GreatestPosition ==
    ASSUME NEW n \in Nat, NEW S, S \subseteq 0..n, S # {}
    PROVE  Max(S) \in S /\ \A y \in S : y <= Max(S)
<1> DEFINE T == {n - x : x \in S}
<1>1. T \subseteq Nat /\ T # {}
  <2>1. \A x \in S : n - x \in Nat
    OBVIOUS
  <2> QED
    BY <2>1, Zenon
<1>2. Min(T) \in T /\ \A y \in T : Min(T) <= y
  BY <1>1, LeastPosition, Zenon
<1>3. PICK x \in S : Min(T) = n - x
  BY <1>2, Zenon
<1>4. \A y \in S : y <= x
  <2> SUFFICES ASSUME NEW y \in S PROVE y <= x
    OBVIOUS
  <2>1. n - x <= n - y
    BY <1>2, <1>3
  <2> QED
    BY <2>1
<1> QED
  BY <1>4, Zenon DEF Max

\* Where a loop stops that was started at p: at its first hit, or at the end.
LEMMA FirstHit ==
    ASSUME NEW t \in Seq(STRING), NEW p \in Nat, p <= Len(t) + 1,
           NEW hits, hits \subseteq p..Len(t)
    PROVE  /\ First(t, hits) \in p..Len(t) + 1
           /\ First(t, hits) \in hits \/ First(t, hits) = Len(t) + 1
           /\ \A i \in p..First(t, hits) - 1 : i \notin hits
<1>0. Len(t) \in Nat
  OBVIOUS
<1>1. CASE hits = {}
  BY <1>0, <1>1 DEF First
<1>2. CASE hits # {}
  <2>1. Min(hits) \in hits /\ \A y \in hits : Min(hits) <= y
    <3>1. hits \subseteq Nat
      BY <1>0
    <3> QED
      BY <1>2, <3>1, LeastPosition, Zenon
  <2>2. First(t, hits) = Min(hits)
    BY <1>2, Zenon DEF First
  <2>3. First(t, hits) \in hits /\ \A y \in hits : First(t, hits) <= y
    BY <2>1, <2>2, Zenon
  <2>4. First(t, hits) \in p..Len(t)
    BY <2>3, Zenon
  <2>5. ASSUME NEW i \in p..First(t, hits) - 1 PROVE i \notin hits
    <3>1. i < First(t, hits)
      BY <1>0, <2>4
    <3> QED
      BY <1>0, <2>3, <2>4, <3>1
  <2> QED
    BY <1>0, <2>3, <2>4, <2>5
<1> QED
  BY <1>1, <1>2

-----------------------------------------------------------------------------
\* skip_horizontal stops at the end or at a byte that begins a token, and leaves
\* only trivia behind.
LEMMA SkipStops ==
    ASSUME NEW t \in Seq(STRING), NEW p \in 1..Len(t) + 1
    PROVE  /\ SkipHorizontal(t, p) \in p..Len(t) + 1
           /\ Trivia(t, p, SkipHorizontal(t, p))
           /\ Peek(t, SkipHorizontal(t, p)) \notin {"sp", "#"}
<1> DEFINE q == BlanksEnd(t, p)
           e == LineEnd(t, q)
<1>0. Len(t) \in Nat /\ DOMAIN t = 1..Len(t)
  OBVIOUS
<1>1. /\ q \in p..Len(t) + 1
      /\ q = Len(t) + 1 \/ t[q] # "sp"
      /\ \A i \in p..q - 1 : t[i] = "sp"
  <2> DEFINE H == {i \in p..Len(t) : t[i] # "sp"}
  <2>1. q = First(t, H)
    BY DEF BlanksEnd
  <2>2. H \subseteq p..Len(t) /\ p \in Nat /\ p <= Len(t) + 1
    BY <1>0
  <2>3. /\ First(t, H) \in p..Len(t) + 1
        /\ First(t, H) \in H \/ First(t, H) = Len(t) + 1
        /\ \A i \in p..First(t, H) - 1 : i \notin H
    BY <2>2, FirstHit
  <2>4. \A i \in p..First(t, H) - 1 : i \in p..Len(t)
    BY <1>0, <2>3
  <2> QED
    BY <2>1, <2>3, <2>4, Zenon
<1>2. /\ e \in q..Len(t) + 1
      /\ e = Len(t) + 1 \/ t[e] = "nl"
      /\ \A i \in q..e - 1 : t[i] # "nl"
  <2> DEFINE H == {i \in q..Len(t) : t[i] = "nl"}
  <2>1. e = First(t, H)
    BY DEF LineEnd
  <2>2. H \subseteq q..Len(t) /\ q \in Nat /\ q <= Len(t) + 1
    BY <1>0, <1>1
  <2> HIDE DEF q
  <2>3. /\ First(t, H) \in q..Len(t) + 1
        /\ First(t, H) \in H \/ First(t, H) = Len(t) + 1
        /\ \A i \in q..First(t, H) - 1 : i \notin H
    BY <2>2, FirstHit
  <2>4. \A i \in q..First(t, H) - 1 : i \in q..Len(t)
    BY <1>0, <1>1, <2>3
  <2> QED
    BY <2>1, <2>3, <2>4, Zenon
<1>3. SkipHorizontal(t, p) = IF Peek(t, q) = "#" THEN e ELSE q
  BY Zenon DEF SkipHorizontal
<1> HIDE DEF q, e
<1>4. CASE Peek(t, q) = "#"
  <2>1. q \in 1..Len(t) /\ t[q] = "#"
    BY <1>0, <1>1, <1>4 DEF Peek
  <2>2. SkipHorizontal(t, p) = e /\ Peek(t, e) \notin {"sp", "#"}
    BY <1>0, <1>1, <1>2, <1>3, <1>4 DEF Peek
  <2>3. Trivia(t, p, e)
    <3> SUFFICES ASSUME NEW k \in p..e - 1, t[k] # "sp"
                 PROVE  \E j \in p..k : t[j] = "#" /\ \A n \in j..k : t[n] # "nl"
      BY Zenon DEF Trivia
    <3>1. q \in p..k
      BY <1>0, <1>1, <1>2
    <3>2. \A n \in q..k : t[n] # "nl"
      BY <1>0, <1>1, <1>2
    <3> QED
      BY <2>1, <3>1, <3>2, Zenon
  <2> QED
    BY <1>0, <1>1, <1>2, <2>2, <2>3
<1>5. CASE Peek(t, q) # "#"
  <2>1. SkipHorizontal(t, p) = q /\ Peek(t, q) \notin {"sp", "#"}
    BY <1>0, <1>1, <1>3, <1>5 DEF Peek
  <2>2. Trivia(t, p, q)
    BY <1>1, Zenon DEF Trivia
  <2> QED
    BY <1>1, <2>1, <2>2
<1> QED
  BY <1>4, <1>5

\* A loop whose start is no hit goes on past it.
LEMMA StopsPast ==
    ASSUME NEW t \in Seq(STRING), NEW p \in 1..Len(t), NEW hits, hits \subseteq p..Len(t), p \notin hits
    PROVE  First(t, hits) \in p + 1..Len(t) + 1
<1>0. Len(t) \in Nat /\ p \in Nat /\ p <= Len(t) + 1 /\ p # Len(t) + 1
  OBVIOUS
<1>1. /\ First(t, hits) \in p..Len(t) + 1
      /\ First(t, hits) \in hits \/ First(t, hits) = Len(t) + 1
  BY <1>0, FirstHit, Zenon
<1>2. First(t, hits) # p
  BY <1>0, <1>1, Zenon
<1> QED
  BY <1>0, <1>1, <1>2

\* consume_separator_run takes the separator it is called at.
LEMMA SeparatorEnds ==
    ASSUME NEW t \in Seq(STRING), NEW p \in 1..Len(t), t[p] \in {"nl", ";"}
    PROVE  ConsumeSeparatorRun(t, p) \in p + 1..Len(t) + 1
<1> DEFINE H == {i \in p..Len(t) :
                    /\ t[i] \notin {"nl", ";", "sp", "#"}
                    /\ \A j \in p..i : t[j] = "#" => \E k \in j..i : t[k] = "nl"}
<1>1. H \subseteq p..Len(t) /\ p \notin H
  BY Zenon
<1>2. ConsumeSeparatorRun(t, p) = First(t, H)
  BY Zenon DEF ConsumeSeparatorRun
<1> HIDE DEF H
<1> QED
  BY <1>1, <1>2, StopsPast, Zenon

\* lex_atom takes at least the byte it is called at.
LEMMA AtomEnds ==
    ASSUME NEW t \in Seq(STRING), NEW p \in 1..Len(t), t[p] \notin AtomStops,
           ~(t[p] = "~" /\ Peek(t, p + 1) = ">")
    PROVE  LexAtom(t, p) \in p + 1..Len(t) + 1
<1> DEFINE H == {i \in p..Len(t) : \/ t[i] \in AtomStops
                                   \/ t[i] = "~" /\ Peek(t, i + 1) = ">"}
<1>1. H \subseteq p..Len(t) /\ p \notin H
  BY Zenon
<1>2. LexAtom(t, p) = First(t, H)
  BY Zenon DEF LexAtom
<1> HIDE DEF H
<1> QED
  BY <1>1, <1>2, StopsPast, Zenon

\* lex_string ends within the text when it ends.
LEMMA StringEnds ==
    ASSUME NEW t \in Seq(STRING), NEW p \in 1..Len(t), LexString(t, p).end # 0
    PROVE  LexString(t, p).end \in p + 1..Len(t) + 1
<1> DEFINE H == {i \in p + 1..Len(t) : t[i] = "quote" /\ ~Escaped(t, p, i)}
<1>0. Len(t) \in Nat /\ p + 1 \in Nat /\ p + 1 <= Len(t) + 1 /\ H \subseteq p + 1..Len(t)
  OBVIOUS
<1>1. LexString(t, p).end = IF First(t, H) > Len(t) THEN 0 ELSE First(t, H) + 1
  BY DEF LexString
<1> HIDE DEF H
<1>2. First(t, H) \in p + 1..Len(t) + 1
  BY <1>0, FirstHit, Zenon
<1> QED
  BY <1>0, <1>1, <1>2

\* So does lex_env, after its dollar and its brace.
LEMMA EnvEnds ==
    ASSUME NEW t \in Seq(STRING), NEW p \in 1..Len(t), p + 1 \in 1..Len(t), LexEnv(t, p) # 0
    PROVE  LexEnv(t, p) \in p + 1..Len(t) + 1
<1> DEFINE H == {i \in p + 2..Len(t) : t[i] = "}"}
<1>0. Len(t) \in Nat /\ p + 2 \in Nat /\ p + 2 <= Len(t) + 1
  OBVIOUS
<1>00. H \subseteq p + 2..Len(t)
  BY Zenon
<1>1. LexEnv(t, p) = IF First(t, H) > Len(t) THEN 0 ELSE First(t, H) + 1
  BY Zenon DEF LexEnv
<1> HIDE DEF H
<1>2. First(t, H) \in p + 2..Len(t) + 1
  BY <1>0, <1>00, FirstHit, Zenon
<1> QED
  BY <1>0, <1>1, <1>2

-----------------------------------------------------------------------------
\* The line breaks before a position are finitely many.
LEMMA BreaksFinite ==
    ASSUME NEW t, NEW p \in Int, NEW q \in Int
    PROVE  LET B == {i \in p..q : t[i] = "nl"} IN IsFiniteSet(B) /\ Cardinality(B) \in Nat
<1> DEFINE B == {i \in p..q : t[i] = "nl"}
<1>1. IsFiniteSet(p..q)
  BY FS_Interval
<1>2. B \subseteq p..q
  OBVIOUS
<1>3. IsFiniteSet(B)
  BY <1>1, <1>2, FS_Subset
<1> QED
  BY <1>3, FS_CardinalityType

\* bump, over any stretch of the text, keeps line and column those of the byte
\* it has reached.
LEMMA BumpKeepsPlace ==
    ASSUME NEW t, NEW p \in Nat, NEW q \in Nat, 1 <= p, p <= q,
           NEW a, a = [line |-> Line(t, p), col |-> Column(t, p)]
    PROVE  /\ Bump(t, a, p, q).line = Line(t, q) /\ Bump(t, a, p, q).col = Column(t, q)
           /\ Bump(t, a, p, q) = [line |-> Line(t, q), col |-> Column(t, q)]
           /\ Line(t, q) \in Int /\ Column(t, q) \in Int
<1> DEFINE new == {i \in p..q - 1 : t[i] = "nl"}
           old == Breaks(t, p)
           all == Breaks(t, q)
<1>1. all = old \cup new /\ old \cap new = {}
  <2>1. 1..q - 1 = (1..p - 1) \cup (p..q - 1) /\ (1..p - 1) \cap (p..q - 1) = {}
    OBVIOUS
  <2> QED
    BY <2>1, Zenon DEF Breaks
<1>2. IsFiniteSet(old) /\ Cardinality(old) \in Nat /\ IsFiniteSet(new) /\ Cardinality(new) \in Nat
  <2>1. p - 1 \in Int /\ q - 1 \in Int /\ 1 \in Int /\ p \in Int
    OBVIOUS
  <2> QED
    BY <2>1, BreaksFinite, Zenon DEF Breaks
<1>3. Cardinality(all) = Cardinality(old) + Cardinality(new)
  <2>1. Cardinality(old \cup new) = Cardinality(old) + Cardinality(new) - Cardinality(old \cap new)
    BY <1>2, FS_Union
  <2>2. Cardinality(old \cap new) = 0
    BY <1>1, FS_EmptySet
  <2> QED
    BY <1>1, <1>2, <2>1, <2>2
<1>4. a.line = 1 + Cardinality(old) /\ a.col = p - (IF old = {} THEN 0 ELSE Max(old))
  BY DEF Line, Column
<1>5. Line(t, q) = 1 + Cardinality(all) /\ Column(t, q) = q - (IF all = {} THEN 0 ELSE Max(all))
  BY DEF Line, Column
<1>6. Bump(t, a, p, q) = IF new = {} THEN [line |-> a.line, col |-> a.col + (q - p)]
                         ELSE [line |-> a.line + Cardinality(new), col |-> q - Max(new)]
  BY Zenon DEF Bump
<1>7. old \subseteq 0..p - 1 /\ new \subseteq 0..q - 1 /\ all \subseteq 0..q - 1
  BY DEF Breaks
<1>8. /\ old # {} => Max(old) \in old /\ Max(old) \in Int
      /\ new # {} => Max(new) \in new /\ (\A y \in new : y <= Max(new)) /\ Max(new) \in Int
      /\ all # {} => Max(all) \in all /\ (\A y \in all : y <= Max(all)) /\ Max(all) \in Int
  <2>1. p - 1 \in Nat /\ q - 1 \in Nat
    OBVIOUS
  <2> HIDE DEF old, new, all
  <2>2. /\ old # {} => Max(old) \in old
        /\ new # {} => Max(new) \in new /\ (\A y \in new : y <= Max(new))
        /\ all # {} => Max(all) \in all /\ (\A y \in all : y <= Max(all))
    BY <1>7, <2>1, GreatestPosition, Zenon
  <2>3. \A x \in old \cup new \cup all : x \in Int
    BY <1>7
  <2> QED
    BY <2>2, <2>3, Zenon
<1>9. \A x \in old, y \in new : x < y
  BY DEF Breaks
<1>10. new = {} => all = old
  BY <1>1, Zenon
<1>11. new # {} => all # {} /\ Max(all) = Max(new)
  <2> SUFFICES ASSUME new # {} PROVE all # {} /\ Max(all) = Max(new)
    OBVIOUS
  <2>1. Max(new) \in all
    BY <1>1, <1>8, Zenon
  <2>2. Max(new) <= Max(all)
    BY <1>8, <2>1, Zenon
  <2>3. Max(all) \in old \/ Max(all) \in new
    BY <1>1, <1>8, <2>1, Zenon
  <2>4. Max(all) <= Max(new)
    <3> HIDE DEF old, new, all
    <3> QED
      BY <1>8, <1>9, <2>1, <2>3
  <2> HIDE DEF old, new, all
  <2> QED
    BY <1>8, <2>1, <2>2, <2>4
<1> HIDE DEF old, new, all
<1>12. CASE new = {}
  <2>1. Cardinality(new) = 0
    BY <1>12, FS_EmptySet
  <2>2. Line(t, q) = a.line
    BY <1>2, <1>3, <1>4, <1>5, <2>1
  <2>3. Column(t, q) = a.col + (q - p)
    BY <1>4, <1>5, <1>8, <1>10, <1>12
  <2>4. Bump(t, a, p, q) = [line |-> Line(t, q), col |-> Column(t, q)]
    BY <1>6, <1>12, <2>2, <2>3, Zenon
  <2>5. Line(t, q) \in Int /\ Column(t, q) \in Int
    BY <1>2, <1>4, <1>8, <2>2, <2>3
  <2> QED
    BY <2>4, <2>5
<1>13. CASE new # {}
  <2>2. Line(t, q) = a.line + Cardinality(new)
    BY <1>2, <1>3, <1>4, <1>5
  <2>3. Column(t, q) = q - Max(new)
    BY <1>5, <1>11, <1>13
  <2>4. Bump(t, a, p, q) = [line |-> Line(t, q), col |-> Column(t, q)]
    BY <1>6, <1>13, <2>2, <2>3, Zenon
  <2>5. Line(t, q) \in Int /\ Column(t, q) \in Int
    BY <1>2, <1>4, <1>8, <1>13, <2>2, <2>3
  <2> QED
    BY <2>4, <2>5
<1> QED
  BY <1>12, <1>13

\* A token that ends past where it begins, within the text, keeps the invariant.
LEMMA PushKeepsTiles ==
    ASSUME LInv, NEW k \in TokenKinds, NEW q, Start \in 1..Len(text), q \in Start + 1..Len(text) + 1,
           Push(k, q)
    PROVE  LInv'
<1> DEFINE here == Bump(text, at, pos, Start)
           new == [kind |-> k, off |-> Start, end |-> q, line |-> here.line, col |-> here.col]
           n == Len(tokens)
<1>0. text \in Seq(STRING) /\ Len(text) \in Nat /\ pos \in 1..Len(text) + 1
  BY DEF LInv
<1>00. at = [line |-> Line(text, pos), col |-> Column(text, pos)]
  BY Zenon DEF LInv
<1>01. /\ tokens \in Seq(Tokens) /\ n \in Nat /\ DOMAIN tokens = 1..n
       /\ pos = IF tokens = <<>> THEN 1 ELSE tokens[n].end
       /\ \A i \in DOMAIN tokens : Placed(text, Resumed(i), tokens[i]) /\ tokens[i].end <= pos
  BY DEF LInv
<1>1. /\ tokens' = Append(tokens, new) /\ pos' = q /\ at' = Bump(text, at, pos, q) /\ text' = text
  BY Zenon DEF Push
<1>2. Start \in pos..Len(text) + 1 /\ Trivia(text, pos, Start)
  BY <1>0, SkipStops DEF Start
<1>20. /\ pos \in Nat /\ Start \in Nat /\ q \in Nat
       /\ 1 <= pos /\ pos <= Start /\ Start < q /\ pos <= q
  <2>1. Start \in pos..Len(text) + 1
    BY <1>2, Zenon
  <2> QED
    BY <1>0, <2>1
<1>3. /\ here.line = Line(text, Start) /\ here.col = Column(text, Start)
      /\ Line(text, Start) \in Int /\ Column(text, Start) \in Int
  BY <1>0, <1>00, <1>20, BumpKeepsPlace
<1>4. at' = [line |-> Line(text, q), col |-> Column(text, q)]
  BY <1>0, <1>00, <1>1, <1>20, BumpKeepsPlace
<1> HIDE DEF here
<1>5. /\ new \in Tokens /\ new.off = Start /\ new.end = q
      /\ new.line = Line(text, Start) /\ new.col = Column(text, Start)
  BY <1>3, <1>20 DEF Tokens
<1>6. Placed(text, pos, new)
  BY <1>2, <1>5, <1>20, Zenon DEF Placed
<1> HIDE DEF new
<1>7. /\ tokens' \in Seq(Tokens) /\ Len(tokens') = n + 1 /\ DOMAIN tokens' = 1..n + 1
      /\ tokens'[n + 1] = new /\ \A i \in 1..n : tokens'[i] = tokens[i]
  BY <1>01, <1>1, <1>5
<1>8. ASSUME NEW i \in DOMAIN tokens'
      PROVE  (Placed(text, Resumed(i), tokens[i]))' /\ tokens'[i].end <= pos'
  <2>1. CASE i = n + 1
    <3>1. Resumed(i)' = pos
      <4>1. CASE n = 0
        <5>1. tokens = <<>>
          BY <1>01, <4>1
        <5> QED
          BY <1>01, <2>1, <4>1, <5>1 DEF Resumed
      <4>2. CASE n # 0
        <5>1. tokens # <<>> /\ n \in 1..n /\ i # 1 /\ i - 1 = n
          BY <1>01, <2>1, <4>2
        <5>2. tokens'[n] = tokens[n]
          BY <1>7, <5>1
        <5> QED
          BY <1>01, <5>1, <5>2 DEF Resumed
      <4> QED
        BY <4>1, <4>2
    <3>2. tokens'[i] = new
      BY <1>7, <2>1
    <3>3. q <= q
      BY <1>20
    <3> QED
      BY <1>1, <1>5, <1>6, <3>1, <3>2, <3>3, Zenon
  <2>2. CASE i # n + 1
    <3>1. i \in 1..n
      BY <1>01, <1>7, <2>2
    <3>2. tokens'[i] = tokens[i]
      BY <1>7, <3>1
    <3>3. Resumed(i)' = Resumed(i)
      <4>1. i = 1 \/ i - 1 \in 1..n
        BY <1>01, <3>1
      <4> QED
        BY <1>7, <4>1 DEF Resumed
    <3>4. Placed(text, Resumed(i), tokens[i]) /\ tokens[i].end <= pos
      BY <1>01, <3>1
    <3>5. tokens[i].end <= q
      <4>1. tokens[i].end \in Nat
        <5>1. tokens[i] \in Tokens
          BY <1>01, <3>1
        <5> QED
          BY <5>1 DEF Tokens
      <4> QED
        BY <1>20, <3>4, <4>1
    <3> QED
      BY <1>1, <3>2, <3>3, <3>4, <3>5, Zenon
  <2> QED
    BY <2>1, <2>2
<1>9. pos' = (IF tokens = <<>> THEN 1 ELSE tokens[Len(tokens)].end)'
  <2>1. tokens' # <<>>
    BY <1>01, <1>7
  <2> QED
    BY <1>1, <1>5, <1>7, <2>1
<1>10. q \in 1..Len(text) + 1
  BY <1>0
<1> QED
  BY <1>0, <1>1, <1>4, <1>7, <1>8, <1>9, <1>10, Zenon DEF LInv

\* LInv is an invariant of the lexer.
THEOREM LexerInvariant == LexSpec => []LInv
<1>1. LexInit => LInv
  <2> SUFFICES ASSUME LexInit PROVE LInv
    OBVIOUS
  <2>1. PICK t \in Texts : LexerNew(t, "lexing")
    BY Zenon DEF LexInit
  <2>2. /\ text \in Seq(STRING) /\ pos = 1 /\ at = [line |-> 1, col |-> 1] /\ tokens = <<>>
    BY <2>1, TextsAssumption, Zenon DEF LexerNew
  <2>3. Breaks(text, 1) = {}
    BY DEF Breaks
  <2>4. Line(text, 1) = 1 /\ Column(text, 1) = 1
    BY <2>3, FS_EmptySet DEF Line, Column
  <2>5. pos \in 1..Len(text) + 1
    BY <2>2
  <2>6. tokens \in Seq(Tokens) /\ DOMAIN tokens = {}
    BY <2>2
  <2> QED
    BY <2>2, <2>4, <2>5, <2>6, Zenon DEF LInv
<1>2. LInv /\ [Lex]_vars => LInv'
  <2> SUFFICES ASSUME LInv, [Lex]_vars PROVE LInv'
    OBVIOUS
  <2>0. text \in Seq(STRING) /\ Len(text) \in Nat /\ DOMAIN text = 1..Len(text) /\ pos \in 1..Len(text) + 1
    BY DEF LInv
  <2>1. Start \in 1..Len(text) + 1 /\ Byte \notin {"sp", "#"}
    BY <2>0, SkipStops DEF Start, Byte
  <2>2. ASSUME Byte # "end" PROVE Start \in 1..Len(text) /\ Byte = text[Start]
    BY <2>0, <2>1, <2>2 DEF Byte, Peek
  <2>3. ASSUME NEW c, c # "end", Peek(text, Start + 1) = c PROVE Start + 1 \in 1..Len(text)
    BY <2>0, <2>1, <2>3 DEF Peek
  <2>4. CASE UNCHANGED <<text, pos, at, tokens>>
    BY <2>4, Zenon DEF LInv, Resumed
  <2>5. CASE LexSep
    <3>1. Byte \in {"nl", ";"} /\ Push("sep", ConsumeSeparatorRun(text, Start))
      BY <2>5, Zenon DEF LexSep
    <3>2. Start \in 1..Len(text) /\ text[Start] \in {"nl", ";"}
      BY <2>2, <3>1, Zenon
    <3>3. ConsumeSeparatorRun(text, Start) \in Start + 1..Len(text) + 1
      BY <2>0, <3>2, SeparatorEnds, Zenon
    <3>4. "sep" \in TokenKinds
      BY DEF TokenKinds
    <3> QED
      BY <3>1, <3>2, <3>3, <3>4, PushKeepsTiles, Zenon
  <2>6. CASE LexPunctuation
    <3>1. Byte # "end" /\ Byte \in TokenKinds /\ Push(Byte, Start + 1)
      BY <2>6, Zenon DEF LexPunctuation, Punctuation, TokenKinds
    <3>2. Start \in 1..Len(text)
      BY <2>2, <3>1
    <3>3. Start + 1 \in Start + 1..Len(text) + 1
      BY <2>0, <3>2
    <3> QED
      BY <3>1, <3>2, <3>3, PushKeepsTiles, Zenon
  <2>7. CASE LexArrow
    <3>1. Byte # "end" /\ Peek(text, Start + 1) = ">" /\ Push("arrow", Start + 2)
      BY <2>7 DEF LexArrow
    <3>2. Start \in 1..Len(text) /\ Start + 1 \in 1..Len(text)
      BY <2>2, <2>3, <3>1
    <3>3. Start + 2 \in Start + 1..Len(text) + 1
      BY <2>0, <3>2
    <3>4. "arrow" \in TokenKinds
      BY DEF TokenKinds
    <3> QED
      BY <3>1, <3>2, <3>3, <3>4, PushKeepsTiles, Zenon
  <2>8. CASE LexQuoted /\ ~ UNCHANGED <<text, pos, at, tokens>>
    <3> DEFINE s == LexString(text, Start)
    <3>1. Byte # "end" /\ s.end # 0 /\ Push("str", s.end)
      BY <2>8 DEF LexQuoted, Stop
    <3>2. Start \in 1..Len(text)
      BY <2>2, <3>1
    <3>3. s.end \in Start + 1..Len(text) + 1
      BY <2>0, <3>1, <3>2, StringEnds
    <3>4. "str" \in TokenKinds
      BY DEF TokenKinds
    <3> QED
      BY <3>1, <3>2, <3>3, <3>4, PushKeepsTiles, Zenon
  <2>9. CASE LexReference /\ ~ UNCHANGED <<text, pos, at, tokens>>
    <3>1. Byte # "end" /\ Peek(text, Start + 1) = "{"
      BY <2>9, Zenon DEF LexReference
    <3>2. LexEnv(text, Start) # 0 /\ Push("env", LexEnv(text, Start))
      BY <2>9, Zenon DEF LexReference, Stop
    <3>3. Start \in 1..Len(text) /\ Start + 1 \in 1..Len(text)
      BY <2>2, <2>3, <3>1, Zenon
    <3>4. LexEnv(text, Start) \in Start + 1..Len(text) + 1
      BY <2>0, <3>2, <3>3, EnvEnds
    <3>5. "env" \in TokenKinds
      BY DEF TokenKinds
    <3> QED
      BY <3>2, <3>3, <3>4, <3>5, PushKeepsTiles, Zenon
  <2>10. CASE LexWord
    <3>1. /\ Byte # "end" /\ Byte \notin AtomStops /\ ~(Byte = "~" /\ Peek(text, Start + 1) = ">")
          /\ Push("atom", LexAtom(text, Start))
      BY <2>1, <2>10, Zenon DEF LexWord, AtomStops
    <3>2. Start \in 1..Len(text) /\ Byte = text[Start]
      BY <2>2, <3>1
    <3>3. LexAtom(text, Start) \in Start + 1..Len(text) + 1
      BY <2>0, <3>1, <3>2, AtomEnds
    <3>4. "atom" \in TokenKinds
      BY DEF TokenKinds
    <3> QED
      BY <3>1, <3>2, <3>3, <3>4, PushKeepsTiles, Zenon
  <2>11. CASE LexEof \/ UNCHANGED vars
    BY <2>4, <2>11, Zenon DEF LexEof, Stop, vars
  <2> QED
    BY <2>4, <2>5, <2>6, <2>7, <2>8, <2>9, <2>10, <2>11, Zenon DEF Lex
<1> QED
  BY <1>1, <1>2, PTL DEF LexSpec

\* Whatever the text, and however long, the tokens of the lexer (run and what
\* it calls) cover it without overlap, with nothing but blanks and comments
\* between them, and carry the line and column of their first byte.
THEOREM TilingTheorem == LexSpec => []TokensTileTheText
<1>1. LInv => TokensTileTheText
  <2> SUFFICES ASSUME LInv, NEW i \in DOMAIN tokens
               PROVE  /\ Resumed(i) <= tokens[i].off /\ tokens[i].off < tokens[i].end /\ tokens[i].end <= pos
                      /\ \A k \in Resumed(i)..tokens[i].off - 1 :
                            \/ text[k] = "sp"
                            \/ \E j \in Resumed(i)..k : text[j] = "#" /\ \A n \in j..k : text[n] # "nl"
                      /\ tokens[i].line = 1 + Cardinality(Newlines(tokens[i].off))
                      /\ tokens[i].col = tokens[i].off - (IF Newlines(tokens[i].off) = {} THEN 0
                                                          ELSE Max(Newlines(tokens[i].off)))
    BY Zenon DEF TokensTileTheText
  <2>1. Placed(text, Resumed(i), tokens[i]) /\ tokens[i].end <= pos
    BY Zenon DEF LInv
  <2>2. Newlines(tokens[i].off) = Breaks(text, tokens[i].off)
    BY Zenon DEF Newlines, Breaks
  <2> QED
    BY <2>1, <2>2, Zenon DEF Placed, Trivia, Line, Column
<1> QED
  BY <1>1, LexerInvariant, PTL
=============================================================================
