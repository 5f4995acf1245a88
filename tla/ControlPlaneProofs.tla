------------------------- MODULE ControlPlaneProofs -------------------------
(***************************************************************************)
(* Proofs about ConfigStore and ControlPlane for any callers, texts, tokens *)
(* and channel capacity.                                                   *)
(*                                                                         *)
(* The store: no step but ReloadBegin adds to the generations that can     *)
(* still be observed, and ReloadBegin adds one whose number fetch_add has  *)
(* just handed out, larger than every number in sight.                     *)
(*                                                                         *)
(* The control plane: each of its steps is a step of the store or leaves   *)
(* it alone, so what holds of the store holds of the store behind the      *)
(* admin surfaces.  On top of that, a request that is being announced has  *)
(* published its generation, and the events a subscriber has not read yet  *)
(* lie between what it has seen and the pump's watermark.                  *)
(***************************************************************************)
EXTENDS ControlPlane, SequenceTheorems, TLAPS

-----------------------------------------------------------------------------
(* The store.                                                               *)

(* Generations that have passed compile(). *)
Compiled == {current} \cup ({previous} \ {NoGeneration})
              \cup {built[c] : c \in {d \in Callers : pc[d] \in {"demote", "swap", "rb_load", "rb_swap"}}}
              \cup {outgoing[c] : c \in {d \in Callers : pc[d] \in {"demote", "rb_swap", "rb_demote"}}}

(* Numbers in sight have been handed out; what has passed compile() is valid. *)
Numbered == \A g \in Reachable : g.gen < next_generation
Validated == \A g \in Compiled : g.text \in ValidTexts

IInv == TypeOK /\ Numbered /\ Validated /\ GenerationNamesOneConfig

(* The type invariant of the store is inductive. *)
LEMMA TypeStep == TypeOK /\ [Next]_vars => TypeOK'
<1> SUFFICES ASSUME TypeOK, [Next]_vars PROVE TypeOK'
  OBVIOUS
<1> USE ConfigAssumption DEF TypeOK, Generations, PC, Goto
<1>1. ASSUME NEW c \in Callers, NEW t \in Texts, ReloadBegin(c, t) PROVE TypeOK'
  BY <1>1 DEF ReloadBegin
<1>2. ASSUME NEW c \in Callers, ReloadRejected(c) PROVE TypeOK'
  BY <1>2 DEF ReloadRejected
<1>3. ASSUME NEW c \in Callers, ReloadCompiled(c) PROVE TypeOK'
  BY <1>3 DEF ReloadCompiled
<1>4. ASSUME NEW c \in Callers, ReloadDemote(c) PROVE TypeOK'
  BY <1>4 DEF ReloadDemote
<1>5. ASSUME NEW c \in Callers, ReloadSwap(c) PROVE TypeOK'
  BY <1>5 DEF ReloadSwap
<1>6. ASSUME NEW c \in Callers, RollbackBegin(c) PROVE TypeOK'
  BY <1>6 DEF RollbackBegin
<1>7. ASSUME NEW c \in Callers, RollbackLoad(c) PROVE TypeOK'
  BY <1>7 DEF RollbackLoad
<1>8. ASSUME NEW c \in Callers, RollbackSwap(c) PROVE TypeOK'
  BY <1>8 DEF RollbackSwap
<1>9. ASSUME NEW c \in Callers, RollbackDemote(c) PROVE TypeOK'
  BY <1>9 DEF RollbackDemote
<1>10. CASE UNCHANGED vars
  BY <1>10 DEF vars
<1> QED
  BY <1>1, <1>2, <1>3, <1>4, <1>5, <1>6, <1>7, <1>8, <1>9, <1>10 DEF Next, Step

(* The steps that leave the counter alone only move generations around. *)
LEMMA NothingNew ==
  ASSUME TypeOK, NEW c \in Callers,
         \/ ReloadRejected(c) \/ ReloadCompiled(c) \/ ReloadDemote(c) \/ ReloadSwap(c)
         \/ RollbackBegin(c) \/ RollbackLoad(c) \/ RollbackSwap(c) \/ RollbackDemote(c)
  PROVE  Reachable' \subseteq Reachable /\ next_generation' = next_generation
<1> USE DEF TypeOK, Goto, Reachable
<1>1. CASE ReloadRejected(c)
  BY <1>1 DEF ReloadRejected
<1>2. CASE ReloadCompiled(c)
  BY <1>2 DEF ReloadCompiled
<1>3. CASE ReloadDemote(c)
  BY <1>3 DEF ReloadDemote
<1>4. CASE ReloadSwap(c)
  BY <1>4 DEF ReloadSwap
<1>5. CASE RollbackBegin(c)
  BY <1>5 DEF RollbackBegin
<1>6. CASE RollbackLoad(c)
  BY <1>6 DEF RollbackLoad
<1>7. CASE RollbackSwap(c)
  BY <1>7 DEF RollbackSwap
<1>8. CASE RollbackDemote(c)
  BY <1>8 DEF RollbackDemote
<1> QED
  BY <1>1, <1>2, <1>3, <1>4, <1>5, <1>6, <1>7, <1>8, Zenon

(* Only a text that compile() accepted joins the publishable generations. *)
LEMMA CompiledGrows ==
  ASSUME TypeOK, NEW c \in Callers, Step(c)
  PROVE  \A g \in Compiled' : g \in Compiled \/ g.text \in ValidTexts
<1> USE DEF TypeOK, Goto, Compiled
<1>0. ASSUME NEW t \in Texts, ReloadBegin(c, t) PROVE Compiled' \subseteq Compiled
  BY <1>0 DEF ReloadBegin
<1>1. CASE ReloadRejected(c)
  BY <1>1 DEF ReloadRejected
<1>2. CASE ReloadCompiled(c)
  BY <1>2 DEF ReloadCompiled
<1>3. CASE ReloadDemote(c)
  BY <1>3 DEF ReloadDemote
<1>4. CASE ReloadSwap(c)
  BY <1>4 DEF ReloadSwap
<1>5. CASE RollbackBegin(c)
  BY <1>5 DEF RollbackBegin
<1>6. CASE RollbackLoad(c)
  BY <1>6 DEF RollbackLoad
<1>7. CASE RollbackSwap(c)
  BY <1>7 DEF RollbackSwap
<1>8. CASE RollbackDemote(c)
  BY <1>8 DEF RollbackDemote
<1> QED
  BY <1>0, <1>1, <1>2, <1>3, <1>4, <1>5, <1>6, <1>7, <1>8 DEF Step

(* fetch_add: the generation that reload starts to build is the only new    *)
(* one, and its number exceeds every number in sight.                       *)
LEMMA OneNew ==
  ASSUME TypeOK, NEW c \in Callers, NEW t \in Texts, ReloadBegin(c, t)
  PROVE  /\ Reachable' \subseteq Reachable \cup {[gen |-> next_generation, text |-> t]}
         /\ next_generation' = next_generation + 1
  BY DEF TypeOK, Goto, Reachable, ReloadBegin

(* Observable generations are well-formed. *)
LEMMA ReachableTyped == TypeOK => Reachable \subseteq Generations
  BY DEF TypeOK, Reachable

(* The strengthened invariant is inductive. *)
LEMMA InvStep == IInv /\ [Next]_vars => IInv'
<1> SUFFICES ASSUME IInv, [Next]_vars PROVE IInv'
  OBVIOUS
<1>1. TypeOK'
  BY TypeStep DEF IInv
<1>2. ASSUME NEW c \in Callers, NEW t \in Texts, ReloadBegin(c, t)
      PROVE  Numbered' /\ GenerationNamesOneConfig'
  <2>1. Reachable \subseteq Generations /\ next_generation \in Nat
    BY ReachableTyped DEF IInv, TypeOK
  <2>2. /\ Reachable' \subseteq Reachable \cup {[gen |-> next_generation, text |-> t]}
        /\ next_generation' = next_generation + 1
    BY <1>2, OneNew DEF IInv
  <2>3. \A g \in Reachable : g.gen \in Nat /\ g.gen < next_generation
    BY <2>1 DEF IInv, Numbered, Generations
  <2> QED
    BY <2>1, <2>2, <2>3 DEF IInv, Numbered, GenerationNamesOneConfig
<1>3. ASSUME NEW c \in Callers, Step(c), ~\E t \in Texts : ReloadBegin(c, t)
      PROVE  Numbered' /\ GenerationNamesOneConfig'
  BY <1>3, NothingNew DEF IInv, Step, Numbered, GenerationNamesOneConfig
<1>4. ASSUME NEW c \in Callers, Step(c) PROVE Validated'
  BY <1>4, CompiledGrows DEF IInv, Validated
<1>5. CASE UNCHANGED vars
  BY <1>5 DEF IInv, TypeOK, Numbered, Validated, GenerationNamesOneConfig, Reachable, Compiled, vars
<1>6. CASE Next
  BY <1>1, <1>2, <1>3, <1>4, <1>6 DEF Next, IInv
<1> QED
  BY <1>5, <1>6

(* The store starts with one validated generation, number 0. *)
LEMMA InvInit == Init => IInv
<1> SUFFICES ASSUME Init PROVE IInv
  OBVIOUS
<1> USE ConfigAssumption DEF Init
<1>1. TypeOK
  BY DEF TypeOK, Generations, PC
<1>2. Reachable = {current} /\ Compiled = {current}
  BY DEF Reachable, Compiled
<1> QED
  BY <1>1, <1>2 DEF IInv, Numbered, Validated, GenerationNamesOneConfig

(* A generation number names one configuration, for any number of callers   *)
(* reloading and rolling back concurrently (ConfigStore::reload, rollback). *)
THEOREM GenerationTheorem == Spec => []GenerationNamesOneConfig
<1>1. IInv => GenerationNamesOneConfig
  BY DEF IInv
<1> QED
  BY <1>1, InvInit, InvStep, PTL DEF Spec

(* A text that compile() rejects is never run nor restored, for any number  *)
(* of callers.                                                              *)
THEOREM ValidationTheorem == Spec => []OnlyValidatedRuns
<1>1. IInv => OnlyValidatedRuns
  BY DEF IInv, TypeOK, Validated, Compiled, OnlyValidatedRuns
<1> QED
  BY <1>1, InvInit, InvStep, PTL DEF Spec

(* The locals and slots of the store keep their types. *)
THEOREM TypeTheorem == Spec => []TypeOK
<1>1. IInv => TypeOK
  BY DEF IInv
<1> QED
  BY <1>1, InvInit, InvStep, PTL DEF Spec

----------------------------------------------------------------------------
(* One caller at a time *)

OneCaller == \A c, d \in Callers : c = d

(* What the single caller's locals mean at each of its steps. *)
Sequential ==
  \A c \in Callers :
    /\ pc[c] \notin {"swap", "rb_demote"} => previous = displaced
    /\ pc[c] = "swap" => previous = current
    /\ pc[c] \in {"demote", "rb_swap"} => outgoing[c] = current
    /\ pc[c] = "rb_demote" => outgoing[c] = displaced
    /\ pc[c] \in {"rb_load", "rb_swap"} => built[c] = previous /\ previous # NoGeneration
    /\ pc[c] \in {"demote", "swap"} => built[c].text \in ValidTexts
    /\ pc[c] \in {"compile", "demote", "swap"} => built[c].gen = next_generation - 1

(* Those meanings are kept by every step of a single caller. *)
LEMMA SequentialStep ==
  ASSUME OneCaller, TypeOK, Sequential, [Next]_vars
  PROVE  Sequential'
<1> SUFFICES ASSUME NEW c \in Callers, Step(c) \/ UNCHANGED vars PROVE Sequential'
  BY DEF Next, Sequential, vars
<1>0. \A d \in Callers : d = c
  BY DEF OneCaller
<1> USE <1>0 DEF TypeOK, Sequential, Goto
<1>1. ASSUME NEW t \in Texts, ReloadBegin(c, t) PROVE Sequential'
  BY <1>1 DEF ReloadBegin
<1>2. CASE ReloadRejected(c)
  BY <1>2 DEF ReloadRejected
<1>3. CASE ReloadCompiled(c)
  BY <1>3 DEF ReloadCompiled
<1>4. CASE ReloadDemote(c)
  BY <1>4 DEF ReloadDemote
<1>5. CASE ReloadSwap(c)
  BY <1>5 DEF ReloadSwap
<1>6. CASE RollbackBegin(c)
  BY <1>6 DEF RollbackBegin
<1>7. CASE RollbackLoad(c)
  BY <1>7 DEF RollbackLoad
<1>8. CASE RollbackSwap(c)
  BY <1>8 DEF RollbackSwap
<1>9. CASE RollbackDemote(c)
  BY <1>9 DEF RollbackDemote
<1>10. CASE UNCHANGED vars
  BY <1>10 DEF vars
<1> QED
  BY <1>1, <1>2, <1>3, <1>4, <1>5, <1>6, <1>7, <1>8, <1>9, <1>10 DEF Step

(* Every step of a single caller is a step of the atomic store or a stutter. *)
LEMMA StepRefines ==
  ASSUME OneCaller, TypeOK, Sequential, [Next]_vars
  PROVE  [Atomic!Next]_(Atomic!vars)
<1>u. CASE UNCHANGED vars
  BY <1>u DEF vars, Atomic!vars, RestoreTarget, Issued
<1> SUFFICES ASSUME NEW c \in Callers, Step(c) PROVE [Atomic!Next]_(Atomic!vars)
  BY <1>u DEF Next
<1>0. \A d \in Callers : d = c
  BY DEF OneCaller
<1> USE <1>0 DEF TypeOK, Sequential, Goto, RestoreTarget, Issued
<1>1. ASSUME NEW t \in Texts, ReloadBegin(c, t) PROVE UNCHANGED Atomic!vars
  BY <1>1 DEF ReloadBegin, Atomic!vars
<1>2. CASE ReloadRejected(c)
  <2>1. Atomic!Reject
    BY <1>2 DEF ReloadRejected, Atomic!Reject
  <2> QED
    BY <2>1 DEF Atomic!Next
<1>3. CASE ReloadCompiled(c)
  BY <1>3 DEF ReloadCompiled, Atomic!vars
<1>4. CASE ReloadDemote(c)
  BY <1>4 DEF ReloadDemote, Atomic!vars
<1>5. CASE ReloadSwap(c)
  <2>1. Atomic!Publish(built[c].text)
    BY <1>5 DEF ReloadSwap, Generations, Atomic!Publish
  <2>2. built[c].text \in ValidTexts
    BY <1>5 DEF ReloadSwap
  <2>3. \E t \in ValidTexts : Atomic!Publish(t)
    <3> HIDE DEF Sequential, RestoreTarget, Issued, TypeOK, Goto
    <3> QED
      BY <2>1, <2>2, Zenon
  <2> QED
    BY <2>3 DEF Atomic!Next
<1>6. CASE RollbackBegin(c)
  BY <1>6 DEF RollbackBegin, Atomic!vars
<1>7. CASE RollbackLoad(c)
  BY <1>7 DEF RollbackLoad, Atomic!vars
<1>8. CASE RollbackSwap(c)
  <2>1. Atomic!Rollback
    BY <1>8 DEF RollbackSwap, Atomic!Rollback
  <2> QED
    BY <2>1 DEF Atomic!Next
<1>9. CASE RollbackDemote(c)
  BY <1>9 DEF RollbackDemote, Atomic!vars
<1> QED
  BY <1>1, <1>2, <1>3, <1>4, <1>5, <1>6, <1>7, <1>8, <1>9 DEF Step

(* With one caller at a time the sequences of accesses that make up reload  *)
(* and rollback implement the atomic store.                                 *)
THEOREM SequentialRefinement ==
  ASSUME OneCaller PROVE Spec => ImplementsAtomicStore
<1>1. Init => Sequential /\ Atomic!Init
  BY DEF Init, Sequential, Atomic!Init, RestoreTarget, Issued
<1>2. TypeOK /\ Sequential /\ [Next]_vars => Sequential' /\ [Atomic!Next]_(Atomic!vars)
  BY SequentialStep, StepRefines
<1> QED
  BY <1>1, <1>2, TypeTheorem, PTL DEF Spec, ImplementsAtomicStore, Atomic!Spec

-----------------------------------------------------------------------------
(* The control plane.                                                       *)

Requests == {Free} \cup [surface : {"rest", "grpc", "announce"}, token : Presented]

(* Where a request is in ConfigStore's reload, and what has run by then. *)
Placed ==
    \A c \in Callers :
        /\ req[c].surface \in {"rest", "grpc"} => pc[c] \in {"compile", "demote", "swap"}
        /\ req[c].surface = "announce" => pc[c] = "idle" /\ built[c].gen \in ran

(* A sequence of events whose audit entries come in order, past lo and up   *)
(* to hi, and whose generations are in published.                           *)
Sound(events, lo, hi, published) ==
    /\ \A i \in 1..Len(events) :
          /\ events[i].kind = "audit" => lo < events[i].n /\ events[i].n <= hi
          /\ events[i].kind = "reloaded" => events[i].n \in published
    /\ \A i, j \in 1..Len(events) :
          i < j /\ events[i].kind = "audit" /\ events[j].kind = "audit"
             => events[i].n < events[j].n

(* The callers' half of the inductive invariant. *)
Served ==
    /\ req \in [Callers -> Requests]
    /\ ran \subseteq 0..next_generation /\ told \subseteq ran
    /\ ReloadsAreAuthorized /\ Placed

(* The subscriber's half: what it has seen, what is on its way, what was    *)
(* pumped and what was appended, in this order.                             *)
Streamed ==
    /\ audit \in 1..MaxAudit /\ pump \in [on : BOOLEAN, last_seq : Int] /\ seen \in Int
    /\ NoSeq <= seen /\ seen <= pump.last_seq /\ pump.last_seq <= audit - 1
    /\ rx \in Seq(Events) /\ Len(rx) <= Capacity
    /\ Sound(rx, seen, pump.last_seq, ran)

CInv == IInv /\ Served /\ Streamed

-----------------------------------------------------------------------------
(* Every step of the control plane is a step of the store, or none: the     *)
(* handlers reach it through reload and rollback only.                      *)
LEMMA ControlStep == [CNext]_cvars => [Next]_vars
<1> SUFFICES ASSUME [CNext]_cvars PROVE [Next]_vars
  OBVIOUS
<1>1. ASSUME NEW c \in Callers, Request(c) \/ Handler(c) \/ BeginRollback(c) \/ RollbackGoesOn(c)
      PROVE  [Next]_vars
  <2>1. Step(c) \/ UNCHANGED vars
    BY <1>1 DEF Request, Handler, BeginRollback, RollbackGoesOn, ReloadRequest, ReloadFails,
                ReloadGoesOn, RestReloaded, GrpcReloaded, Announce, Step
  <2> QED
    BY <2>1 DEF Next
<1>2. CASE Server
  BY <1>2 DEF Server, ServeGrpc, PumpTick, PumpLifecycle, GrpcStops
<1>3. CASE (\E t \in Presented : WatchEvents(t)) \/ Deliver \/ Unwatch
  BY <1>3 DEF WatchEvents, Deliver, Unwatch
<1>4. CASE AppendAudit \/ Drain
  BY <1>4 DEF AppendAudit, Drain
<1>5. CASE UNCHANGED cvars
  BY <1>5 DEF cvars
<1> QED
  BY <1>1, <1>2, <1>3, <1>4, <1>5 DEF CNext

(* The store behind the admin surfaces is the store: CInit and CNext add    *)
(* nothing to it (AdminApi holds the same ConfigStore as everyone else).    *)
THEOREM ControlPlaneUsesTheStore == CSpec => Spec
<1>1. CInit => Init
  BY DEF CInit
<1> QED
  BY <1>1, ControlStep, PTL DEF CSpec, Spec

(* For any number of admin requests and rollbacks a generation number names *)
(* one configuration and only validated texts run (ConfigStore::reload).    *)
THEOREM ControlPlaneGenerations == CSpec => [](GenerationNamesOneConfig /\ OnlyValidatedRuns)
  BY ControlPlaneUsesTheStore, GenerationTheorem, ValidationTheorem, PTL

-----------------------------------------------------------------------------
(* What a full or a roomy receiver holds after a send: a suffix of what it  *)
(* held followed by the new events (broadcast::Sender::send, lagging).      *)
LEMMA QueuedIsSuffix ==
  ASSUME NEW q \in Seq(Events), NEW events \in Seq(Events)
  PROVE  /\ Queued(q, events) \in Seq(Events)
         /\ Len(Queued(q, events)) <= Capacity
         /\ \E d \in Nat : \A i \in DOMAIN Queued(q, events) :
               /\ i + d \in 1..Len(q \o events)
               /\ Queued(q, events)[i] = (q \o events)[i + d]
<1> DEFINE all == q \o events
<1>1. all \in Seq(Events) /\ Len(all) \in Nat /\ Capacity \in Nat
  BY ConcatProperties, ControlAssumption, LenProperties
<1> HIDE DEF all
<1>2. CASE Len(all) > Capacity
  <2> DEFINE d == Len(all) - Capacity
             out == SubSeq(all, d + 1, Len(all))
  <2>1. Queued(q, events) = out
    BY <1>2, Zenon DEF Queued, all
  <2>2. /\ out \in Seq(Events) /\ Len(out) = Capacity /\ DOMAIN out = 1..Capacity
        /\ d \in Nat /\ \A i \in 1..Capacity : i + d \in 1..Len(all) /\ out[i] = all[i + d]
    BY <1>1, <1>2
  <2> HIDE DEF d, out
  <2>3. \E e \in Nat : \A i \in DOMAIN out : i + e \in 1..Len(all) /\ out[i] = all[i + e]
    BY <2>2, Zenon
  <2>4. Len(out) <= Capacity
    BY <1>1, <2>2
  <2> QED
    BY <2>1, <2>2, <2>3, <2>4, Zenon DEF all
<1>3. CASE ~(Len(all) > Capacity)
  <2>1. Queued(q, events) = all
    BY <1>3 DEF Queued, all
  <2>2. DOMAIN all = 1..Len(all) /\ 0 \in Nat
        /\ \A i \in 1..Len(all) : i + 0 \in 1..Len(all) /\ all[i] = all[i + 0]
    BY <1>1, LenProperties
  <2>3. \E e \in Nat : \A i \in DOMAIN all : i + e \in 1..Len(all) /\ all[i] = all[i + e]
    BY <2>2, Zenon
  <2>4. Len(all) <= Capacity
    BY <1>1, <1>3
  <2> QED
    BY <1>1, <2>1, <2>3, <2>4, Zenon DEF all
<1> QED
  BY <1>2, <1>3, Zenon

(* Dropping the oldest events keeps the rest in order. *)
LEMMA SoundSuffix ==
  ASSUME NEW s \in Seq(Events), NEW t \in Seq(Events), NEW d \in Nat,
         NEW lo \in Int, NEW hi \in Int, NEW published, Sound(s, lo, hi, published),
         \A i \in DOMAIN t : i + d \in 1..Len(s) /\ t[i] = s[i + d]
  PROVE  Sound(t, lo, hi, published)
<1>1. DOMAIN t = 1..Len(t) /\ Len(t) \in Nat /\ Len(s) \in Nat
  BY LenProperties
<1>2. \A i \in 1..Len(t) :
        /\ t[i].kind = "audit" => lo < t[i].n /\ t[i].n <= hi
        /\ t[i].kind = "reloaded" => t[i].n \in published
  BY <1>1, Zenon DEF Sound
<1>3. ASSUME NEW i \in 1..Len(t), NEW j \in 1..Len(t), i < j,
             t[i].kind = "audit", t[j].kind = "audit"
      PROVE  t[i].n < t[j].n
  <2>1. /\ i + d \in 1..Len(s) /\ j + d \in 1..Len(s) /\ i + d < j + d
        /\ t[i] = s[i + d] /\ t[j] = s[j + d]
    BY <1>1, <1>3
  <2> QED
    BY <1>3, <2>1 DEF Sound
<1> QED
  BY <1>2, <1>3 DEF Sound

(* An event that is not an audit entry disturbs nothing. *)
LEMMA SoundOther ==
  ASSUME NEW q \in Seq(Events), NEW e \in Events, e.kind # "audit",
         NEW lo \in Int, NEW hi \in Int, NEW published, Sound(q, lo, hi, published),
         e.kind = "reloaded" => e.n \in published
  PROVE  Sound(q \o <<e>>, lo, hi, published)
<1> DEFINE s == q \o <<e>>
<1>1. /\ Len(q) \in Nat /\ Len(s) = Len(q) + 1
      /\ \A i \in 1..Len(q) : s[i] = q[i]
      /\ s[Len(q) + 1] = e
  OBVIOUS
<1> HIDE DEF s
<1>2. \A i \in 1..Len(s) : i \in 1..Len(q) \/ i = Len(q) + 1
  BY <1>1
<1>3. \A i \in 1..Len(s) :
        /\ s[i].kind = "audit" => lo < s[i].n /\ s[i].n <= hi
        /\ s[i].kind = "reloaded" => s[i].n \in published
  BY <1>1, <1>2 DEF Sound
<1>4. ASSUME NEW i \in 1..Len(s), NEW j \in 1..Len(s), i < j,
             s[i].kind = "audit", s[j].kind = "audit"
      PROVE  s[i].n < s[j].n
  BY <1>1, <1>2, <1>4 DEF Sound
<1>5. Sound(s, lo, hi, published)
  BY <1>3, <1>4 DEF Sound
<1> QED
  BY <1>5 DEF s

(* A higher watermark disturbs nothing. *)
LEMMA SoundHigher ==
  ASSUME NEW q \in Seq(Events), NEW lo \in Int, NEW hi \in Int, NEW top \in Int,
         hi <= top, NEW published, Sound(q, lo, hi, published)
  PROVE  Sound(q, lo, top, published)
<1>1. \A i \in 1..Len(q) : q[i] \in Events
  BY ElementOfSeq
<1>2. \A i \in 1..Len(q) : q[i].n \in Nat
  BY <1>1 DEF Events
<1> QED
  BY <1>2 DEF Sound

(* A tick of the pump appends the entries after its watermark, in order. *)
LEMMA SoundAudit ==
  ASSUME NEW q \in Seq(Events), NEW lo \in Int, NEW hi \in Int, NEW top \in Int,
         NoSeq <= lo, lo <= hi, hi <= top, NEW published, Sound(q, lo, hi, published)
  PROVE  /\ AuditEvents(hi, top) \in Seq(Events)
         /\ Sound(q \o AuditEvents(hi, top), lo, top, published)
<1> DEFINE a == AuditEvents(hi, top)
           s == q \o a
<1>1. top - hi \in Nat
  OBVIOUS
<1>2. \A i \in 1..(top - hi) : [kind |-> "audit", n |-> hi + i] \in Events
  BY DEF Events, NoSeq
<1>3. a \in Seq(Events) /\ Len(a) = top - hi /\ \A i \in 1..Len(a) : a[i] = [kind |-> "audit", n |-> hi + i]
  BY <1>1, <1>2 DEF AuditEvents
<1> HIDE DEF a
<1>4. /\ Len(q) \in Nat /\ Len(s) = Len(q) + (top - hi)
      /\ \A i \in 1..Len(q) : s[i] = q[i]
      /\ \A i \in (Len(q) + 1)..Len(s) :
            s[i].kind = "audit" /\ s[i].n = hi + (i - Len(q))
  <2>1. /\ Len(q) \in Nat /\ Len(s) = Len(q) + (top - hi)
        /\ \A i \in 1..Len(s) : s[i] = IF i <= Len(q) THEN q[i] ELSE a[i - Len(q)]
    <3>1. /\ Len(s) = Len(q) + Len(a)
          /\ \A i \in 1..Len(q) + Len(a) : s[i] = IF i <= Len(q) THEN q[i] ELSE a[i - Len(q)]
      BY <1>3, ConcatProperties
    <3>2. Len(q) \in Nat
      BY LenProperties
    <3> HIDE DEF s
    <3> QED
      BY <1>3, <3>1, <3>2
  <2> HIDE DEF s
  <2>2. ASSUME NEW i \in (Len(q) + 1)..Len(s)
        PROVE  s[i].kind = "audit" /\ s[i].n = hi + (i - Len(q))
    <3>1. i \in 1..Len(s) /\ ~(i <= Len(q)) /\ i - Len(q) \in 1..Len(a)
      BY <1>1, <1>3, <2>1
    <3>2. s[i] = [kind |-> "audit", n |-> hi + (i - Len(q))]
      BY <1>3, <2>1, <3>1
    <3> QED
      BY <3>2
  <2>3. \A i \in 1..Len(q) : i \in 1..Len(s) /\ i <= Len(q)
    BY <1>1, <2>1
  <2> QED
    BY <2>1, <2>2, <2>3
<1> HIDE DEF s
<1>5. \A i \in 1..Len(s) : i \in 1..Len(q) \/ i \in (Len(q) + 1)..Len(s)
  BY <1>1, <1>4
<1>6. ASSUME NEW i \in 1..Len(s)
      PROVE  /\ s[i].kind = "audit" => lo < s[i].n /\ s[i].n <= top
             /\ s[i].kind = "reloaded" => s[i].n \in published
  <2>1. CASE i \in 1..Len(q)
    <3>1. s[i] = q[i] /\ q[i] \in Events
      BY <1>4, <2>1, ElementOfSeq
    <3>2. q[i].n \in Nat
      BY <3>1 DEF Events
    <3> QED
      BY <2>1, <3>1, <3>2 DEF Sound
  <2>2. CASE i \in (Len(q) + 1)..Len(s)
    <3>1. i - Len(q) \in 1..(top - hi)
      BY <1>1, <1>4, <2>2
    <3> QED
      BY <1>4, <2>2, <3>1
  <2> QED
    BY <1>5, <2>1, <2>2
<1>7. ASSUME NEW i \in 1..Len(s), NEW j \in 1..Len(s), i < j,
             s[i].kind = "audit", s[j].kind = "audit"
      PROVE  s[i].n < s[j].n
  <2>1. CASE j \in 1..Len(q)
    <3>1. i \in 1..Len(q)
      BY <1>4, <1>7, <2>1
    <3>2. s[i] = q[i] /\ s[j] = q[j]
      BY <1>4, <2>1, <3>1
    <3>3. q[i].n < q[j].n
      BY <1>7, <2>1, <3>1, <3>2 DEF Sound
    <3> QED
      BY <3>2, <3>3
  <2>2. CASE i \in 1..Len(q) /\ j \in (Len(q) + 1)..Len(s)
    <3>1. s[i] = q[i] /\ q[i] \in Events
      BY <1>4, <2>2, ElementOfSeq
    <3>2. q[i].n \in Nat /\ q[i].n <= hi
      BY <1>7, <2>2, <3>1 DEF Events, Sound
    <3>3. s[j].n = hi + (j - Len(q))
      BY <1>4, <2>2
    <3>4. j - Len(q) > 0 /\ j - Len(q) \in Int
      BY <1>4, <2>2
    <3> QED
      BY <3>1, <3>2, <3>3, <3>4, SMTT(20)
  <2>3. CASE i \in (Len(q) + 1)..Len(s) /\ j \in (Len(q) + 1)..Len(s)
    BY <1>4, <1>7, <2>3
  <2> QED
    BY <1>4, <1>5, <1>7, <2>1, <2>2, <2>3
<1>8. Sound(s, lo, top, published)
  BY <1>6, <1>7 DEF Sound
<1> QED
  BY <1>3, <1>8 DEF s, a

(* Reading the oldest event moves what was seen. *)
LEMMA SoundTail ==
  ASSUME NEW q \in Seq(Events), q # <<>>, NEW lo \in Int, NEW hi \in Int,
         NEW published, Sound(q, lo, hi, published)
  PROVE  LET now == IF Head(q).kind = "audit" THEN Head(q).n ELSE lo
         IN  /\ now \in Int /\ lo <= now /\ (now <= hi \/ now = lo)
             /\ Sound(Tail(q), now, hi, published)
<1> DEFINE now == IF Head(q).kind = "audit" THEN Head(q).n ELSE lo
           t == Tail(q)
<1>1. /\ Head(q) = q[1] /\ Len(q) \in Nat /\ 1 \in 1..Len(q) /\ t \in Seq(Events)
      /\ Len(t) = Len(q) - 1 /\ \A i \in 1..Len(t) : i + 1 \in 1..Len(q) /\ t[i] = q[i + 1]
  BY HeadTailProperties, LenProperties, EmptySeq
<1>2. q[1].n \in Nat
  <2>1. q[1] \in Events
    BY <1>1, ElementOfSeq
  <2> QED
    BY <2>1 DEF Events
<1>3. now \in Int /\ lo <= now /\ (now <= hi \/ now = lo)
  BY <1>1, <1>2 DEF Sound
<1> HIDE DEF t
<1>4. ASSUME NEW i \in 1..Len(t)
      PROVE  /\ t[i].kind = "audit" => now < t[i].n /\ t[i].n <= hi
             /\ t[i].kind = "reloaded" => t[i].n \in published
  <2>1. i + 1 \in 1..Len(q) /\ 1 < i + 1 /\ t[i] = q[i + 1]
    BY <1>1
  <2> QED
    BY <1>1, <2>1 DEF Sound
<1>5. ASSUME NEW i \in 1..Len(t), NEW j \in 1..Len(t), i < j,
             t[i].kind = "audit", t[j].kind = "audit"
      PROVE  t[i].n < t[j].n
  <2>1. /\ i + 1 \in 1..Len(q) /\ j + 1 \in 1..Len(q) /\ i + 1 < j + 1
        /\ t[i] = q[i + 1] /\ t[j] = q[j + 1]
    <3>1. Len(t) \in Nat
      BY <1>1, LenProperties
    <3> QED
      BY <1>1, <1>5, <3>1
  <2>2. q[i + 1].n < q[j + 1].n
    BY <1>5, <2>1 DEF Sound
  <2> QED
    BY <2>1, <2>2
<1>6. Sound(t, now, hi, published)
  BY <1>4, <1>5 DEF Sound
<1> QED
  BY <1>3, <1>6 DEF t

(* Sending keeps the stream sound, whether or not anyone is subscribed. *)
LEMMA Sends ==
  ASSUME NEW events \in Seq(Events), NEW lo \in Int, NEW hi \in Int, NEW published,
         rx \in Seq(Events), Len(rx) <= Capacity, PublishAll(events),
         Sound(rx, lo, hi, published), Sound(rx \o events, lo, hi, published)
  PROVE  rx' \in Seq(Events) /\ Len(rx') <= Capacity /\ Sound(rx', lo, hi, published)
<1>1. CASE watching
  <2>1. rx' = Queued(rx, events)
    BY <1>1 DEF PublishAll
  <2>2. rx' \in Seq(Events) /\ Len(rx') <= Capacity
    BY <2>1, QueuedIsSuffix
  <2>3. PICK d \in Nat : \A i \in DOMAIN rx' :
           i + d \in 1..Len(rx \o events) /\ rx'[i] = (rx \o events)[i + d]
    BY <2>1, QueuedIsSuffix, Zenon
  <2>4. rx \o events \in Seq(Events)
    BY ConcatProperties
  <2>5. Sound(rx', lo, hi, published)
    BY <2>2, <2>3, <2>4, SoundSuffix, Zenon
  <2> QED
    BY <2>2, <2>5
<1>2. CASE ~watching
  BY <1>2 DEF PublishAll
<1> QED
  BY <1>1, <1>2

-----------------------------------------------------------------------------
(* The callers' half of the invariant: no handler runs for a token without  *)
(* the scope, and a request that announces its generation has published it. *)
LEMMA CallersStep ==
  ASSUME CInv, [CNext]_cvars
  PROVE  Served' /\ ran \subseteq ran'
<1> USE DEF CInv, Served
<1>0. /\ pc \in [Callers -> PC] /\ built \in [Callers -> Generations]
      /\ next_generation \in Nat
      /\ \A c \in Callers : pc[c] = "swap" => built[c].gen < next_generation
  BY DEF IInv, TypeOK, Numbered, Reachable
<1>f. \A c \in Callers : req[c] \in Requests
  OBVIOUS
<1>1. ASSUME NEW c \in Callers, NEW s \in {"rest", "grpc"}, NEW x \in Texts,
             NEW t \in Presented, ReloadRequest(c, s, x, t)
      PROVE  Served' /\ ran \subseteq ran'
  <2>1. [surface |-> s, token |-> t] \in Requests
    BY DEF Requests
  <2>2. "write" \in Scopes[t]
    BY <1>1 DEF ReloadRequest, Authorize, Required
  <2>0. /\ req' = [req EXCEPT ![c] = [surface |-> s, token |-> t]]
        /\ pc' = [pc EXCEPT ![c] = "compile"]
        /\ built' = [built EXCEPT ![c] = [gen |-> next_generation, text |-> x]]
        /\ next_generation' = next_generation + 1 /\ UNCHANGED <<ran, told>>
    BY <1>1, Zenon DEF ReloadRequest, ReloadBegin, Goto
  <2>3. ReloadsAreAuthorized'
    BY <2>0, <2>1, <2>2 DEF ReloadsAreAuthorized
  <2>4. Placed'
    BY <1>0, <2>0, <2>1 DEF Placed
  <2> QED
    BY <1>0, <2>0, <2>1, <2>3, <2>4
<1>2. ASSUME NEW c \in Callers, ReloadFails(c)
      PROVE  Served' /\ ran \subseteq ran'
  <2>1. Free \in Requests /\ Free.surface = "none"
    BY DEF Requests, Free
  <2>2. Placed'
    BY <1>0, <1>2, <2>1 DEF ReloadFails, ReloadRejected, Goto, Placed
  <2> QED
    BY <1>2, <2>1, <2>2 DEF ReloadFails, ReloadRejected, ReloadsAreAuthorized
<1>3. ASSUME NEW c \in Callers, ReloadGoesOn(c) \/ BeginRollback(c) \/ RollbackGoesOn(c)
      PROVE  Served' /\ ran \subseteq ran'
  <2> USE DEF ReloadGoesOn, BeginRollback, RollbackGoesOn
  <2>1. CASE ReloadGoesOn(c)
    <3>1. Placed'
      BY <1>0, <2>1 DEF ReloadCompiled, ReloadDemote, Goto, Placed
    <3> QED
      BY <2>1, <3>1 DEF ReloadCompiled, ReloadDemote, ReloadsAreAuthorized
  <2>2. CASE BeginRollback(c)
    <3>1. req[c].surface = "none"
      BY <2>2 DEF Idle, Free
    <3>2. Placed'
      BY <1>0, <2>2, <3>1 DEF RollbackBegin, Goto, Placed
    <3> QED
      BY <2>2, <3>2 DEF RollbackBegin, ReloadsAreAuthorized
  <2>3. CASE RollbackGoesOn(c)
    <3>1. Placed'
      BY <1>0, <2>3 DEF RollbackLoad, RollbackSwap, RollbackDemote, Goto, Placed
    <3> QED
      BY <2>3, <3>1 DEF RollbackLoad, RollbackSwap, RollbackDemote, ReloadsAreAuthorized
  <2> QED
    BY <1>3, <2>1, <2>2, <2>3
<1>4. ASSUME NEW c \in Callers, RestReloaded(c) \/ GrpcReloaded(c)
      PROVE  Served' /\ ran \subseteq ran'
  <2>1. Free \in Requests /\ Free.surface = "none"
    BY DEF Requests, Free
  <2>2. /\ ran' = ran \cup {built[c].gen} /\ next_generation' = next_generation
        /\ built' = built /\ pc' = [pc EXCEPT ![c] = "idle"] /\ pc[c] = "swap"
    BY <1>4 DEF RestReloaded, GrpcReloaded, ReloadSwap, Goto
  <2>3. built[c].gen \in 0..next_generation
    BY <1>0, <2>2 DEF Generations
  <2>4. CASE RestReloaded(c)
    <3>1. Placed'
      BY <1>0, <2>1, <2>2, <2>4 DEF RestReloaded, Placed
    <3> QED
      BY <2>1, <2>2, <2>3, <2>4, <3>1, Zenon DEF RestReloaded, ReloadsAreAuthorized
  <2>5. CASE GrpcReloaded(c)
    <3>1. req[c] # Free
      BY <2>1, <2>5 DEF GrpcReloaded
    <3>2. PICK r \in [surface : {"rest", "grpc", "announce"}, token : Presented] : r = req[c]
      BY <1>f, <3>1 DEF Requests
    <3>3. /\ [req[c] EXCEPT !.surface = "announce"] \in Requests
          /\ [req[c] EXCEPT !.surface = "announce"].surface = "announce"
          /\ [req[c] EXCEPT !.surface = "announce"].token = req[c].token
      BY <3>2 DEF Requests
    <3>4. req' = [req EXCEPT ![c] = [req[c] EXCEPT !.surface = "announce"]]
      BY <2>5 DEF GrpcReloaded
    <3>5. req' \in [Callers -> Requests] /\ ReloadsAreAuthorized'
      BY <3>1, <3>3, <3>4 DEF ReloadsAreAuthorized
    <3>6. Placed'
      BY <1>0, <2>2, <3>3, <3>4 DEF Placed
    <3> QED
      BY <2>2, <2>3, <2>5, <3>5, <3>6 DEF GrpcReloaded
  <2> QED
    BY <1>4, <2>4, <2>5
<1>5. ASSUME NEW c \in Callers, Announce(c)
      PROVE  Served' /\ ran \subseteq ran'
  <2>1. Free \in Requests /\ Free.surface = "none"
    BY DEF Requests, Free
  <2>2. Placed'
    BY <1>5, <2>1 DEF Announce, Placed, vars
  <2> QED
    BY <1>5, <2>1, <2>2, Zenon DEF Announce, ReloadsAreAuthorized, Placed, vars
<1>6. CASE UNCHANGED <<pc, built, next_generation, req, ran, told>>
  BY <1>6 DEF ReloadsAreAuthorized, Placed
<1>7. Server \/ (\E t \in Presented : WatchEvents(t)) \/ Deliver \/ Unwatch \/ AppendAudit \/ Drain
         \/ UNCHANGED cvars
      => UNCHANGED <<pc, built, next_generation, req, ran, told>>
  BY DEF Server, ServeGrpc, PumpTick, PumpLifecycle, GrpcStops, WatchEvents, Deliver, Unwatch,
         AppendAudit, Drain, cvars, vars
<1> QED
  BY <1>1, <1>2, <1>3, <1>4, <1>5, <1>6, <1>7 DEF CNext, Request, Handler

(* The subscriber's half: every event that is sent is one that may be seen  *)
(* after those before it.                                                   *)
LEMMA StreamStep ==
  ASSUME CInv, [CNext]_cvars
  PROVE  Streamed'
<1>1. ran \subseteq ran'
  BY CallersStep
<1>2. ASSUME ran' = ran, UNCHANGED <<audit, feed>>
      PROVE  Streamed'
  BY <1>2 DEF CInv, Streamed, feed
<1>3. ASSUME NEW c \in Callers, RestReloaded(c) \/ GrpcReloaded(c)
      PROVE  Streamed'
  <2>1. UNCHANGED <<audit, pump, seen, rx>>
    BY <1>3 DEF RestReloaded, GrpcReloaded, feed
  <2>2. Sound(rx, seen, pump.last_seq, ran')
    BY <1>1 DEF CInv, Streamed, Sound
  <2> QED
    BY <2>1, <2>2 DEF CInv, Streamed
<1>4. ASSUME NEW c \in Callers, Announce(c)
      PROVE  Streamed'
  <2> DEFINE e == [kind |-> "reloaded", n |-> built[c].gen]
  <2>1. built[c].gen \in Nat /\ built[c].gen \in ran
    BY <1>4 DEF CInv, IInv, TypeOK, Generations, Announce, Served, Placed
  <2>2. e \in Events /\ e.kind # "audit" /\ e.n = built[c].gen
    BY <2>1 DEF Events
  <2>3. UNCHANGED <<audit, pump, seen, ran>> /\ PublishAll(<<e>>)
    BY <1>4 DEF Announce
  <2> HIDE DEF e
  <2>4. Sound(rx \o <<e>>, seen, pump.last_seq, ran)
    BY <2>1, <2>2, SoundOther DEF CInv, Streamed
  <2>5. <<e>> \in Seq(Events)
    BY <2>2
  <2>6. rx' \in Seq(Events) /\ Len(rx') <= Capacity /\ Sound(rx', seen, pump.last_seq, ran)
    BY <2>3, <2>4, <2>5, Sends, Zenon DEF CInv, Streamed
  <2> QED
    BY <2>3, <2>6 DEF CInv, Streamed
<1>5. CASE PumpLifecycle
  <2> DEFINE e == [kind |-> "lifecycle", n |-> 0]
  <2>1. e \in Events /\ e.kind = "lifecycle"
    BY DEF Events
  <2>2. /\ UNCHANGED <<audit, seen, ran>> /\ PublishAll(<<e>>)
        /\ pump' \in [on : BOOLEAN, last_seq : Int] /\ pump'.last_seq = pump.last_seq
    BY <1>5, Zenon DEF PumpLifecycle, CInv, Streamed
  <2> HIDE DEF e
  <2>3. Sound(rx \o <<e>>, seen, pump.last_seq, ran)
    BY <2>1, SoundOther DEF CInv, Streamed
  <2>4. <<e>> \in Seq(Events)
    BY <2>1
  <2>5. rx' \in Seq(Events) /\ Len(rx') <= Capacity /\ Sound(rx', seen, pump.last_seq, ran)
    BY <2>2, <2>3, <2>4, Sends, Zenon DEF CInv, Streamed
  <2> QED
    BY <2>2, <2>5 DEF CInv, Streamed
<1>6. CASE PumpTick
  <2> DEFINE top == audit - 1
             events == AuditEvents(pump.last_seq, top)
  <2>1. /\ UNCHANGED <<audit, seen, ran>> /\ PublishAll(events)
        /\ pump' \in [on : BOOLEAN, last_seq : Int] /\ pump'.last_seq = top
    BY <1>6 DEF PumpTick, CInv, Streamed
  <2>2. /\ top \in Int /\ pump.last_seq \in Int /\ seen \in Int /\ NoSeq <= seen
        /\ seen <= pump.last_seq /\ pump.last_seq <= top /\ rx \in Seq(Events)
        /\ Sound(rx, seen, pump.last_seq, ran)
    BY DEF CInv, Streamed
  <2> HIDE DEF top
  <2>3. events \in Seq(Events) /\ Sound(rx \o events, seen, top, ran)
    BY <2>2, SoundAudit
  <2>4. Sound(rx, seen, top, ran)
    BY <2>2, SoundHigher
  <2> HIDE DEF events
  <2>5. rx' \in Seq(Events) /\ Len(rx') <= Capacity /\ Sound(rx', seen, top, ran)
    BY <2>1, <2>2, <2>3, <2>4, Sends DEF CInv, Streamed
  <2>6. NoSeq \in Int
    BY DEF NoSeq
  <2> QED
    BY <2>1, <2>2, <2>5, <2>6 DEF CInv, Streamed, top
<1>7. CASE Deliver
  <2> DEFINE now == IF Head(rx).kind = "audit" THEN Head(rx).n ELSE seen
  <2>1. /\ rx # <<>> /\ rx' = Tail(rx) /\ seen' = now /\ UNCHANGED <<audit, pump, ran>>
    BY <1>7 DEF Deliver
  <2>2. /\ rx \in Seq(Events) /\ seen \in Int /\ pump.last_seq \in Int
        /\ seen <= pump.last_seq /\ Len(rx) <= Capacity
        /\ Sound(rx, seen, pump.last_seq, ran)
    BY DEF CInv, Streamed
  <2>3. /\ now \in Int /\ seen <= now /\ (now <= pump.last_seq \/ now = seen)
        /\ Sound(Tail(rx), now, pump.last_seq, ran)
    BY <2>1, <2>2, SoundTail
  <2> HIDE DEF now
  <2>4. Tail(rx) \in Seq(Events) /\ Len(Tail(rx)) <= Capacity
    <3>1. Tail(rx) \in Seq(Events) /\ Len(Tail(rx)) = Len(rx) - 1 /\ Len(rx) \in Nat
      BY <2>1, <2>2, HeadTailProperties, LenProperties
    <3> QED
      BY <2>2, <3>1, ControlAssumption
  <2>5. NoSeq \in Int
    BY DEF NoSeq
  <2> QED
    BY <2>1, <2>2, <2>3, <2>4, <2>5 DEF CInv, Streamed
<1>8. CASE (\E t \in Presented : WatchEvents(t)) \/ Unwatch
  <2>1. rx' = <<>> /\ UNCHANGED <<audit, pump, seen, ran>>
    BY <1>8 DEF WatchEvents, Unwatch
  <2>2. <<>> \in Seq(Events) /\ Len(<<>>) = 0 /\ 0 <= Capacity
    BY ControlAssumption
  <2>3. Sound(<<>>, seen, pump.last_seq, ran)
    BY <2>2 DEF Sound
  <2> QED
    BY <2>1, <2>2, <2>3 DEF CInv, Streamed
<1>9. CASE ServeGrpc
  <2>1. /\ pump' = [on |-> TRUE, last_seq |-> audit - 1] /\ UNCHANGED <<audit, seen, rx, ran>>
    BY <1>9 DEF ServeGrpc
  <2>2. /\ audit - 1 \in Int /\ pump.last_seq \in Int /\ seen \in Int
        /\ pump.last_seq <= audit - 1 /\ rx \in Seq(Events)
        /\ Sound(rx, seen, pump.last_seq, ran)
    BY DEF CInv, Streamed
  <2>3. Sound(rx, seen, audit - 1, ran)
    BY <2>2, SoundHigher
  <2> QED
    BY <2>1, <2>3 DEF CInv, Streamed, NoSeq
<1>10. CASE GrpcStops
  <2>1. /\ pump' \in [on : BOOLEAN, last_seq : Int] /\ pump'.last_seq = pump.last_seq
        /\ UNCHANGED <<audit, seen, rx, ran>>
    BY <1>10, Zenon DEF GrpcStops, CInv, Streamed
  <2> QED
    BY <2>1 DEF CInv, Streamed
<1>11. CASE AppendAudit
  <2>1. /\ audit' \in 1..MaxAudit /\ audit' = audit + 1 /\ UNCHANGED <<pump, seen, rx, ran>>
    BY <1>11, ControlAssumption DEF AppendAudit, feed, CInv, Streamed
  <2> QED
    BY <2>1 DEF CInv, Streamed
<1>12. CASE Drain \/ UNCHANGED cvars
  BY <1>2, <1>12 DEF Drain, cvars
<1>13. ASSUME NEW c \in Callers,
              Request(c) \/ ReloadFails(c) \/ ReloadGoesOn(c) \/ BeginRollback(c) \/ RollbackGoesOn(c)
       PROVE  Streamed'
  BY <1>2, <1>13 DEF Request, ReloadRequest, ReloadFails, ReloadGoesOn, BeginRollback, RollbackGoesOn
<1> QED
  BY <1>3, <1>4, <1>5, <1>6, <1>7, <1>8, <1>9, <1>10, <1>11, <1>12, <1>13
     DEF CNext, Handler, Server

(* The invariant holds at the start. *)
LEMMA ControlInit == CInit => CInv
<1> SUFFICES ASSUME CInit PROVE CInv
  OBVIOUS
<1>1. IInv
  BY InvInit DEF CInit
<1>2. Served
  <2>1. Free \in Requests /\ Free.surface = "none"
    BY DEF Requests, Free
  <2>2. /\ req = [c \in Callers |-> Free] /\ ran = {0} /\ told = {} /\ next_generation = 1
    BY DEF CInit, Init
  <2>3. ReloadsAreAuthorized
    BY <2>2 DEF ReloadsAreAuthorized
  <2>4. Placed
    BY <2>1, <2>2 DEF Placed
  <2> QED
    BY <2>1, <2>2, <2>3, <2>4 DEF Served
<1>3. Streamed
  <2>1. rx = <<>> /\ Len(rx) = 0 /\ rx \in Seq(Events)
    BY DEF CInit
  <2>2. Sound(rx, seen, pump.last_seq, ran)
    BY <2>1 DEF Sound
  <2> QED
    BY <2>1, <2>2, ControlAssumption DEF CInit, Streamed, NoSeq
<1> QED
  BY <1>1, <1>2, <1>3 DEF CInv

(* The inductive invariant of the control plane. *)
THEOREM ControlInvariant == CSpec => []CInv
<1>1. CInv /\ [CNext]_cvars => CInv'
  <2>1. CInv /\ [CNext]_cvars => IInv'
    BY ControlStep, InvStep DEF CInv
  <2> QED
    BY <2>1, CallersStep, StreamStep DEF CInv
<1> QED
  BY <1>1, ControlInit, PTL DEF CSpec

(* Reloads run only for a token with the write scope (authorize,            *)
(* AuthInterceptor, require), for any table of tokens.                      *)
THEOREM AuthorizationTheorem == CSpec => []ReloadsAreAuthorized
<1>1. CInv => ReloadsAreAuthorized
  BY DEF CInv, Served
<1> QED
  BY <1>1, ControlInvariant, PTL

(* No client is told of a generation that has not been published            *)
(* (reload_config of both surfaces), for any capacity of the channel.       *)
THEOREM ToldTheorem == CSpec => []TellsWhatRan
<1>1. CInv => TellsWhatRan
  BY LenProperties DEF CInv, Served, Streamed, Sound, TellsWhatRan
<1> QED
  BY <1>1, ControlInvariant, PTL

(* The audit feed is in order and without repetition (event_pump), for any  *)
(* capacity of the channel and any number of reconnects.                    *)
THEOREM FeedTheorem == CSpec => []AuditFeedIsOrdered
<1>1. CInv => AuditFeedIsOrdered
  <2> SUFFICES ASSUME CInv PROVE AuditFeedIsOrdered
    OBVIOUS
  <2>1. DOMAIN rx = 1..Len(rx) /\ seen \in Int /\ Sound(rx, seen, pump.last_seq, ran)
    BY LenProperties DEF CInv, Streamed
  <2>2. \A i \in 1..Len(rx) : rx[i].n \in Nat
    <3>1. \A i \in 1..Len(rx) : rx[i] \in Events
      BY ElementOfSeq DEF CInv, Streamed
    <3> QED
      BY <3>1 DEF Events
  <2> QED
    BY <2>1, <2>2 DEF Sound, AuditFeedIsOrdered
<1> QED
  BY <1>1, ControlInvariant, PTL

(* Type correctness of the control plane, for any bounds. *)
THEOREM ControlTypes == CSpec => []CTypeOK
<1>1. CInv => CTypeOK
  <2> SUFFICES ASSUME CInv PROVE CTypeOK
    OBVIOUS
  <2>1. \A c \in Callers : req[c] = Free \/ req[c].surface \in {"rest", "grpc", "announce"}
    BY DEF CInv, Served, Requests
  <2>2. pump.last_seq \in NoSeq..(audit - 1) /\ seen \in NoSeq..(audit - 1)
    BY DEF CInv, Streamed, NoSeq
  <2>3. \A i \in DOMAIN rx : rx[i] \in Events
    BY ElementOfSeq, LenProperties DEF CInv, Streamed
  <2> QED
    BY <2>1, <2>2, <2>3 DEF CInv, IInv, Served, Streamed, CTypeOK
<1> QED
  BY <1>1, ControlInvariant, PTL
=============================================================================
