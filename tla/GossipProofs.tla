---------------------------- MODULE GossipProofs ----------------------------
(***************************************************************************)
(* Proofs about Gossip, for any number of nodes, seeds, fanout and bounds: *)
(* the membership view agrees with the peer records, no counter slot and   *)
(* no incarnation is ahead of its owner's, and a death is only outbid.     *)
(***************************************************************************)
EXTENDS Gossip, TLAPS

----------------------------------------------------------------------------
(* The inductive invariant *)

States == {"Alive", "Suspect", "Dead"}
Records == [inc : Nat, state : States]

(* A view: records of some of the nodes of S. *)
ViewOK(view, S) == DOMAIN view \subseteq S /\ \A m \in DOMAIN view : view[m] \in Records

(* What a node keeps: records of the others, the members they make, and its *)
(* copy of the counter.                                                     *)
NodeOK(n) ==
  /\ incarnation[n] \in Nat
  /\ ViewOK(peers[n], Nodes \ {n})
  /\ membership[n] = {n} \cup Live(n)
  /\ counter[n] \in [Nodes -> Nat]

Domains == /\ DOMAIN incarnation = Nodes /\ DOMAIN peers = Nodes
           /\ DOMAIN membership = Nodes /\ DOMAIN counter = Nodes

(* No copy of a slot, and no record, is ahead of the node it is about,      *)
(* unless that node has come back with nothing.                             *)
CountBehind(c) == \A m \in Nodes \ reborn : c[m] <= counter[m][m]
IncBehind(view) == \A m \in DOMAIN view \ reborn : view[m].inc <= incarnation[m]

FrameOK(f) == /\ ViewOK(f.updates, Nodes) /\ f.counter \in [Nodes -> Nat]
              /\ CountBehind(f.counter) /\ IncBehind(f.updates)

Inv == /\ Domains
       /\ \A n \in Nodes : NodeOK(n) /\ CountBehind(counter[n]) /\ IncBehind(peers[n])
       /\ \A f \in net : FrameOK(f)

(* What the step of one node must establish for the invariant: only its own *)
(* part of the state moves, its part is sound, nothing of it that others    *)
(* may have copied shrinks, and what it sends is sound.                     *)
NodeStep(n) ==
  /\ Domains'
  /\ \A m \in Nodes \ {n} :
        /\ incarnation'[m] = incarnation[m] /\ peers'[m] = peers[m]
        /\ membership'[m] = membership[m] /\ counter'[m] = counter[m]
  /\ reborn \subseteq reborn'
  /\ NodeOK(n)'
  /\ n \notin reborn' => incarnation[n] <= incarnation'[n] /\ counter[n][n] <= counter'[n][n]
  /\ CountBehind(counter[n])' /\ IncBehind(peers[n])'
  /\ \A f \in net' : f \in net \/ FrameOK(f)'

(* Such a step preserves the invariant. *)
LEMMA NodeStepInv ==
  ASSUME Inv, NEW n \in Nodes, NodeStep(n)
  PROVE  Inv'
<1>1. ASSUME NEW m \in Nodes \ reborn'
      PROVE  /\ m \in Nodes \ reborn
             /\ incarnation[m] \in Nat /\ incarnation'[m] \in Nat
             /\ counter[m][m] \in Nat /\ counter'[m][m] \in Nat
             /\ incarnation[m] <= incarnation'[m] /\ counter[m][m] <= counter'[m][m]
  <2>1. NodeOK(m) /\ m \in Nodes \ reborn
    BY DEF Inv, NodeStep
  <2>2. incarnation[m] \in Nat /\ counter[m][m] \in Nat
    BY <2>1 DEF NodeOK
  <2>3. CASE m = n
    BY <1>1, <2>1, <2>2, <2>3 DEF NodeStep, NodeOK
  <2>4. CASE m # n
    <3>1. incarnation'[m] = incarnation[m] /\ counter'[m] = counter[m]
      BY <2>4 DEF NodeStep
    <3> QED
      BY <2>1, <2>2, <3>1
  <2> QED
    BY <2>3, <2>4
<1>2. ASSUME NEW c, c \in [Nodes -> Nat], CountBehind(c)
      PROVE  CountBehind(c)'
  <2> SUFFICES ASSUME NEW m \in Nodes \ reborn' PROVE c[m] <= counter'[m][m]
    BY DEF CountBehind
  <2>1. c[m] \in Nat /\ c[m] <= counter[m][m]
    BY <1>1, <1>2 DEF CountBehind
  <2> QED
    BY <1>1, <2>1
<1>3. ASSUME NEW v, ViewOK(v, Nodes), IncBehind(v)
      PROVE  IncBehind(v)'
  <2> SUFFICES ASSUME NEW m \in DOMAIN v \ reborn' PROVE v[m].inc <= incarnation'[m]
    BY DEF IncBehind
  <2>1. m \in Nodes \ reborn' /\ v[m].inc \in Nat
    BY <1>3 DEF ViewOK, Records
  <2>2. m \in DOMAIN v \ reborn /\ v[m].inc <= incarnation[m]
    BY <1>1, <1>3, <2>1 DEF IncBehind
  <2> QED
    BY <1>1, <2>1, <2>2
<1>4. ASSUME NEW m \in Nodes PROVE (NodeOK(m) /\ CountBehind(counter[m]) /\ IncBehind(peers[m]))'
  <2>1. CASE m = n
    BY <2>1 DEF NodeStep
  <2>2. CASE m # n
    <3>1. NodeOK(m) /\ CountBehind(counter[m]) /\ IncBehind(peers[m])
      BY DEF Inv
    <3>2. /\ incarnation'[m] = incarnation[m] /\ peers'[m] = peers[m]
          /\ membership'[m] = membership[m] /\ counter'[m] = counter[m]
      BY <2>2 DEF NodeStep
    <3>3. NodeOK(m)'
      BY <3>1, <3>2 DEF NodeOK, Live, LiveIn
    <3>4. CountBehind(counter[m])'
      BY <1>2, <3>1, <3>2 DEF NodeOK, CountBehind
    <3>5. ViewOK(peers[m], Nodes)
      BY <3>1 DEF NodeOK, ViewOK
    <3>6. IncBehind(peers[m])'
      BY <1>3, <3>1, <3>2, <3>5 DEF IncBehind
    <3> QED
      BY <3>3, <3>4, <3>6
  <2> QED
    BY <2>1, <2>2
<1>5. ASSUME NEW f \in net' PROVE FrameOK(f)'
  <2>1. CASE f \in net
    <3>1. FrameOK(f)
      BY <2>1 DEF Inv
    <3> QED
      BY <1>2, <1>3, <3>1 DEF FrameOK
  <2> QED
    BY <2>1 DEF NodeStep
<1> QED
  BY <1>4, <1>5 DEF Inv, NodeStep

----------------------------------------------------------------------------
(* Sending *)

(* A frame carries its payload. *)
LEMMA FrameFields ==
  \A n, to, seq, kind, target, p :
     /\ Frame(n, to, seq, kind, target, p).updates = p.updates
     /\ Frame(n, to, seq, kind, target, p).counter = p.counter
  BY DEF Frame

(* The frames of a round all carry the payload of the round. *)
LEMMA RoundFields ==
  ASSUME NEW n, NEW view, NEW payload, NEW round \in GossipRound(n, view, payload), NEW f \in round
  PROVE  f.updates = payload.updates /\ f.counter = payload.counter
<1>1. PICK dests : round = {Frame(n, m, NoSeq, "Ping", NoNode, payload) : m \in dests \cup Seeds[n]}
  BY Zenon DEF GossipRound
<1>2. PICK m : f = Frame(n, m, NoSeq, "Ping", NoNode, payload)
  BY <1>1, Zenon
<1> QED
  BY <1>2 DEF Frame

(* What gets onto the wire was there or has just been sent. *)
LEMMA Transmitted ==
  ASSUME NEW rest, NEW frames, Transmit(rest, frames)
  PROVE  \A f \in net' : f \in rest \/ f \in frames
  BY Zenon DEF Transmit

(* snapshot of a sound state is a sound payload. *)
LEMMA SnapshotSound ==
  ASSUME NEW n \in Nodes, NEW view, NEW f, NEW inc, NEW cnt,
         f.updates = Snapshot(n, inc, view, cnt).updates,
         f.counter = Snapshot(n, inc, view, cnt).counter,
         inc = incarnation'[n], cnt = counter'[n],
         inc \in Nat, cnt \in [Nodes -> Nat], CountBehind(counter[n])',
         ViewOK(view, Nodes \ {n}), IncBehind(view)'
  PROVE  FrameOK(f)'
<1>1. /\ f.updates = [m \in DOMAIN view \cup {n} |->
                         IF m = n THEN [inc |-> inc, state |-> "Alive"] ELSE view[m]]
      /\ f.counter = cnt
  BY DEF Snapshot
<1> DEFINE u == f.updates
<1>2. DOMAIN u = DOMAIN view \cup {n} /\ u[n] = [inc |-> inc, state |-> "Alive"]
      /\ \A m \in DOMAIN view : m # n => u[m] = view[m]
  BY <1>1
<1> HIDE DEF u
<1>3. ViewOK(u, Nodes)
  BY <1>2 DEF ViewOK, Records, States
<1>4. IncBehind(u)'
  BY <1>2 DEF ViewOK, IncBehind
<1>5. CountBehind(f.counter)'
  BY <1>1 DEF CountBehind
<1> QED
  BY <1>1, <1>3, <1>4, <1>5 DEF FrameOK, u

----------------------------------------------------------------------------
(* The steps of one node *)

(* The node's own values stay sound when only its view moves, to one that   *)
(* keeps incarnations and lives, and it sends snapshots of that view.       *)
LEMMA QuietNode ==
  ASSUME Inv, NEW n \in Nodes, Domains', UNCHANGED <<incarnation, counter, reborn>>,
         \A m \in Nodes \ {n} : peers'[m] = peers[m] /\ membership'[m] = membership[m],
         ViewOK(peers'[n], Nodes \ {n}), DOMAIN peers'[n] = DOMAIN peers[n],
         \A m \in DOMAIN peers[n] : peers'[n][m].inc = peers[n][m].inc,
         membership'[n] = {n} \cup LiveIn(peers'[n]),
         \A f \in net' : \/ f \in net
                         \/ LET p == Snapshot(n, incarnation[n], peers'[n], counter[n])
                            IN  f.updates = p.updates /\ f.counter = p.counter
  PROVE  NodeStep(n)
<1>1. NodeOK(n) /\ CountBehind(counter[n]) /\ IncBehind(peers[n])
  BY DEF Inv
<1>2. incarnation[n] \in Nat /\ counter[n] \in [Nodes -> Nat] /\ counter[n][n] \in Nat
  BY <1>1 DEF NodeOK
<1>3. NodeOK(n)'
  BY <1>2 DEF NodeOK, Live
<1>4. CountBehind(counter[n])' /\ IncBehind(peers[n])'
  BY <1>1 DEF CountBehind, IncBehind
<1>5. ASSUME NEW f \in net' PROVE f \in net \/ FrameOK(f)'
  <2>1. SUFFICES ASSUME f \notin net PROVE FrameOK(f)'
    OBVIOUS
  <2>2. /\ f.updates = Snapshot(n, incarnation[n], peers'[n], counter[n]).updates
        /\ f.counter = Snapshot(n, incarnation[n], peers'[n], counter[n]).counter
    BY <2>1
  <2> QED
    BY <1>2, <1>4, <2>2, SnapshotSound
<1>6. incarnation[n] <= incarnation'[n] /\ counter[n][n] <= counter'[n][n]
  BY <1>2
<1> QED
  BY <1>3, <1>4, <1>5, <1>6 DEF NodeStep

(* w has a record of all that v has one of, at the same or a higher         *)
(* incarnation, and at a higher one where a death of v is lifted.           *)
Outbid(v, w) ==
  \A m \in DOMAIN v : /\ m \in DOMAIN w
                      /\ w[m].inc >= v[m].inc
                      /\ v[m].state = "Dead" /\ w[m].state # "Dead" => w[m].inc > v[m].inc

(* gossip_round, start_probe and a request to helpers: the view is as       *)
(* before.                                                                  *)
LEMMA TickStep ==
  ASSUME Inv, NEW n \in Nodes, Tick(n) \/ DirectTimeout(n)
  PROVE  NodeStep(n) /\ UNCHANGED peers
<1>1. NodeOK(n) /\ Domains
  BY DEF Inv
<1>2. UNCHANGED <<incarnation, counter, reborn, peers, membership>>
  BY DEF Tick, DirectTimeout, life, shared
<1>3. ASSUME NEW f \in net', f \notin net
      PROVE  f.updates = Payload(n).updates /\ f.counter = Payload(n).counter
  <2>1. CASE Tick(n)
    <3> DEFINE ping == Frame(n, Candidate(n), <<n, FreshSeq(n)>>, "Ping", NoNode, Payload(n))
    <3>1. PICK round \in GossipRound(n, peers[n], Payload(n)) :
            Transmit(net, round \cup IF probe[n] = NoProbe /\ Live(n) # {} THEN {ping} ELSE {})
      BY <2>1, Zenon DEF Tick
    <3>2. f \in round \/ f = ping
      BY <1>3, <3>1, Transmitted
    <3> QED
      BY <3>2, RoundFields, FrameFields
  <2>2. CASE DirectTimeout(n)
    <3>1. PICK helpers : Transmit(net, {Frame(n, m, probe[n].seq, "PingReq", probe[n].target,
                                              Payload(n)) : m \in helpers})
      BY <2>2, Zenon DEF DirectTimeout
    <3>2. PICK m : f = Frame(n, m, probe[n].seq, "PingReq", probe[n].target, Payload(n))
      BY <1>3, <3>1, Transmitted
    <3> QED
      BY <3>2, FrameFields
  <2> QED
    BY <2>1, <2>2
<1>4. ViewOK(peers'[n], Nodes \ {n}) /\ membership'[n] = {n} \cup LiveIn(peers'[n])
  BY <1>1, <1>2 DEF NodeOK, Live
<1>5. Domains'
  BY <1>1, <1>2 DEF Domains
<1> QED
  BY <1>2, <1>3, <1>4, <1>5, QuietNode DEF Payload

(* advance_probe gives up: an Alive target is suspected at its incarnation. *)
LEMMA IndirectTimeoutStep ==
  ASSUME Inv, NEW n \in Nodes, IndirectTimeout(n)
  PROVE  NodeStep(n) /\ Outbid(peers[n], peers'[n])
<1> DEFINE t == probe[n].target
<1>1. NodeOK(n) /\ Domains
  BY DEF Inv
<1>2. UNCHANGED <<incarnation, counter, reborn, membership>> /\ peers' = MarkSuspect(n, t)
  BY DEF IndirectTimeout, life
<1>3. \A m \in DOMAIN peers[n] : peers[n][m] \in Records
  BY <1>1 DEF NodeOK, ViewOK
<1>5. /\ DOMAIN peers' = Nodes /\ DOMAIN peers'[n] = DOMAIN peers[n]
      /\ \A m \in Nodes \ {n} : peers'[m] = peers[m]
  BY <1>1, <1>2 DEF MarkSuspect, Domains
<1>6. ASSUME NEW m \in DOMAIN peers[n]
      PROVE  /\ peers'[n][m] \in Records /\ peers'[n][m].inc = peers[n][m].inc
             /\ peers'[n][m].state = "Dead" <=> peers[n][m].state = "Dead"
  <2>1. CASE m = t /\ peers[n][t].state = "Alive"
    <3>1. peers'[n][m] = [peers[n][m] EXCEPT !.state = "Suspect"]
      BY <1>1, <1>2, <1>3, <2>1 DEF MarkSuspect, Domains
    <3> QED
      BY <1>3, <2>1, <3>1 DEF Records, States
  <2>2. CASE ~(m = t /\ peers[n][t].state = "Alive")
    <3>1. peers'[n][m] = peers[n][m]
      BY <1>1, <1>2, <1>3, <2>2 DEF MarkSuspect, Domains
    <3> QED
      BY <1>3, <3>1
  <2> QED
    BY <2>1, <2>2
<1>7. ViewOK(peers'[n], Nodes \ {n})
  BY <1>1, <1>5, <1>6 DEF NodeOK, ViewOK
<1>8. membership'[n] = {n} \cup LiveIn(peers'[n])
  BY <1>1, <1>2, <1>5, <1>6 DEF NodeOK, Live, LiveIn
<1>9. ASSUME NEW f \in net', f \notin net
      PROVE  LET p == Snapshot(n, incarnation[n], peers'[n], counter[n])
             IN  f.updates = p.updates /\ f.counter = p.counter
  <2> DEFINE p == Snapshot(n, incarnation[n], peers'[n], counter[n])
  <2>1. PICK round \in GossipRound(n, peers'[n], p) : Transmit(net, round)
    BY DEF IndirectTimeout
  <2> HIDE DEF p
  <2>2. f \in round
    BY <1>9, <2>1, Transmitted
  <2>3. f.updates = p.updates /\ f.counter = p.counter
    BY <2>1, <2>2, RoundFields
  <2> QED
    BY <2>3 DEF p
<1> HIDE DEF t
<1>10. Outbid(peers[n], peers'[n])
  BY <1>3, <1>5, <1>6 DEF Outbid, Records
<1>11. Domains'
  BY <1>1, <1>2, <1>5 DEF Domains
<1>12. \A m \in DOMAIN peers[n] : peers'[n][m].inc = peers[n][m].inc
  BY <1>6
<1>13. NodeStep(n)
  BY <1>2, <1>5, <1>7, <1>8, <1>9, <1>11, <1>12, QuietNode
<1> QED
  BY <1>10, <1>13

(* reap_suspects: suspicions turn into deaths at the same incarnation, and  *)
(* the dead leave the members.                                              *)
LEMMA ReapStep ==
  ASSUME Inv, NEW n \in Nodes, NEW dead \in SUBSET Live(n), ReapSuspects(n, dead)
  PROVE  NodeStep(n) /\ Outbid(peers[n], peers'[n])
<1>1. NodeOK(n) /\ Domains
  BY DEF Inv
<1>2. /\ UNCHANGED <<incarnation, counter, reborn>>
      /\ \A m \in dead : peers[n][m].state = "Suspect"
      /\ peers' = [peers EXCEPT ![n] =
                     [m \in DOMAIN @ |-> IF m \in dead THEN [@[m] EXCEPT !.state = "Dead"] ELSE @[m]]]
      /\ membership' = [membership EXCEPT ![n] = @ \ (dead \ {n})]
  BY DEF ReapSuspects, life
<1>3. \A m \in DOMAIN peers[n] : m \in Nodes \ {n} /\ peers[n][m] \in Records
  BY <1>1 DEF NodeOK, ViewOK
<1>4. /\ DOMAIN peers' = Nodes /\ DOMAIN peers'[n] = DOMAIN peers[n]
      /\ \A m \in Nodes \ {n} : peers'[m] = peers[m]
      /\ \A m \in DOMAIN peers[n] :
           peers'[n][m] = IF m \in dead THEN [peers[n][m] EXCEPT !.state = "Dead"] ELSE peers[n][m]
  BY <1>1, <1>2 DEF Domains
<1>5. ASSUME NEW m \in DOMAIN peers[n]
      PROVE  /\ peers'[n][m] \in Records /\ peers'[n][m].inc = peers[n][m].inc
             /\ peers'[n][m].state = "Dead" <=> m \in dead \/ peers[n][m].state = "Dead"
  <2>1. peers[n][m] \in Records
    BY <1>3
  <2>2. CASE m \in dead
    <3>1. peers'[n][m] = [peers[n][m] EXCEPT !.state = "Dead"]
      BY <1>4, <2>2
    <3> QED
      BY <2>1, <2>2, <3>1 DEF Records, States
  <2>3. CASE m \notin dead
    BY <1>4, <2>1, <2>3, Zenon
  <2> QED
    BY <2>2, <2>3
<1>6. ViewOK(peers'[n], Nodes \ {n})
  BY <1>1, <1>4, <1>5 DEF NodeOK, ViewOK
<1>7. /\ DOMAIN membership' = Nodes /\ \A m \in Nodes \ {n} : membership'[m] = membership[m]
      /\ membership'[n] = membership[n] \ (dead \ {n})
  BY <1>1, <1>2 DEF Domains
<1>8. membership'[n] = {n} \cup LiveIn(peers'[n])
  <2>1. n \notin DOMAIN peers[n] /\ membership[n] = {n} \cup LiveIn(peers[n])
    BY <1>1, <1>3 DEF NodeOK, Live
  <2>2. LiveIn(peers'[n]) = LiveIn(peers[n]) \ dead
    BY <1>4, <1>5 DEF LiveIn
  <2>3. n \notin LiveIn(peers[n])
    BY <2>1 DEF LiveIn
  <2> QED
    BY <1>7, <2>1, <2>2, <2>3
<1>9. ASSUME NEW f \in net', f \notin net
      PROVE  LET p == Snapshot(n, incarnation[n], peers'[n], counter[n])
             IN  f.updates = p.updates /\ f.counter = p.counter
  <2> DEFINE p == Snapshot(n, incarnation[n], peers'[n], counter[n])
  <2>1. PICK round \in GossipRound(n, peers'[n], p) : Transmit(net, round)
    BY DEF ReapSuspects
  <2> HIDE DEF p
  <2>2. f \in round
    BY <1>9, <2>1, Transmitted
  <2>3. f.updates = p.updates /\ f.counter = p.counter
    BY <2>1, <2>2, RoundFields
  <2> QED
    BY <2>3 DEF p
<1>10. Outbid(peers[n], peers'[n])
  BY <1>3, <1>4, <1>5 DEF Outbid, Records
<1>11. Domains'
  BY <1>1, <1>2, <1>4, <1>7 DEF Domains
<1>12. \A m \in DOMAIN peers[n] : peers'[n][m].inc = peers[n][m].inc
  BY <1>5
<1>13. NodeStep(n)
  BY <1>2, <1>4, <1>6, <1>7, <1>8, <1>9, <1>11, <1>12, QuietNode
<1> QED
  BY <1>10, <1>13

----------------------------------------------------------------------------
(* reconcile *)

(* Only a higher incarnation, or a higher rank at the same one, replaces a  *)
(* record (apply_update): a replaced death was outbid.                      *)
LEMMA SupersedesOutbids ==
  ASSUME NEW u \in Records, NEW p \in Records, Supersedes(u, p)
  PROVE  u.inc >= p.inc /\ (p.state = "Dead" /\ u.state # "Dead" => u.inc > p.inc)
<1>1. u.inc \in Nat /\ p.inc \in Nat /\ u.state \in States /\ p.state \in States
  BY DEF Records
<1>2. CASE u.inc > p.inc
  BY <1>1, <1>2
<1>3. CASE u.inc = p.inc /\ Rank(u.state) > Rank(p.state)
  <2>1. u.state # "Dead" => Rank(u.state) \in {0, 1}
    BY <1>1 DEF Rank, States
  <2>2. Rank("Dead") = 2
    BY DEF Rank
  <2>3. p.state # "Dead" \/ u.state = "Dead"
    BY <1>3, <2>1, <2>2
  <2> QED
    BY <1>1, <1>3, <2>3
<1> QED
  BY <1>2, <1>3 DEF Supersedes

(* Folding sound updates into a sound view gives a sound view, which agrees *)
(* with the members apply_update keeps beside it.                           *)
LEMMA ViewAfterSound ==
  ASSUME NEW n \in Nodes, NEW u, ViewOK(peers[n], Nodes \ {n}), ViewOK(u, Nodes),
         membership[n] = {n} \cup Live(n), IncBehind(peers[n]), IncBehind(u)
  PROVE  LET view == ViewAfter(n, u)
         IN  /\ ViewOK(view, Nodes \ {n}) /\ DOMAIN peers[n] \subseteq DOMAIN view
             /\ Outbid(peers[n], view) /\ IncBehind(view)
             /\ MembersAfter(n, u) = {n} \cup LiveIn(view)
<1> DEFINE view == ViewAfter(n, u)
           L == Learned(n, u)
<1>1. /\ L \subseteq DOMAIN u \ {n} /\ n \notin L
      /\ \A m \in L : m \in DOMAIN peers[n] => Supersedes(u[m], peers[n][m])
  BY DEF Learned
<1>2. /\ DOMAIN view = DOMAIN peers[n] \cup L
      /\ \A m \in L : view[m] = u[m]
      /\ \A m \in DOMAIN peers[n] : m \notin L => view[m] = peers[n][m]
  BY DEF ViewAfter
<1>3. MembersAfter(n, u) = (membership[n] \cup {m \in L : u[m].state # "Dead"})
                              \ {m \in L : u[m].state = "Dead"}
  BY DEF MembersAfter
<1> HIDE DEF view, L
<1>4. /\ \A m \in DOMAIN peers[n] : m \in Nodes \ {n} /\ peers[n][m] \in Records
      /\ \A m \in L : m \in Nodes \ {n} /\ u[m] \in Records
  BY <1>1 DEF ViewOK
<1>5. ViewOK(view, Nodes \ {n})
  BY <1>2, <1>4 DEF ViewOK
<1>6. Outbid(peers[n], view)
  <2> SUFFICES ASSUME NEW m \in DOMAIN peers[n]
               PROVE  /\ m \in DOMAIN view
                      /\ view[m].inc >= peers[n][m].inc
                      /\ peers[n][m].state = "Dead" /\ view[m].state # "Dead"
                            => view[m].inc > peers[n][m].inc
    BY DEF Outbid
  <2>1. CASE m \in L
    BY <1>1, <1>2, <1>4, <2>1, SupersedesOutbids
  <2>2. CASE m \notin L
    BY <1>2, <1>4, <2>2 DEF Records
  <2> QED
    BY <2>1, <2>2
<1>7. IncBehind(view)
  BY <1>1, <1>2 DEF IncBehind
<1>8. MembersAfter(n, u) = {n} \cup LiveIn(view)
  <2>1. membership[n] = {n} \cup {m \in DOMAIN peers[n] : peers[n][m].state # "Dead"}
    BY DEF Live, LiveIn
  <2>2. ASSUME NEW m, m # n
        PROVE  m \in MembersAfter(n, u) <=> m \in DOMAIN view /\ view[m].state # "Dead"
    <3>1. CASE m \in L
      BY <1>2, <1>3, <2>2, <3>1
    <3>2. CASE m \notin L
      BY <1>2, <1>3, <2>1, <2>2, <3>2
    <3> QED
      BY <3>1, <3>2
  <2>3. n \in MembersAfter(n, u)
    BY <1>1, <1>3, <2>1
  <2>4. \A m : m \in LiveIn(view) <=> m \in DOMAIN view /\ view[m].state # "Dead"
    BY DEF LiveIn
  <2> QED
    BY <2>2, <2>3, <2>4, Zenon
<1>9. DOMAIN peers[n] \subseteq DOMAIN view
  BY <1>2
<1> QED
  BY <1>5, <1>6, <1>7, <1>8, <1>9 DEF view

(* mark_alive leaves the dead, the incarnations and the known peers alone.  *)
LEMMA MarkAliveSound ==
  ASSUME NEW S, NEW view, ViewOK(view, S), NEW t
  PROVE  LET w == MarkAlive(view, t)
         IN  /\ ViewOK(w, S) /\ DOMAIN w = DOMAIN view /\ LiveIn(w) = LiveIn(view)
             /\ \A m \in DOMAIN view : /\ w[m].inc = view[m].inc
                                       /\ w[m].state = "Dead" <=> view[m].state = "Dead"
<1> DEFINE w == MarkAlive(view, t)
<1>1. CASE view[t].state = "Dead"
  BY <1>1 DEF MarkAlive
<1>2. CASE view[t].state # "Dead"
  <2>1. w = [view EXCEPT ![t].state = "Alive"]
    BY <1>2 DEF MarkAlive
  <2>2. /\ DOMAIN w = DOMAIN view
        /\ t \in DOMAIN view => w[t] = [view[t] EXCEPT !.state = "Alive"]
        /\ \A m \in DOMAIN view : m # t => w[m] = view[m]
    BY <2>1
  <2> HIDE DEF w
  <2>3. t \in DOMAIN view => w[t] \in Records /\ w[t].inc = view[t].inc /\ w[t].state = "Alive"
    BY <2>2 DEF ViewOK, Records, States
  <2>4. \A m \in DOMAIN view : /\ w[m] \in Records /\ w[m].inc = view[m].inc
                               /\ w[m].state = "Dead" <=> view[m].state = "Dead"
    BY <1>2, <2>2, <2>3 DEF ViewOK
  <2>5. LiveIn(w) = LiveIn(view)
    BY <2>2, <2>4 DEF LiveIn
  <2> QED
    BY <2>2, <2>4, <2>5 DEF ViewOK, w
<1> QED
  BY <1>1, <1>2

(* GCounter::merge of two sound copies is a sound copy, and loses nothing.  *)
LEMMA MergeSound ==
  ASSUME NEW c \in [Nodes -> Nat], NEW d \in [Nodes -> Nat]
  PROVE  /\ Merge(c, d) \in [Nodes -> Nat]
         /\ \A m \in Nodes : /\ c[m] <= Merge(c, d)[m]
                             /\ \A k \in Nat : c[m] <= k /\ d[m] <= k => Merge(c, d)[m] <= k
  BY DEF Merge, MaxOf

(* A frame is folded in: the node's part of the state stays sound, and what *)
(* it sends is a snapshot taken after the updates were applied.             *)
LEMMA ReceiveStep ==
  ASSUME Inv, NEW n \in Nodes, NEW f \in net, NEW reply, Receive(n, f, reply),
         \A g \in reply : g.updates = Payload(n)'.updates /\ g.counter = Payload(n)'.counter
  PROVE  NodeStep(n) /\ Outbid(peers[n], peers'[n])
<1> DEFINE u == f.updates
           t == probe[n].target
           inc == IncarnationAfter(n, u)
           cnt == Merge(counter[n], f.counter)
<1>0. PICK view : view = ViewAfter(n, u)
  OBVIOUS
<1>1. NodeOK(n) /\ Domains /\ FrameOK(f) /\ CountBehind(counter[n]) /\ IncBehind(peers[n])
  BY DEF Inv
<1>2. UNCHANGED reborn /\ Reconcile(n, f)
  BY DEF Receive, life
<1>3. /\ ViewOK(view, Nodes \ {n}) /\ DOMAIN peers[n] \subseteq DOMAIN view
      /\ Outbid(peers[n], view) /\ IncBehind(view)
      /\ MembersAfter(n, u) = {n} \cup LiveIn(view)
  BY <1>0, <1>1, ViewAfterSound, Zenon DEF NodeOK, FrameOK
<1>4. /\ cnt \in [Nodes -> Nat]
      /\ \A m \in Nodes : /\ counter[n][m] <= cnt[m]
                          /\ \A k \in Nat : counter[n][m] <= k /\ f.counter[m] <= k => cnt[m] <= k
  BY <1>1, MergeSound DEF NodeOK, FrameOK
<1>5. inc \in Nat /\ incarnation[n] \in Nat /\ incarnation[n] <= inc
  <2>1. incarnation[n] \in Nat
    BY <1>1 DEF NodeOK
  <2>2. n \in DOMAIN u => u[n].inc \in Nat
    BY <1>1 DEF FrameOK, ViewOK, Records
  <2> QED
    BY <2>1, <2>2 DEF IncarnationAfter, Refuted
<1>6. /\ incarnation' = [incarnation EXCEPT ![n] = inc]
      /\ peers' = [peers EXCEPT ![n] = IF Acked(n, f) THEN MarkAlive(view, t) ELSE view]
      /\ counter' = [counter EXCEPT ![n] = cnt]
      /\ membership' = [membership EXCEPT ![n] =
            MembersAfter(n, u) \cup {m \in DOMAIN view : /\ Acked(n, f) /\ m = t
                                                        /\ view[m].state # "Dead"}]
  BY <1>0, <1>2 DEF Reconcile
<1>7. \A g \in net' : \/ g \in net
                      \/ g \in reply
                      \/ LET p == Snapshot(n, inc, view, cnt)
                         IN  g.updates = p.updates /\ g.counter = p.counter
  <2> DEFINE p == Snapshot(n, inc, view, cnt)
  <2>1. PICK rest \in {net, net \ {f}}, round \in Refutation(n, f) : Transmit(rest, round \cup reply)
    BY Zenon DEF Receive
  <2>2. round = {} \/ round \in GossipRound(n, view, p)
    BY <1>0 DEF Refutation
  <2> HIDE DEF p
  <2>3. ASSUME NEW g \in round PROVE g.updates = p.updates /\ g.counter = p.counter
    BY <2>2, <2>3, RoundFields
  <2>4. \A g \in net' : g \in rest \/ g \in round \/ g \in reply
    BY <2>1, Transmitted
  <2> QED
    BY <2>3, <2>4 DEF p
<1> HIDE DEF u, inc, cnt, t
<1>8. /\ Domains'
      /\ \A m \in Nodes \ {n} :
           /\ incarnation'[m] = incarnation[m] /\ peers'[m] = peers[m]
           /\ membership'[m] = membership[m] /\ counter'[m] = counter[m]
  BY <1>1, <1>2, <1>6 DEF Domains
<1>9. incarnation'[n] = inc /\ counter'[n] = cnt
  BY <1>1, <1>6 DEF Domains
<1>10. /\ peers'[n] = IF Acked(n, f) THEN MarkAlive(view, t) ELSE view
       /\ membership'[n] = MembersAfter(n, u) \cup {m \in DOMAIN view : /\ Acked(n, f) /\ m = t
                                                                       /\ view[m].state # "Dead"}
  BY <1>1, <1>6 DEF Domains
<1>11. /\ ViewOK(peers'[n], Nodes \ {n}) /\ DOMAIN peers'[n] = DOMAIN view
       /\ LiveIn(peers'[n]) = LiveIn(view)
       /\ \A m \in DOMAIN view : /\ peers'[n][m].inc = view[m].inc
                                 /\ peers'[n][m].state = "Dead" <=> view[m].state = "Dead"
  <2>1. CASE Acked(n, f)
    <3>1. peers'[n] = MarkAlive(view, t)
      BY <1>10, <2>1
    <3>2. ViewOK(view, Nodes \ {n})
      BY <1>3
    <3> QED
      BY <3>1, <3>2, MarkAliveSound
  <2>2. CASE ~Acked(n, f)
    <3>1. peers'[n] = view
      BY <1>10, <2>2
    <3> QED
      BY <1>3, <3>1, Zenon
  <2> QED
    BY <2>1, <2>2
<1>12. Outbid(peers[n], peers'[n])
  BY <1>3, <1>11, Zenon DEF Outbid
<1>13. membership'[n] = {n} \cup LiveIn(peers'[n])
  BY <1>3, <1>10, <1>11, Zenon DEF LiveIn
<1>14. NodeOK(n)'
  BY <1>4, <1>5, <1>9, <1>11, <1>13, Zenon DEF NodeOK, Live
<1>15. CountBehind(counter[n])'
  <2> SUFFICES ASSUME NEW m \in Nodes \ reborn PROVE cnt[m] <= counter'[m][m]
    BY <1>2, <1>9 DEF CountBehind
  <2>1. CASE m = n
    BY <1>4, <1>9, <2>1
  <2>2. CASE m # n
    <3>1. counter[m][m] \in Nat
      BY Zenon DEF Inv, NodeOK
    <3>2. counter[n][m] <= counter[m][m] /\ f.counter[m] <= counter[m][m]
      BY <1>1, Zenon DEF CountBehind, FrameOK
    <3>3. counter'[m][m] = counter[m][m]
      BY <1>8, <2>2
    <3> QED
      BY <1>4, <3>1, <3>2, <3>3
  <2> QED
    BY <2>1, <2>2, Zenon
<1>16. IncBehind(view)' /\ IncBehind(peers[n])'
  <2>1. \A m \in DOMAIN view \ reborn : view[m].inc <= incarnation'[m]
    BY <1>3, <1>8 DEF IncBehind, ViewOK
  <2> QED
    BY <1>2, <1>11, <2>1 DEF IncBehind
<1>17. ASSUME NEW g \in net' PROVE g \in net \/ FrameOK(g)'
  <2>1. CASE g \in reply
    <3>1. /\ g.updates = Snapshot(n, incarnation'[n], peers'[n], counter'[n]).updates
          /\ g.counter = Snapshot(n, incarnation'[n], peers'[n], counter'[n]).counter
      BY <2>1, Zenon DEF Payload
    <3> QED
      BY <1>4, <1>5, <1>9, <1>11, <1>15, <1>16, <3>1, SnapshotSound, Zenon
  <2>2. CASE LET p == Snapshot(n, inc, view, cnt)
             IN  g.updates = p.updates /\ g.counter = p.counter
    BY <1>3, <1>4, <1>5, <1>9, <1>15, <1>16, <2>2, SnapshotSound, Zenon
  <2> QED
    BY <1>7, <2>1, <2>2
<1>18. incarnation[n] <= incarnation'[n] /\ counter[n][n] <= counter'[n][n]
  BY <1>4, <1>5, <1>9, Zenon
<1> QED
  BY <1>2, <1>8, <1>12, <1>14, <1>15, <1>16, <1>17, <1>18 DEF NodeStep

(* Every handler replies with a snapshot of the reconciled state.           *)
LEMMA HandleStep ==
  ASSUME Inv, NEW n \in Nodes, NEW f \in net, Handle(n, f)
  PROVE  NodeStep(n) /\ Outbid(peers[n], peers'[n])
<1>2. CASE HandlePing(n, f)
  <2> DEFINE reply == {Frame(n, f.from, f.seq, "Ack", NoNode, Payload(n)')}
  <2>1. Receive(n, f, reply)
    BY <1>2 DEF HandlePing
  <2>2. \A g \in reply : g.updates = Payload(n)'.updates /\ g.counter = Payload(n)'.counter
    BY FrameFields
  <2> HIDE DEF reply
  <2> QED
    BY <2>1, <2>2, ReceiveStep
<1>3. CASE HandlePingReq(n, f)
  <2> DEFINE reply == {Frame(n, f.target, f.seq, "Ping", NoNode, Payload(n)')}
  <2>1. Receive(n, f, reply)
    BY <1>3 DEF HandlePingReq
  <2>2. \A g \in reply : g.updates = Payload(n)'.updates /\ g.counter = Payload(n)'.counter
    BY FrameFields
  <2> HIDE DEF reply
  <2> QED
    BY <2>1, <2>2, ReceiveStep
<1>4. CASE HandleAck(n, f)
  <2> DEFINE forward == {r \in relays[n] : r.seq = f.seq /\ r.target = f.from}
             reply == {Frame(n, r.origin, f.seq, "Ack", NoNode, Payload(n)') : r \in forward}
  <2>1. Receive(n, f, reply)
    BY <1>4 DEF HandleAck
  <2>2. \A g \in reply : g.updates = Payload(n)'.updates /\ g.counter = Payload(n)'.counter
    BY FrameFields
  <2> HIDE DEF reply
  <2> QED
    BY <2>1, <2>2, ReceiveStep
<1> QED
  BY <1>2, <1>3, <1>4 DEF Handle

(* incr: the owner's slot is the one that grows. *)
LEMMA IncrStep ==
  ASSUME Inv, NEW n \in Nodes, Incr(n)
  PROVE  NodeStep(n) /\ UNCHANGED peers
<1>1. NodeOK(n) /\ Domains /\ CountBehind(counter[n]) /\ IncBehind(peers[n])
  BY DEF Inv
<1>2. /\ UNCHANGED <<incarnation, peers, membership, net, reborn>>
      /\ counter' = [counter EXCEPT ![n][n] = @ + 1]
  BY DEF Incr, life
<1>3. /\ DOMAIN counter' = Nodes /\ \A m \in Nodes \ {n} : counter'[m] = counter[m]
      /\ counter'[n] = [counter[n] EXCEPT ![n] = counter[n][n] + 1]
  BY <1>1, <1>2 DEF Domains
<1>4. /\ counter[n] \in [Nodes -> Nat] /\ counter'[n] \in [Nodes -> Nat]
      /\ counter'[n][n] = counter[n][n] + 1
      /\ \A m \in Nodes \ {n} : counter'[n][m] = counter[n][m]
  BY <1>1, <1>3 DEF NodeOK
<1>5. NodeOK(n)'
  BY <1>1, <1>2, <1>4 DEF NodeOK, Live
<1>6. CountBehind(counter[n])'
  BY <1>1, <1>2, <1>3, <1>4 DEF CountBehind
<1>7. IncBehind(peers[n])'
  BY <1>1, <1>2 DEF IncBehind
<1>8. Domains'
  BY <1>1, <1>2, <1>3 DEF Domains
<1>9. incarnation[n] <= incarnation'[n] /\ counter[n][n] <= counter'[n][n]
  BY <1>1, <1>2, <1>4 DEF NodeOK
<1> QED
  BY <1>2, <1>3, <1>5, <1>6, <1>7, <1>8, <1>9 DEF NodeStep

(* spawn on the same address: the node starts from nothing, and from then   *)
(* on nothing is claimed of the copies of its former slot and incarnation.  *)
LEMMA RestartStep ==
  ASSUME Inv, NEW n \in Nodes, Restart(n)
  PROVE  NodeStep(n)
<1>1. Domains
  BY DEF Inv
<1>2. /\ reborn' = reborn \cup {n} /\ UNCHANGED net
      /\ incarnation' = [incarnation EXCEPT ![n] = 0]
      /\ peers' = [peers EXCEPT ![n] = <<>>]
      /\ membership' = [membership EXCEPT ![n] = {n}]
      /\ counter' = [counter EXCEPT ![n] = [m \in Nodes |-> 0]]
  BY DEF Restart
<1>3. /\ Domains'
      /\ \A m \in Nodes \ {n} :
           /\ incarnation'[m] = incarnation[m] /\ peers'[m] = peers[m]
           /\ membership'[m] = membership[m] /\ counter'[m] = counter[m]
  BY <1>1, <1>2 DEF Domains
<1>4. /\ incarnation'[n] = 0 /\ peers'[n] = <<>> /\ membership'[n] = {n}
      /\ counter'[n] = [m \in Nodes |-> 0]
  BY <1>1, <1>2 DEF Domains
<1>5. DOMAIN peers'[n] = {}
  BY <1>4
<1>6. NodeOK(n)'
  BY <1>4, <1>5 DEF NodeOK, ViewOK, Live, LiveIn
<1>7. CountBehind(counter[n])'
  <2> SUFFICES ASSUME NEW m \in Nodes \ reborn' PROVE counter'[n][m] <= counter'[m][m]
    BY DEF CountBehind
  <2>1. m # n /\ counter'[n][m] = 0 /\ counter'[m] = counter[m]
    BY <1>2, <1>3, <1>4
  <2>2. counter[m][m] \in Nat
    BY Zenon DEF Inv, NodeOK
  <2> QED
    BY <2>1, <2>2
<1>8. IncBehind(peers[n])'
  BY <1>5 DEF IncBehind
<1> QED
  BY <1>2, <1>3, <1>6, <1>7, <1>8 DEF NodeStep

(* Steps that only take from the wire or end a task. *)
LEMMA OtherStep ==
  ASSUME Inv, UNCHANGED shared, UNCHANGED reborn, net' \subseteq net
  PROVE  Inv'
<1>1. \A f \in net : FrameOK(f) => FrameOK(f)'
  BY DEF FrameOK, CountBehind, IncBehind, shared
<1>2. Domains'
  BY DEF Inv, Domains, shared
<1>3. ASSUME NEW n \in Nodes PROVE (NodeOK(n) /\ CountBehind(counter[n]) /\ IncBehind(peers[n]))'
  BY Zenon DEF Inv, NodeOK, Live, CountBehind, IncBehind, shared
<1> QED
  BY <1>1, <1>2, <1>3, Zenon DEF Inv

----------------------------------------------------------------------------
(* The theorems *)

(* A view outbids itself. *)
LEMMA OutbidSelf ==
  ASSUME NEW view, NEW S, ViewOK(view, S)
  PROVE  Outbid(view, view)
  BY DEF ViewOK, Outbid, Records

(* Nodes start alone. *)
LEMMA InvInit == Init => Inv
<1> SUFFICES ASSUME Init PROVE Inv
  OBVIOUS
<1>1. Domains
  BY DEF Init, Domains
<1>2. ASSUME NEW n \in Nodes PROVE NodeOK(n) /\ CountBehind(counter[n]) /\ IncBehind(peers[n])
  <2>1. DOMAIN peers[n] = {}
    BY DEF Init
  <2> QED
    BY <2>1 DEF Init, NodeOK, ViewOK, Live, LiveIn, CountBehind, IncBehind
<1> QED
  BY <1>1, <1>2 DEF Init, Inv

(* The step of a node whose view outbids the old one keeps the invariant,   *)
(* and every running node's view outbids its old one.                       *)
LEMMA NodeOutbids ==
  ASSUME Inv, NEW n \in Nodes, NodeStep(n), up[n] => Outbid(peers[n], peers'[n])
  PROVE  Inv' /\ \A m \in Nodes : up[m] => Outbid(peers[m], peers'[m])
<1>1. ASSUME NEW m \in Nodes, m # n PROVE Outbid(peers[m], peers'[m])
  <2>1. peers'[m] = peers[m] /\ ViewOK(peers[m], Nodes \ {m})
    BY <1>1, Zenon DEF NodeStep, Inv, NodeOK
  <2> QED
    BY <2>1, OutbidSelf
<1> QED
  BY <1>1, NodeStepInv

(* Every step keeps the invariant, and outbids the views of running nodes.  *)
LEMMA InvStep ==
  ASSUME Inv, [Next]_vars
  PROVE  Inv' /\ \A m \in Nodes : up[m] => Outbid(peers[m], peers'[m])
<1>0. \A n \in Nodes : Outbid(peers[n], peers[n])
  BY OutbidSelf, Zenon DEF Inv, NodeOK
<1>1. ASSUME NEW n \in Nodes, Tick(n) \/ DirectTimeout(n) \/ Incr(n)
      PROVE  Inv' /\ \A m \in Nodes : up[m] => Outbid(peers[m], peers'[m])
  BY <1>0, <1>1, TickStep, IncrStep, NodeStepInv, Zenon
<1>2. ASSUME NEW n \in Nodes, IndirectTimeout(n)
      PROVE  Inv' /\ \A m \in Nodes : up[m] => Outbid(peers[m], peers'[m])
  BY <1>2, IndirectTimeoutStep, NodeOutbids
<1>3. ASSUME NEW n \in Nodes, NEW dead \in SUBSET Live(n), ReapSuspects(n, dead)
      PROVE  Inv' /\ \A m \in Nodes : up[m] => Outbid(peers[m], peers'[m])
  BY <1>3, ReapStep, NodeOutbids
<1>4. ASSUME NEW n \in Nodes, NEW f \in net, Handle(n, f)
      PROVE  Inv' /\ \A m \in Nodes : up[m] => Outbid(peers[m], peers'[m])
  BY <1>4, HandleStep, NodeOutbids
<1>5. ASSUME NEW n \in Nodes, Restart(n)
      PROVE  Inv' /\ \A m \in Nodes : up[m] => Outbid(peers[m], peers'[m])
  <2>1. ~up[n]
    BY <1>5 DEF Restart
  <2> QED
    BY <1>5, <2>1, RestartStep, NodeOutbids
<1>6. CASE \/ \E n \in Nodes : \E r \in relays[n] : RelayExpires(n, r)
           \/ \E f \in net : Lose(f)
           \/ \E n \in Nodes : Stop(n)
           \/ UNCHANGED vars
  <2>1. UNCHANGED shared /\ UNCHANGED reborn /\ net' \subseteq net
    BY <1>6 DEF RelayExpires, Lose, Stop, vars, life
  <2>2. UNCHANGED peers
    BY <2>1 DEF shared
  <2> QED
    BY <1>0, <2>1, <2>2, OtherStep
<1> QED
  BY <1>1, <1>2, <1>3, <1>4, <1>5, <1>6, Zenon DEF Next

(* Membership, from which leader() is computed, is the node itself and its  *)
(* peers that are not Dead, after any interleaving of joins, acks,          *)
(* suspicions, deaths and restarts (apply_update, mark_alive,               *)
(* reap_suspects).                                                          *)
THEOREM ViewTheorem == Spec => []ViewMatchesPeers
<1>1. Inv => ViewMatchesPeers
  BY Zenon DEF Inv, NodeOK, ViewMatchesPeers
<1>2. Inv /\ [Next]_vars => Inv'
  BY InvStep
<1> QED
  BY <1>1, <1>2, InvInit, PTL DEF Spec

(* GCounter::merge over a network that loses, duplicates and reorders never *)
(* puts a copy of a slot ahead of its owner, who has not restarted.         *)
THEOREM CounterTheorem == Spec => []CounterNeverAhead
<1>1. Inv => CounterNeverAhead
  BY DEF Inv, FrameOK, CountBehind, CounterNeverAhead
<1>2. Inv /\ [Next]_vars => Inv'
  BY InvStep
<1> QED
  BY <1>1, <1>2, InvInit, PTL DEF Spec

(* Nobody knows a node at an incarnation it has not had itself, unless it   *)
(* has restarted: a rumour at its current incarnation is the newest there   *)
(* can be, so that one refutation (inc + 1) outbids every rumour.           *)
IncarnationNeverAhead ==
  /\ \A n \in Nodes : \A m \in DOMAIN peers[n] \ reborn : peers[n][m].inc <= incarnation[m]
  /\ \A f \in net : \A m \in DOMAIN f.updates \ reborn : f.updates[m].inc <= incarnation[m]

(* No record and no frame is ahead of the incarnation of its subject.       *)
THEOREM IncarnationTheorem == Spec => []IncarnationNeverAhead
<1>1. Inv => IncarnationNeverAhead
  BY DEF Inv, FrameOK, IncBehind, IncarnationNeverAhead
<1>2. Inv /\ [Next]_vars => Inv'
  BY InvStep
<1> QED
  BY <1>1, <1>2, InvInit, PTL DEF Spec

(* A tombstone is lifted only by a higher incarnation, and no record of a   *)
(* running node is dropped or goes back (MemberState::Dead).                *)
THEOREM DeathTheorem == Spec => DeathIsOutbidOnly
<1>1. Inv /\ [Next]_vars =>
        [\A n \in Nodes : up[n] => \A m \in DOMAIN peers[n] :
          /\ m \in DOMAIN peers'[n]
          /\ peers'[n][m].inc >= peers[n][m].inc
          /\ peers[n][m].state = "Dead" /\ peers'[n][m].state # "Dead"
                => peers'[n][m].inc > peers[n][m].inc]_vars
  BY InvStep DEF Outbid
<1>2. Inv /\ [Next]_vars => Inv'
  BY InvStep
<1> QED
  BY <1>1, <1>2, InvInit, PTL DEF Spec, DeathIsOutbidOnly
=============================================================================
