------------------------------- MODULE Gossip -------------------------------
(***************************************************************************)
(* The SWIM membership protocol of pulsate-cluster (gossip/mod.rs), with   *)
(* the Membership view and the GCounter it replicates (lib.rs).  Every     *)
(* node runs one event loop, so a handler or a timed duty of one node is   *)
(* one action; nodes interleave and talk over UDP: frames are lost,        *)
(* duplicated, delayed and reordered.                                      *)
(*                                                                         *)
(* A node is its address.  Deadlines are not modelled as numbers: a probe, *)
(* a relay or a suspicion may expire whenever it is armed, which covers    *)
(* every choice of timeouts and every clock.                               *)
(***************************************************************************)
EXTENDS Integers, FiniteSets

CONSTANTS N,              \* nodes are 1..N, in the order of their ids
          Seeds,          \* Config.seeds of each node
          Fanout,         \* Config.gossip_fanout
          Helpers,        \* Config.indirect_probes
          Probes,         \* pool of probe sequence numbers per node
          RRSpan,         \* 2^width of round_robin
          MaxFrames,      \* bound: frames on the wire
          MaxIncarnation, \* bound: no running node is suspected at this one
          MaxCount,       \* bound: increments of each node
          MaxStops,       \* bound: times nodes stop
          MaxReborn       \* bound: nodes that restart

Nodes == 1..N

ASSUME GossipAssumption ==
    /\ N \in Nat
    /\ Seeds \in [Nodes -> SUBSET Nodes]
    /\ Fanout \in Nat /\ Helpers \in Nat
    /\ RRSpan \in Nat \ {0}
    /\ {MaxFrames, MaxIncarnation, MaxStops, MaxReborn} \subseteq Nat
    /\ MaxCount \in [Nodes -> Nat]

NoNode == 0
NoSeq == <<0, 0>>
NoProbe == [seq |-> NoSeq, target |-> NoNode, phase |-> "None"]

VARIABLES up,           \* the runtime task of the node is running
          incarnation,  \* Shared.incarnation
          peers,        \* Shared.peers: incarnation and state of each known peer
          membership,   \* Shared.membership
          counter,      \* Shared.counter
          probe,        \* Runtime.probe
          relays,       \* Runtime.relays
          round_robin,  \* Runtime.round_robin
          net,          \* frames on the wire
          stops,        \* bound: stops so far
          reborn        \* history: nodes that have restarted

shared == <<incarnation, peers, membership, counter>>
life == <<up, stops, reborn>>
vars == <<life, shared, probe, relays, round_robin, net>>

Rank(state) == CASE state = "Alive" -> 0 [] state = "Suspect" -> 1 [] OTHER -> 2

Init == /\ up = [n \in Nodes |-> TRUE]
        /\ incarnation = [n \in Nodes |-> 0]
        /\ peers = [n \in Nodes |-> <<>>]
        /\ membership = [n \in Nodes |-> {n}]
        /\ counter = [n \in Nodes |-> [m \in Nodes |-> 0]]
        /\ probe = [n \in Nodes |-> NoProbe]
        /\ relays = [n \in Nodes |-> {}]
        /\ round_robin = [n \in Nodes |-> 0]
        /\ net = {}
        /\ stops = 0
        /\ reborn = {}

----------------------------------------------------------------------------
(* Sending: every frame carries the sender's view, itself included, and its *)
(* counter (snapshot).                                                      *)

Snapshot(n, inc, view, cnt) ==
    [updates |-> [m \in DOMAIN view \cup {n} |->
                    IF m = n THEN [inc |-> inc, state |-> "Alive"] ELSE view[m]],
     counter |-> cnt]

Payload(n) == Snapshot(n, incarnation[n], peers[n], counter[n])

Frame(n, to, seq, kind, target, payload) ==
    [from |-> n, to |-> to, seq |-> seq, kind |-> kind, target |-> target,
     updates |-> payload.updates, counter |-> payload.counter]

(* Some of what is sent gets onto the wire. *)
Transmit(rest, frames) ==
    \E sent \in SUBSET frames : /\ Cardinality(rest \cup sent) <= MaxFrames
                                /\ net' = rest \cup sent

LiveIn(view) == {m \in DOMAIN view : view[m].state # "Dead"}

Live(n) == LiveIn(peers[n])

(* The first k of a random permutation of S. *)
Sample(S, k) == {T \in SUBSET S : Cardinality(T) = IF Cardinality(S) < k THEN Cardinality(S) ELSE k}

(* gossip_round: a ping to a fanout of random live peers and to every seed. *)
GossipRound(n, view, payload) ==
    {{Frame(n, m, NoSeq, "Ping", NoNode, payload) : m \in dests \cup Seeds[n]} :
        dests \in Sample(LiveIn(view), Fanout)}

(* next_seq: never equal to a number still in use anywhere. *)
InUse(seq) == \/ \E f \in net : f.seq = seq
              \/ \E n \in Nodes : \E r \in relays[n] : r.seq = seq

FreshSeq(n) == CHOOSE k \in Probes : ~InUse(<<n, k>>)

CanProbe(n) == \E k \in Probes : ~InUse(<<n, k>>)

----------------------------------------------------------------------------
(* Timed duties of the event loop *)

(* start_probe's candidate: round robin over the peers sorted by id. *)
Candidate(n) ==
    CHOOSE m \in Live(n) :
        Cardinality({k \in Live(n) : k < m}) = round_robin[n] % Cardinality(Live(n))

(* probe_interval is over: gossip_round, then start_probe unless a probe is *)
(* in flight.                                                               *)
Tick(n) ==
    LET starts == probe[n] = NoProbe /\ Live(n) # {}
        seq == <<n, FreshSeq(n)>>
        ping == Frame(n, Candidate(n), seq, "Ping", NoNode, Payload(n))
    IN /\ up[n]
       /\ starts => CanProbe(n)
       /\ \E round \in GossipRound(n, peers[n], Payload(n)) :
             Transmit(net, round \cup IF starts THEN {ping} ELSE {})
       /\ IF starts
          THEN /\ probe' = [probe EXCEPT ![n] =
                              [seq |-> seq, target |-> Candidate(n), phase |-> "Direct"]]
               /\ round_robin' = [round_robin EXCEPT ![n] = (@ + 1) % RRSpan]
          ELSE UNCHANGED <<probe, round_robin>>
       /\ UNCHANGED <<life, shared, relays>>

(* advance_probe, direct phase over: ask helpers to ping the target. *)
DirectTimeout(n) ==
    /\ up[n]
    /\ probe[n].phase = "Direct"
    /\ \E helpers \in Sample({m \in DOMAIN peers[n] :
                                 peers[n][m].state = "Alive" /\ m # probe[n].target}, Helpers) :
          Transmit(net, {Frame(n, m, probe[n].seq, "PingReq", probe[n].target, Payload(n)) :
                            m \in helpers})
    /\ probe' = [probe EXCEPT ![n].phase = "Indirect"]
    /\ UNCHANGED <<life, shared, relays, round_robin>>

(* Fault: the suspicion is not written down. *)
MarkSuspectForgets(n, m) == peers

(* mark_suspect, only from Alive. *)
MarkSuspect(n, m) ==
    IF peers[n][m].state = "Alive" THEN [peers EXCEPT ![n][m].state = "Suspect"] ELSE peers

(* advance_probe, indirect phase over: suspect the target and gossip. *)
IndirectTimeout(n) ==
    LET m == probe[n].target IN
    /\ up[n]
    /\ probe[n].phase = "Indirect"
    /\ up[m] => peers[n][m].inc < MaxIncarnation
    /\ peers' = MarkSuspect(n, m)
    /\ probe' = [probe EXCEPT ![n] = NoProbe]
    /\ \E round \in GossipRound(n, peers'[n], Snapshot(n, incarnation[n], peers'[n], counter[n])) :
          Transmit(net, round)
    /\ UNCHANGED <<life, incarnation, membership, counter, relays, round_robin>>

(* Fault: the dead stay in the membership view. *)
ReapKeepsMember(n, dead) ==
    /\ up[n]
    /\ dead # {}
    /\ \A m \in dead : peers[n][m].state = "Suspect"
    /\ peers' = [peers EXCEPT ![n] =
                   [m \in DOMAIN @ |-> IF m \in dead THEN [@[m] EXCEPT !.state = "Dead"] ELSE @[m]]]
    /\ \E round \in GossipRound(n, peers'[n], Snapshot(n, incarnation[n], peers'[n], counter[n])) :
          Transmit(net, round)
    /\ UNCHANGED <<life, incarnation, membership, counter, probe, relays, round_robin>>

(* reap_suspects: suspicions whose deadline has passed turn Dead. *)
ReapSuspects(n, dead) ==
    /\ up[n]
    /\ dead # {}
    /\ \A m \in dead : peers[n][m].state = "Suspect"
    /\ peers' = [peers EXCEPT ![n] =
                   [m \in DOMAIN @ |-> IF m \in dead THEN [@[m] EXCEPT !.state = "Dead"] ELSE @[m]]]
    /\ membership' = [membership EXCEPT ![n] = @ \ (dead \ {n})]
    /\ \E round \in GossipRound(n, peers'[n], Snapshot(n, incarnation[n], peers'[n], counter[n])) :
          Transmit(net, round)
    /\ UNCHANGED <<life, incarnation, counter, probe, relays, round_robin>>

RelayExpires(n, r) ==
    /\ up[n]
    /\ r \in relays[n]
    /\ relays' = [relays EXCEPT ![n] = @ \ {r}]
    /\ UNCHANGED <<life, shared, probe, round_robin, net>>

----------------------------------------------------------------------------
(* reconcile: fold the payload of a frame into the node's state *)

(* Fault: at equal incarnations the later update wins. *)
SupersedesAny(u, p) == u.inc >= p.inc

(* apply_update: the higher incarnation, then the higher rank. *)
Supersedes(u, p) == u.inc > p.inc \/ (u.inc = p.inc /\ Rank(u.state) > Rank(p.state))

(* The members whose update is taken over by n. *)
Learned(n, updates) ==
    {m \in DOMAIN updates \ {n} :
        m \in DOMAIN peers[n] => Supersedes(updates[m], peers[n][m])}

Refuted(n, updates) == /\ n \in DOMAIN updates
                       /\ updates[n].state # "Alive"
                       /\ updates[n].inc >= incarnation[n]

MaxOf(a, b) == IF a > b THEN a ELSE b

(* Fault: counters are added up. *)
MergeAdds(c, d) == [m \in Nodes |-> c[m] + d[m]]

(* GCounter::merge *)
Merge(c, d) == [m \in Nodes |-> MaxOf(c[m], d[m])]

ViewAfter(n, updates) ==
    [m \in DOMAIN peers[n] \cup Learned(n, updates) |->
        IF m \in Learned(n, updates) THEN updates[m] ELSE peers[n][m]]

MembersAfter(n, updates) ==
    (membership[n] \cup {m \in Learned(n, updates) : updates[m].state # "Dead"})
        \ {m \in Learned(n, updates) : updates[m].state = "Dead"}

IncarnationAfter(n, updates) ==
    IF Refuted(n, updates) THEN updates[n].inc + 1 ELSE incarnation[n]

(* An ack of the probe in flight. *)
Acked(n, f) == f.kind = "Ack" /\ probe[n] # NoProbe /\ probe[n].seq = f.seq

MarkAlive(view, m) ==
    IF view[m].state = "Dead" THEN view ELSE [view EXCEPT ![m].state = "Alive"]

(* The payload is folded in; the ack of a probe then makes its target Alive *)
(* and a member, unless it is Dead by now (mark_alive).                     *)
Reconcile(n, f) ==
    LET view == ViewAfter(n, f.updates)
        alive == {m \in DOMAIN view : /\ Acked(n, f)
                                      /\ m = probe[n].target
                                      /\ view[m].state # "Dead"}
    IN /\ incarnation' = [incarnation EXCEPT ![n] = IncarnationAfter(n, f.updates)]
       /\ peers' = [peers EXCEPT ![n] =
                      IF Acked(n, f) THEN MarkAlive(view, probe[n].target) ELSE view]
       /\ membership' = [membership EXCEPT ![n] = MembersAfter(n, f.updates) \cup alive]
       /\ counter' = [counter EXCEPT ![n] = Merge(@, f.counter)]

(* A refutation is gossiped before the frame's kind is looked at. *)
Refutation(n, f) ==
    LET view == ViewAfter(n, f.updates)
    IN  IF Refuted(n, f.updates)
        THEN GossipRound(n, view, Snapshot(n, IncarnationAfter(n, f.updates), view,
                                           Merge(counter[n], f.counter)))
        ELSE {{}}

(* The frame is taken off the wire, or a duplicate of it stays there. *)
Receive(n, f, reply) ==
    /\ up[n]
    /\ f.to = n
    /\ Reconcile(n, f)
    /\ \E rest \in {net, net \ {f}} :
          \E round \in Refutation(n, f) : Transmit(rest, round \cup reply)
    /\ UNCHANGED <<life, round_robin>>

HandlePing(n, f) ==
    /\ f.kind = "Ping"
    /\ Receive(n, f, {Frame(n, f.from, f.seq, "Ack", NoNode, Payload(n)')})
    /\ UNCHANGED <<probe, relays>>

(* Ping the target for the origin under the origin's number; relays is a    *)
(* map by number, so an older entry is replaced.                            *)
HandlePingReq(n, f) ==
    /\ f.kind = "PingReq"
    /\ Receive(n, f, {Frame(n, f.target, f.seq, "Ping", NoNode, Payload(n)')})
    /\ relays' = [relays EXCEPT ![n] =
                    {r \in @ : r.seq # f.seq} \cup
                      {[seq |-> f.seq, origin |-> f.from, target |-> f.target]}]
    /\ UNCHANGED probe

(* Complete the probe in flight; forward to the origin of a relayed probe   *)
(* if the ack comes from its target.                                        *)
HandleAck(n, f) ==
    LET forward == {r \in relays[n] : r.seq = f.seq /\ r.target = f.from} IN
    /\ f.kind = "Ack"
    /\ Receive(n, f, {Frame(n, r.origin, f.seq, "Ack", NoNode, Payload(n)') : r \in forward})
    /\ probe' = IF Acked(n, f) THEN [probe EXCEPT ![n] = NoProbe] ELSE probe
    /\ relays' = [relays EXCEPT ![n] = {r \in @ : r.seq # f.seq}]

Handle(n, f) == HandlePing(n, f) \/ HandlePingReq(n, f) \/ HandleAck(n, f)

Lose(f) == /\ f \in net
           /\ net' = net \ {f}
           /\ UNCHANGED <<life, shared, probe, relays, round_robin>>

----------------------------------------------------------------------------
(* The Cluster handle *)

Incr(n) == /\ up[n]
           /\ counter[n][n] < MaxCount[n]
           /\ counter' = [counter EXCEPT ![n][n] = @ + 1]
           /\ UNCHANGED <<life, incarnation, peers, membership, probe, relays,
                          round_robin, net>>

(* shutdown, drop or a crash: the task ends, nobody is told. *)
Stop(n) == /\ up[n]
           /\ stops < MaxStops
           /\ stops' = stops + 1
           /\ up' = [up EXCEPT ![n] = FALSE]
           /\ UNCHANGED <<reborn, shared, probe, relays, round_robin, net>>

(* spawn on the same address: nothing of the earlier life is kept. *)
Restart(n) ==
    /\ ~up[n]
    /\ up' = [up EXCEPT ![n] = TRUE]
    /\ reborn' = reborn \cup {n}
    /\ Cardinality(reborn') <= MaxReborn
    /\ incarnation' = [incarnation EXCEPT ![n] = 0]
    /\ peers' = [peers EXCEPT ![n] = <<>>]
    /\ membership' = [membership EXCEPT ![n] = {n}]
    /\ counter' = [counter EXCEPT ![n] = [m \in Nodes |-> 0]]
    /\ probe' = [probe EXCEPT ![n] = NoProbe]
    /\ relays' = [relays EXCEPT ![n] = {}]
    /\ round_robin' = [round_robin EXCEPT ![n] = 0]
    /\ UNCHANGED <<net, stops>>

Next ==
    \/ \E n \in Nodes : Tick(n)
    \/ \E n \in Nodes : DirectTimeout(n)
    \/ \E n \in Nodes : IndirectTimeout(n)
    \/ \E n \in Nodes : \E dead \in SUBSET Live(n) : ReapSuspects(n, dead)
    \/ \E n \in Nodes : \E r \in relays[n] : RelayExpires(n, r)
    \/ \E n \in Nodes : \E f \in net : Handle(n, f)
    \/ \E f \in net : Lose(f)
    \/ \E n \in Nodes : Incr(n)
    \/ \E n \in Nodes : Stop(n)
    \/ \E n \in Nodes : Restart(n)

Spec == Init /\ [][Next]_vars

(* The event loop wakes for every deadline it has armed, and a datagram     *)
(* does not stay on the wire for ever; nothing is assumed of delivery.      *)
FairSpec ==
    /\ Spec
    /\ \A n \in Nodes : /\ WF_vars(Tick(n))
                        /\ WF_vars(DirectTimeout(n))
                        /\ WF_vars(IndirectTimeout(n))
                        /\ WF_vars(\E dead \in SUBSET Live(n) : ReapSuspects(n, dead))
                        /\ WF_vars(\E r \in relays[n] : RelayExpires(n, r))
    /\ WF_vars(\E f \in net : Lose(f))

----------------------------------------------------------------------------
(* The live view that leader() is computed from and the failure detector's  *)
(* records agree, however joins, acks, suspicions and deaths interleave:    *)
(* a node and exactly its peers that are not Dead.                          *)
ViewMatchesPeers ==
    \A n \in Nodes : membership[n] = {n} \cup Live(n)

(* GCounter over a lossy, duplicating network: no copy of a node's slot is  *)
(* ahead of the slot, so counter_value never counts an increment twice, as  *)
(* long as the node has not come back with an empty counter.                *)
CounterNeverAhead ==
    /\ \A n \in Nodes, m \in Nodes \ reborn : counter[n][m] <= counter[m][m]
    /\ \A f \in net, m \in Nodes \ reborn : f.counter[m] <= counter[m][m]

(* "Kept as a tombstone and never reaped, so the death keeps propagating    *)
(* and the node cannot silently rejoin" (MemberState::Dead): only a higher  *)
(* incarnation lifts a death, and no record goes back to a lower one.       *)
DeathIsOutbidOnly ==
    [][\A n \in Nodes : up[n] => \A m \in DOMAIN peers[n] :
          /\ m \in DOMAIN peers'[n]
          /\ peers'[n][m].inc >= peers[n][m].inc
          /\ peers[n][m].state = "Dead" /\ peers'[n][m].state # "Dead"
                => peers'[n][m].inc > peers[n][m].inc]_vars

(* A node that has stopped for good leaves the view of every running node   *)
(* for good, whatever is lost: probes of it go unanswered, suspicions of it *)
(* expire, and what it or others had sent before cannot keep bringing it    *)
(* back (start_probe, advance_probe, reap_suspects, apply_update).          *)
StopIsDetected ==
    \A m \in Nodes :
        <>[](~up[m]) => <>[](\A n \in Nodes \ {m} : up[n] => m \notin membership[n])
=============================================================================
