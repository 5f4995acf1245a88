------------------------------ MODULE Shutdown ------------------------------
(***************************************************************************)
(* Accept loops and graceful shutdown: pulsate_net::serve and drain (one   *)
(* loop per data-plane listener, with a semaphore of connection slots),    *)
(* the slot-free loops of the metrics and admin endpoints, the signal task *)
(* that flips the shared Lifecycle, and up(), which awaits every loop      *)
(* before the process exits.                                               *)
(***************************************************************************)
EXTENDS Integers, FiniteSets

CONSTANTS Listeners,        \* loops run by pulsate_net::serve
          Endpoints,        \* loops run by serve_metrics and serve_admin
          Conns,            \* client connections
          None,             \* home of a connection that is not accepted
          MaxConnections,   \* ListenerConfig.max_connections
          Grace             \* ListenerConfig.drain_grace, in ticks

ASSUME ShutdownAssumption ==
    /\ IsFiniteSet(Conns)
    /\ MaxConnections \in Nat
    /\ Grace \in Nat
    /\ None \notin Listeners

VARIABLES lifecycle,   \* value of the watch channel
          available,   \* free permits of each listener's semaphore
          pc,          \* where each accept loop is
          home,        \* the listener whose permit a connection holds
          grace,       \* what is left of the drain timeout
          serving,     \* endpoints whose loop still runs
          exited,      \* up() has returned
          late         \* history: connections accepted after the signal

shutdownVars == <<lifecycle, available, pc, home, grace, serving, exited, late>>

ShutdownInit ==
    /\ lifecycle = "Running"
    /\ available = [l \in Listeners |-> MaxConnections]
    /\ pc = [l \in Listeners |-> "acquire"]
    /\ home = [c \in Conns |-> None]
    /\ grace = [l \in Listeners |-> Grace]
    /\ serving = Endpoints
    /\ exited = FALSE
    /\ late = [l \in Listeners |-> 0]

Goto(l, from, to) == pc[l] = from /\ pc' = [pc EXCEPT ![l] = to]

----------------------------------------------------------------------------
(* The signal task: Draining is sent once, then the sender is dropped, so   *)
(* `changed()` is ready in every receiver from then on.                     *)
Signal == /\ ~exited
          /\ lifecycle = "Running"
          /\ lifecycle' = "Draining"
          /\ UNCHANGED <<available, pc, home, grace, serving, exited, late>>

(* acquire_owned().await, before the loop looks at anything else. *)
Acquire(l) ==
    /\ Goto(l, "acquire", "select")
    /\ available[l] > 0
    /\ available' = [available EXCEPT ![l] = @ - 1]
    /\ UNCHANGED <<lifecycle, home, grace, serving, exited, late>>

(* Fault: the permit taken for the next connection is kept while draining. *)
DrainKeepsPermit(l) ==
    /\ Goto(l, "select", "drain")
    /\ lifecycle # "Running"
    /\ UNCHANGED <<lifecycle, available, home, grace, serving, exited, late>>

(* The biased select polls changed() first: drop the permit and drain. *)
ObserveDraining(l) ==
    /\ Goto(l, "select", "drain")
    /\ lifecycle # "Running"
    /\ available' = [available EXCEPT ![l] = @ + 1]
    /\ UNCHANGED <<lifecycle, home, grace, serving, exited, late>>

(* changed() is pending; accept() is polled next. *)
PollAccept(l) ==
    /\ Goto(l, "select", "polled")
    /\ lifecycle = "Running"
    /\ UNCHANGED <<lifecycle, available, home, grace, serving, exited, late>>

(* accept() is pending too: the task sleeps until either is ready. *)
Sleep(l) ==
    /\ Goto(l, "polled", "select")
    /\ UNCHANGED <<lifecycle, available, home, grace, serving, exited, late>>

(* Fault: the loop goes on accepting without polling the lifecycle again. *)
AcceptAgain(l, c) ==
    /\ pc[l] = "polled"
    /\ available[l] > 0
    /\ home[c] = None
    /\ home' = [home EXCEPT ![c] = l]
    /\ available' = [available EXCEPT ![l] = @ - 1]
    /\ late' = [late EXCEPT ![l] = IF lifecycle = "Running" THEN 0 ELSE @ + 1]
    /\ UNCHANGED <<lifecycle, pc, grace, serving, exited>>

(* accept() is ready: the handler task owns the permit from here on.  The   *)
(* signal may have come since changed() was polled.                         *)
Accept(l, c) ==
    /\ Goto(l, "polled", "acquire")
    /\ home[c] = None
    /\ home' = [home EXCEPT ![c] = l]
    /\ late' = [late EXCEPT ![l] = IF lifecycle = "Running" THEN 0 ELSE @ + 1]
    /\ UNCHANGED <<lifecycle, available, grace, serving, exited>>

(* `accepted?`: an accept error ends the loop without draining. *)
AcceptFails(l) ==
    /\ Goto(l, "polled", "failed")
    /\ available' = [available EXCEPT ![l] = @ + 1]
    /\ UNCHANGED <<lifecycle, home, grace, serving, exited, late>>

(* The handler returns (or panics): the permit is dropped. *)
ConnectionEnds(c) ==
    /\ home[c] # None
    /\ available' = [available EXCEPT ![home[c]] = @ + 1]
    /\ home' = [home EXCEPT ![c] = None]
    /\ UNCHANGED <<lifecycle, pc, grace, serving, exited, late>>

----------------------------------------------------------------------------
(* drain: acquire_many(max_connections) under a timeout *)

Drained(l) ==
    /\ Goto(l, "drain", "returned")
    /\ available[l] = MaxConnections
    /\ UNCHANGED <<lifecycle, available, home, grace, serving, exited, late>>

DrainTick(l) ==
    /\ pc[l] = "drain"
    /\ grace[l] > 0
    /\ grace' = [grace EXCEPT ![l] = @ - 1]
    /\ UNCHANGED <<lifecycle, available, pc, home, serving, exited, late>>

(* Fault: the timeout is forgotten, only idle connections end the drain. *)
DrainWaitsForever(l) ==
    /\ Goto(l, "drain", "returned")
    /\ grace[l] = 0
    /\ available[l] = MaxConnections
    /\ UNCHANGED <<lifecycle, available, home, grace, serving, exited, late>>

DrainExpires(l) ==
    /\ Goto(l, "drain", "returned")
    /\ grace[l] = 0
    /\ UNCHANGED <<lifecycle, available, home, grace, serving, exited, late>>

----------------------------------------------------------------------------
(* serve_metrics and serve_admin stop at the change; they hold no slots and *)
(* their connections are not awaited.                                       *)
EndpointStops(e) ==
    /\ e \in serving
    /\ lifecycle # "Running"
    /\ serving' = serving \ {e}
    /\ UNCHANGED <<lifecycle, available, pc, home, grace, exited, late>>

LoopsEnded == serving = {} /\ \A l \in Listeners : pc[l] \in {"returned", "failed"}

(* up() has awaited every task and returns; the runtime goes with it and    *)
(* drops the handlers still running (ConnectionEnds).                       *)
Exit == /\ ~exited
        /\ LoopsEnded
        /\ exited' = TRUE
        /\ UNCHANGED <<lifecycle, available, pc, home, grace, serving, late>>

Stopped == exited /\ UNCHANGED shutdownVars

LoopStep(l) == \/ Acquire(l)
               \/ ObserveDraining(l)
               \/ PollAccept(l)
               \/ Sleep(l)
               \/ \E c \in Conns : Accept(l, c)
               \/ AcceptFails(l)
               \/ Drained(l)
               \/ DrainTick(l)
               \/ DrainExpires(l)

ShutdownNext ==
    \/ Signal
    \/ \E l \in Listeners : LoopStep(l)
    \/ \E c \in Conns : ConnectionEnds(c)
    \/ \E e \in Endpoints : EndpointStops(e)
    \/ Exit
    \/ Stopped

ShutdownSpec == ShutdownInit /\ [][ShutdownNext]_shutdownVars

(* The runtime polls woken tasks and timers fire; nothing is assumed of     *)
(* clients: a connection may stay open for ever.                            *)
ShutdownFairSpec ==
    /\ ShutdownSpec
    /\ \A l \in Listeners : WF_shutdownVars(LoopStep(l))
    /\ \A e \in Endpoints : WF_shutdownVars(EndpointStops(e))
    /\ WF_shutdownVars(Exit)

----------------------------------------------------------------------------
(* Type invariant. *)
TypeOK == /\ lifecycle \in {"Running", "Draining"}
          /\ available \in [Listeners -> 0..MaxConnections]
          /\ pc \in [Listeners -> {"acquire", "select", "polled", "drain", "returned", "failed"}]
          /\ home \in [Conns -> Listeners \cup {None}]
          /\ grace \in [Listeners -> 0..Grace]
          /\ serving \in SUBSET Endpoints
          /\ exited \in BOOLEAN
          /\ late \in [Listeners -> Nat]

Open(l) == {c \in Conns : home[c] = l}

(* The permit the loop itself holds between acquire_owned and the accept. *)
Held(l) == IF pc[l] \in {"select", "polled"} THEN 1 ELSE 0

(* Slots are neither lost nor invented across accept, drain, accept errors  *)
(* and handler ends (serve): never more than max_connections are open, and  *)
(* acquiring all of them in drain does mean that none is.                   *)
SlotsConserved ==
    \A l \in Listeners :
        available[l] + Cardinality(Open(l)) + Held(l) = MaxConnections

(* Draining stops the accept loop: whatever the race between the signal and *)
(* the select, at most one more connection per listener gets in.            *)
AtMostOneLateAccept == \A l \in Listeners : late[l] <= 1

(* drain returns before its deadline only when no connection is open. *)
NoEarlyReturn ==
    [][\A l \in Listeners :
          pc[l] = "drain" /\ pc'[l] = "returned" /\ grace[l] > 0 => Open(l) = {}]_shutdownVars

(* After the signal the process exits, whatever its clients do, unless the  *)
(* slots of a listener stay taken for ever while its loop waits for one: a  *)
(* loop that gets a slot sees the signal and drains, drain has a deadline,  *)
(* and the endpoints stop by themselves (serve, drain, up).                 *)
ExitsUnlessSlotsStayTaken ==
    (\A l \in Listeners : pc[l] = "acquire" ~> available[l] > 0 \/ pc[l] # "acquire")
        => (lifecycle = "Draining" ~> exited)
=============================================================================
