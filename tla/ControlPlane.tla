---------------------------- MODULE ControlPlane ----------------------------
(***************************************************************************)
(* The control plane of pulsate-control: the REST and gRPC admin surfaces  *)
(* over one AdminApi, whose reloads are the reloads of ConfigStore, the    *)
(* event bus, the pump that copies the audit log onto it, and the gateway  *)
(* that `up` builds once from the first generation and nothing rebuilds.    *)
(*                                                                         *)
(* A caller is an admin request in progress (or a rollback made through    *)
(* the store's own API).  Endpoints that only read change nothing and are  *)
(* left out; a reload takes the steps of ConfigStore, and over gRPC one    *)
(* more to announce it.  One subscriber watches the bus.                   *)
(***************************************************************************)
EXTENDS ConfigStore, Sequences

CONSTANTS
    Scopes,      \* token -> scopes, AdminApi.tokens
    Presented,   \* the tokens requests carry, known to the table or not
    Capacity,    \* capacity of the broadcast channel
    MaxAudit,    \* bound on the entries of the audit log
    MaxRollbacks \* bound on the rollbacks of a behaviour

ASSUME ControlAssumption ==
    /\ Capacity \in Nat \ {0}
    /\ MaxAudit \in Nat \ {0}
    /\ MaxRollbacks \in Nat

VARIABLES
    req,         \* the admin request a caller is serving, or Free
    audit,       \* AuditLog: number of entries, whose seqs are 0..audit-1
    lifecycle,   \* the watch channel: "Running" or "Draining"
    grpc,        \* serve_grpc: "off", "serving" or "stopped"
    pump,        \* event_pump: [on, last_seq]
    watching,    \* a WatchEvents stream is open
    rx,          \* what the stream has not yet delivered
    seen,        \* history: seq of the last AuditAppended delivered
    rollbacks,   \* rollbacks begun
    ran,         \* history: generations that were published
    told,        \* history: generations a response named
    gateway      \* the generation the data plane's Gateway was built from

feed == <<pump, watching, rx, seen>>
cvars == <<vars, req, audit, lifecycle, grpc, feed, rollbacks, ran, told, gateway>>

Free == [surface |-> "none"]
NoSeq == -1

CInit ==
    /\ Init
    /\ req = [c \in Callers |-> Free]
    /\ audit = 1                                    \* "gateway started"
    /\ lifecycle = "Running" /\ grpc = "off"
    /\ pump = [on |-> FALSE, last_seq |-> NoSeq]
    /\ watching = FALSE /\ rx = <<>> /\ seen = NoSeq
    /\ rollbacks = 0 /\ ran = {0} /\ told = {}
    /\ gateway = current.gen

-----------------------------------------------------------------------------
(* Authorization, the same table for both surfaces.                        *)

Required ==
    [info |-> "read", audit |-> "admin", validate |-> "write",
     reload |-> "write", watch |-> "admin"]

\* 401 without a known token, 403 without the scope.
Authorize(token, endpoint) ==
    IF token \notin DOMAIN Scopes THEN 401
    ELSE IF Required[endpoint] \notin Scopes[token] THEN 403
    ELSE 200

Idle(c) == pc[c] = "idle" /\ req[c] = Free

-----------------------------------------------------------------------------
(* The event bus.                                                          *)

\* send: a full receiver loses its oldest event, which the stream skips.
Queued(q, events) ==
    LET all == q \o events
    IN  IF Len(all) > Capacity THEN SubSeq(all, Len(all) - Capacity + 1, Len(all))
        ELSE all

PublishAll(events) == rx' = IF watching THEN Queued(rx, events) ELSE rx

WatchEvents(token) ==
    /\ grpc = "serving" /\ ~watching /\ Authorize(token, "watch") = 200
    /\ watching' = TRUE /\ rx' = <<>>
    /\ UNCHANGED <<vars, req, audit, lifecycle, grpc, pump, seen,
                   rollbacks, ran, told, gateway>>

Deliver ==
    /\ rx # <<>>
    /\ rx' = Tail(rx)
    /\ seen' = IF Head(rx).kind = "audit" THEN Head(rx).n ELSE seen
    /\ UNCHANGED <<vars, req, audit, lifecycle, grpc, pump,
                   watching, rollbacks, ran, told, gateway>>

Unwatch ==
    /\ watching
    /\ watching' = FALSE /\ rx' = <<>>
    /\ UNCHANGED <<vars, req, audit, lifecycle, grpc, pump, seen,
                   rollbacks, ran, told, gateway>>

-----------------------------------------------------------------------------
(* reload_config over either surface.                                      *)

ReloadRequest(c, surface, text, token) ==
    /\ Idle(c) /\ Authorize(token, "reload") = 200
    /\ surface = "grpc" => grpc = "serving"
    /\ ReloadBegin(c, text)
    /\ req' = [req EXCEPT ![c] = [surface |-> surface, token |-> token]]
    /\ UNCHANGED <<audit, lifecycle, grpc, feed, rollbacks, ran, told, gateway>>

\* Err(diags): 422 over REST, ok = false over gRPC.
ReloadFails(c) ==
    /\ req[c] # Free /\ ReloadRejected(c)
    /\ req' = [req EXCEPT ![c] = Free]
    /\ UNCHANGED <<audit, lifecycle, grpc, feed, rollbacks, ran, told, gateway>>

ReloadGoesOn(c) ==
    /\ req[c] # Free /\ (ReloadCompiled(c) \/ ReloadDemote(c))
    /\ UNCHANGED <<req, audit, lifecycle, grpc, feed, rollbacks, ran, told, gateway>>

\* REST answers with the generation it published.
RestReloaded(c) ==
    /\ req[c].surface = "rest" /\ ReloadSwap(c)
    /\ req' = [req EXCEPT ![c] = Free]
    /\ told' = told \cup {built[c].gen}
    /\ ran' = ran \cup {built[c].gen}
    /\ UNCHANGED <<audit, lifecycle, grpc, feed, rollbacks, gateway>>

GrpcReloaded(c) ==
    /\ req[c].surface = "grpc" /\ ReloadSwap(c)
    /\ req' = [req EXCEPT ![c].surface = "announce"]
    /\ ran' = ran \cup {built[c].gen}
    /\ UNCHANGED <<audit, lifecycle, grpc, feed, rollbacks, told, gateway>>

(* Fault: the reload is announced before it is made. *)
AnnounceEarly(c) ==
    /\ req[c].surface = "grpc" /\ pc[c] = "compile"
    /\ req' = [req EXCEPT ![c].surface = "rest"]
    /\ PublishAll(<<[kind |-> "reloaded", n |-> built[c].gen]>>)
    /\ UNCHANGED <<vars, audit, lifecycle, grpc, pump, watching, seen,
                   rollbacks, ran, told, gateway>>

\* gRPC publishes ConfigReloaded, then answers.
Announce(c) ==
    /\ req[c].surface = "announce"
    /\ req' = [req EXCEPT ![c] = Free]
    /\ PublishAll(<<[kind |-> "reloaded", n |-> built[c].gen]>>)
    /\ told' = told \cup {built[c].gen}
    /\ UNCHANGED <<vars, audit, lifecycle, grpc, pump, watching, seen,
                   rollbacks, ran, gateway>>

\* ConfigStore::rollback, which no admin endpoint reaches.
BeginRollback(c) ==
    /\ Idle(c) /\ rollbacks < MaxRollbacks
    /\ RollbackBegin(c)
    /\ rollbacks' = rollbacks + 1
    /\ UNCHANGED <<req, audit, lifecycle, grpc, feed, ran, told, gateway>>

RollbackGoesOn(c) ==
    /\ RollbackLoad(c) \/ RollbackSwap(c) \/ RollbackDemote(c)
    /\ UNCHANGED <<req, audit, lifecycle, grpc, feed, rollbacks, ran, told, gateway>>

-----------------------------------------------------------------------------
(* The audit log, the pump and the life of the gRPC server.                *)

\* AuditLog::append, under its lock.
AppendAudit ==
    /\ audit < MaxAudit
    /\ audit' = audit + 1
    /\ UNCHANGED <<vars, req, lifecycle, grpc, feed, rollbacks, ran, told, gateway>>

\* serve_grpc spawns the pump, whose watermark is the last entry.
ServeGrpc ==
    /\ grpc = "off"
    /\ grpc' = "serving"
    /\ pump' = [on |-> TRUE, last_seq |-> audit - 1]
    /\ UNCHANGED <<vars, req, audit, lifecycle, watching, rx, seen,
                   rollbacks, ran, told, gateway>>

AuditEvents(from, to) ==
    [i \in 1..(to - from) |-> [kind |-> "audit", n |-> from + i]]

(* Fault: the watermark stays where it is. *)
PumpTickStuck ==
    /\ pump.on /\ pump.last_seq < audit - 1
    /\ PublishAll(AuditEvents(pump.last_seq, audit - 1))
    /\ UNCHANGED <<vars, req, audit, lifecycle, grpc, pump, watching,
                   seen, rollbacks, ran, told, gateway>>

\* A tick publishes every entry past the watermark and moves it.
PumpTick ==
    /\ pump.on /\ pump.last_seq < audit - 1
    /\ PublishAll(AuditEvents(pump.last_seq, audit - 1))
    /\ pump' = [pump EXCEPT !.last_seq = audit - 1]
    /\ UNCHANGED <<vars, req, audit, lifecycle, grpc, watching, seen,
                   rollbacks, ran, told, gateway>>

\* The change of the lifecycle is published and ends the pump.
PumpLifecycle ==
    /\ pump.on /\ lifecycle # "Running"
    /\ PublishAll(<<[kind |-> "lifecycle", n |-> 0]>>)
    /\ pump' = [pump EXCEPT !.on = FALSE]
    /\ UNCHANGED <<vars, req, audit, lifecycle, grpc, watching, seen,
                   rollbacks, ran, told, gateway>>

Drain ==
    /\ lifecycle = "Running"
    /\ lifecycle' = "Draining"
    /\ UNCHANGED <<vars, req, audit, grpc, feed, rollbacks, ran, told, gateway>>

(* Fault: the server waits for a pump that may be gone. *)
GrpcStopsAfterPump ==
    /\ grpc = "serving" /\ lifecycle # "Running" /\ ~watching /\ pump.on
    /\ \A c \in Callers : req[c].surface \notin {"grpc", "announce"}
    /\ grpc' = "stopped"
    /\ pump' = [pump EXCEPT !.on = FALSE]
    /\ UNCHANGED <<vars, req, audit, lifecycle, watching, rx, seen,
                   rollbacks, ran, told, gateway>>

\* The server returns once it has seen the change and no call is open, and
\* aborts the pump.
GrpcStops ==
    /\ grpc = "serving" /\ lifecycle # "Running" /\ ~watching
    /\ \A c \in Callers : req[c].surface \notin {"grpc", "announce"}
    /\ grpc' = "stopped"
    /\ pump' = [pump EXCEPT !.on = FALSE]
    /\ UNCHANGED <<vars, req, audit, lifecycle, watching, rx, seen,
                   rollbacks, ran, told, gateway>>

-----------------------------------------------------------------------------
Request(c) ==
    \E s \in {"rest", "grpc"}, x \in Texts, t \in Presented :
        ReloadRequest(c, s, x, t)

Handler(c) ==
    \/ ReloadFails(c) \/ ReloadGoesOn(c) \/ RestReloaded(c)
    \/ GrpcReloaded(c) \/ Announce(c)

Server == ServeGrpc \/ PumpTick \/ PumpLifecycle \/ GrpcStops

CNext ==
    \/ \E c \in Callers : Request(c) \/ Handler(c) \/ BeginRollback(c)
                           \/ RollbackGoesOn(c)
    \/ Server
    \/ (\E t \in Presented : WatchEvents(t)) \/ Deliver \/ Unwatch
    \/ AppendAudit \/ Drain

CSpec == CInit /\ [][CNext]_cvars

\* Handlers, the pump's ticks and the server's shutdown future are driven by
\* the runtime; requests, subscribers and signals come when they come.
CFairSpec ==
    /\ CSpec
    /\ \A c \in Callers : WF_cvars(Handler(c))
    /\ WF_cvars(PumpTick) /\ WF_cvars(PumpLifecycle) /\ WF_cvars(GrpcStops)

-----------------------------------------------------------------------------
Events == [kind : {"audit", "reloaded", "lifecycle"}, n : Nat]

(* Type invariant. *)
CTypeOK ==
    /\ TypeOK
    /\ \A c \in Callers : req[c] = Free \/
          req[c].surface \in {"rest", "grpc", "announce"}
    /\ audit \in 1..MaxAudit
    /\ pump.last_seq \in NoSeq..(audit - 1) /\ seen \in NoSeq..(audit - 1)
    /\ Len(rx) <= Capacity /\ \A i \in DOMAIN rx : rx[i] \in Events
    /\ ran \subseteq 0..next_generation

\* No reload is in progress on behalf of a token without the write scope,
\* over either surface (authorize, AuthInterceptor, require).
ReloadsAreAuthorized ==
    \A c \in Callers : req[c] # Free => "write" \in Scopes[req[c].token]

\* A generation that a client is told of, in a response or an event, was the
\* running one by then; callers and subscribers never hear of a reload that
\* may still fail or has not been swapped in (reload_config of both
\* surfaces, info).
TellsWhatRan ==
    /\ told \subseteq ran
    /\ \A i \in DOMAIN rx : rx[i].kind = "reloaded" => rx[i].n \in ran

\* The audit entries of the feed come once each and in the order of the log,
\* lagging or not, across the subscriber's reconnects (event_pump,
\* watch_events).
AuditFeedIsOrdered ==
    LET after(i) == {j \in DOMAIN rx : j > i}
    IN  \A i \in DOMAIN rx : rx[i].kind = "audit" =>
            /\ rx[i].n > seen
            /\ \A j \in after(i) : rx[j].kind = "audit" => rx[j].n > rx[i].n

\* A draining gRPC server stops unless a WatchEvents stream stays open
\* (serve_grpc's shutdown future reads the state before it waits).
GrpcServerStops ==
    (grpc = "serving" /\ lifecycle # "Running") ~> (grpc = "stopped" \/ watching)

\* "New requests: load() returns the new snapshot": with no reload or
\* rollback in progress, the data plane serves the running generation.
TrafficFollowsReload ==
    (\A c \in Callers : pc[c] = "idle") => gateway = current.gen
=============================================================================
