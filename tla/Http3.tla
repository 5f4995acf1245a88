------------------------------- MODULE Http3 -------------------------------
(***************************************************************************)
(* The HTTP/3 listener (pulsate-http3): it accepts connections until it is  *)
(* told to stop, drains them, and forces what is left to close.  Each       *)
(* connection is a task that accepts requests, and each request is a task   *)
(* that reads its body and runs dispatch(): middleware with the shared rate *)
(* limiter, handler, Egress, and the telemetry that closes the request.     *)
(*                                                                          *)
(* The cache of a route is CachedRoute's subject and a proxied request      *)
(* UpstreamPool's: here a route has no cache and an upstream answers or     *)
(* does not.                                                                *)
(***************************************************************************)
EXTENDS RateLimiter, Pipeline, FiniteSets

CONSTANTS Conns,      \* connections a client may open
          ConnOf(_),  \* the connection a request comes on
          Peer(_),    \* the client's address of a connection
          Plans,      \* what the clients may ask, a request per stream
          Routes,     \* the routes, by name
          Volatile(_),\* files that come and go while a plan's requests are served
          Permanent,  \* what stays, by path: "file" or "dir"
          Cap,        \* series a counter family may have
          MaxClock(_) \* bound: ticks, per plan

Streams == Callers

\* A request comes on a connection and is for no route or for one there is; the
\* fallbacks of files() are a list of paths.
ASSUME Http3Assumption ==
    /\ IsFiniteSet(Streams) /\ Cap \in Nat
    /\ \A s \in Streams : ConnOf(s) \in Conns
    /\ \A p \in Plans : \A s \in Streams : p[s].route \in {None} \cup DOMAIN Routes
    /\ \A r \in DOMAIN Routes : Routes[r].handler.h = "files" =>
          Routes[r].handler.try \in Seq(Seq(STRING))

VARIABLES listener,  \* serve(): "serving", "draining", "closing", then "stopped"
                     \* or, after a forced close, "closed"
          conn,      \* where each connection is
          plan,      \* what the clients are going to ask
          late,      \* history: connections that landed after the stop signal
          task,      \* the request tasks
          files,     \* the volatile files there are
          counters,  \* requests_total, by method and status
          observed   \* observations of the duration histogram

server == <<listener, conn, late>>
telemetry == <<counters, observed>>
vars == <<server, plan, task, files, telemetry, limiter>>

-----------------------------------------------------------------------------
(* States of a connection: "none", "spawned" (its task has not run yet),    *)
(* "handshake", "open", "goaway" (draining), and how it ended: "finished"   *)
(* (its loop saw the last request end), "lost" (the peer or the network     *)
(* closed it), "forced" (endpoint.close).                                   *)

Live(c) == conn[c] \in {"handshake", "open", "goaway"}

\* A task: where it is, what it was asked, its place in the middleware or in the
\* fallbacks of files(), the view the middleware leave, the file it is about to
\* read, the response, who made it and, once it has ended, who broke it off.
Idle == [at |-> "idle", q |-> None, pos |-> 0, view |-> None, target |-> <<>>,
         resp |-> None, via |-> None, cut |-> None]
Ended == {"idle", "answered", "broken"}

InFlight(c) == {s \in Streams : ConnOf(s) = c /\ task[s].at \notin Ended}

Init ==
    /\ LimiterInit
    /\ listener = "serving"
    /\ conn = [c \in Conns |-> "none"]
    /\ late = {}
    /\ plan \in Plans
    /\ task = [s \in Streams |-> Idle]
    /\ files \in SUBSET Volatile(plan)
    /\ counters = <<>>
    /\ observed = 0

-----------------------------------------------------------------------------
(* The accept loop and the drain.                                           *)

\* endpoint.accept(): a task is spawned for the connection.
Incoming(c) ==
    /\ listener = "serving"
    /\ conn[c] = "none"
    /\ conn' = [conn EXCEPT ![c] = "spawned"]
    /\ UNCHANGED <<listener, late>>

\* The stop signal: leave the loop and tell every connection to drain.
Shutdown ==
    /\ listener = "serving"
    /\ listener' = "draining"
    /\ UNCHANGED <<conn, late>>

\* wait_idle returns: no connection is live.  A task that was spawned but has
\* not run yet does not hold it up.
WaitIdle ==
    /\ listener \in {"draining", "closing"}
    /\ ~\E c \in Conns : Live(c)
    /\ listener' = IF listener = "closing" THEN "closed" ELSE "stopped"
    /\ UNCHANGED <<conn, late>>

\* Fault: the deadline is waited for, but nothing is closed when it passes.
DrainTimeoutIgnored ==
    /\ listener = "draining"
    /\ listener' = "closing"
    /\ UNCHANGED <<conn, late>>

\* drain_timeout elapses: the endpoint is closed, and with it its connections.
DrainTimeout ==
    /\ listener = "draining"
    /\ listener' = "closing"
    /\ conn' = [c \in Conns |-> IF Live(c) THEN "forced" ELSE conn[c]]
    /\ UNCHANGED late

-----------------------------------------------------------------------------
(* drive_connection.                                                        *)

\* The task runs for the first time and starts the handshake.
StartHandshake(c) ==
    /\ conn[c] = "spawned"
    /\ conn' = [conn EXCEPT ![c] = IF listener \in {"closing", "closed"} THEN "forced"
                                   ELSE "handshake"]
    /\ UNCHANGED <<listener, late>>

\* Fault: the loop starts without looking at the drain signal.
LandedUnaware(c) ==
    /\ conn[c] = "handshake"
    /\ conn' = [conn EXCEPT ![c] = "open"]
    /\ late' = IF listener = "serving" THEN late ELSE late \cup {c}
    /\ UNCHANGED listener

\* The handshake is over; if the signal is already there, GOAWAY goes out first.
Landed(c) ==
    /\ conn[c] = "handshake"
    /\ conn' = [conn EXCEPT ![c] = IF listener = "serving" THEN "open" ELSE "goaway"]
    /\ late' = IF listener = "serving" THEN late ELSE late \cup {c}
    /\ UNCHANGED listener

\* accept() yields a request; a task is spawned for it.
AcceptRequest(s) ==
    /\ conn[ConnOf(s)] = "open"
    /\ task[s].at = "idle"
    /\ task' = [task EXCEPT ![s] = [Idle EXCEPT !.at = "body", !.q = plan[s]]]
    /\ UNCHANGED <<server, files, telemetry, limiter>>

\* drain.changed(): GOAWAY, and no request is accepted from here on.
NoticeDrain(c) ==
    /\ conn[c] = "open"
    /\ listener # "serving"
    /\ conn' = [conn EXCEPT ![c] = "goaway"]
    /\ UNCHANGED <<listener, late>>

\* accept() resolves to None once the requests in flight have ended; the loop
\* is left and the connection closed.
LastRequestEnded(c) ==
    /\ conn[c] = "goaway"
    /\ InFlight(c) = {}
    /\ conn' = [conn EXCEPT ![c] = "finished"]
    /\ UNCHANGED <<listener, late>>

\* The handshake fails, or the peer, the idle timeout or the network end the
\* connection: accept() or shutdown() fails and the task returns.
ConnectionLost(c) ==
    /\ Live(c)
    /\ conn' = [conn EXCEPT ![c] = "lost"]
    /\ UNCHANGED <<listener, late>>

-----------------------------------------------------------------------------
(* Telemetry.                                                               *)

\* Fault: at the cap the family refuses every increment.
CountedBelowCap(series) ==
    IF Cardinality(DOMAIN counters) < Cap
    THEN IF series \in DOMAIN counters THEN [counters EXCEPT ![series] = @ + 1]
                                       ELSE counters @@ (series :> 1)
    ELSE counters

\* CounterVec::add: a series past the cap is not created.
Counted(series) ==
    CASE series \in DOMAIN counters -> [counters EXCEPT ![series] = @ + 1]
      [] series \notin DOMAIN counters /\ Cardinality(DOMAIN counters) < Cap ->
            [k \in DOMAIN counters \cup {series} |-> IF k = series THEN 1 ELSE counters[k]]
      [] OTHER -> counters

SeriesOf(t) == <<t.q.method, t.resp.status>>

\* dispatch ends: the response is counted and timed, and goes to be sent.
Finalize(s, t, r, via) ==
    LET sent == [t EXCEPT !.at = "sending", !.pos = 0, !.target = <<>>, !.resp = r,
                           !.via = via] IN
    /\ task' = [task EXCEPT ![s] = sent]
    /\ counters' = Counted(SeriesOf(sent))
    /\ observed' = observed + 1

-----------------------------------------------------------------------------
(* handle_request and dispatch.                                             *)

Pipe(t) == Routes[t.q.route].middleware

ViewOf(s) == LET q == task[s].q IN
    [method |-> q.method, path |-> q.path, flagged |-> q.flagged, origin |-> q.origin,
     peer |-> Peer(ConnOf(s))]

\* The middleware from position i on: an answer, a rate limiter whose check
\* reads the clock, or the handler.
RunIngress(s, i, view, t) ==
    LET r == Ingress(Pipe(t), i, view)
        there == [t EXCEPT !.pos = r.at, !.view = r.view]
    IN  \/ /\ r.answer # {}
           /\ \E a \in r.answer : Finalize(s, there, a, "ingress")
           /\ UNCHANGED limiter
        \/ /\ r.limited
           /\ task' = [task EXCEPT ![s] = [there EXCEPT !.at = "limiter"]]
           /\ stamp' = [stamp EXCEPT ![s] = clock]
           /\ UNCHANGED <<telemetry, clock, buckets, granted>>
        \/ /\ r.answer = {} /\ ~r.limited
           /\ task' = [task EXCEPT ![s] = [there EXCEPT !.at = "handler", !.pos = 1]]
           /\ UNCHANGED <<telemetry, limiter>>

\* The body passes the cap: 413 is sent without going through dispatch.
BodyTooLarge(s) ==
    /\ task[s].at = "body"
    /\ task[s].q.large
    /\ Live(ConnOf(s))
    /\ task' = [task EXCEPT ![s] = [@ EXCEPT !.at = "sending", !.resp = Reply(413), !.via = "body"]]
    /\ UNCHANGED <<server, files, telemetry, limiter>>

\* The body is there: route, and run the middleware.
Dispatch(s) ==
    LET t == task[s] IN
    /\ t.at = "body"
    /\ ~t.q.large
    /\ Live(ConnOf(s))
    /\ IF t.q.route = None
       THEN Finalize(s, t, Reply(404), "router") /\ UNCHANGED limiter
       ELSE RunIngress(s, 1, ViewOf(s), t)
    /\ UNCHANGED <<server, files>>

\* The limiter's lock: denied requests are answered with 429.
Limit429(s) ==
    LET t == task[s]
        k == RateKey(Pipe(t)[t.pos].key, t.view)
    IN  /\ t.at = "limiter"
        /\ ~Allowed(k, stamp[s])
        /\ Count(s, k)
        /\ Finalize(s, t, RateLimited(ResetSecs(k, stamp[s])), "ingress")
        /\ UNCHANGED <<server, files>>

\* Allowed requests go on; a second limiter would read the clock again.
LimitPassed(s) ==
    LET t == task[s]
        k == RateKey(Pipe(t)[t.pos].key, t.view)
        r == Ingress(Pipe(t), t.pos + 1, t.view)
    IN  /\ t.at = "limiter"
        /\ Allowed(k, stamp[s])
        /\ ~r.limited
        /\ Count(s, k)
        /\ LET there == [t EXCEPT !.pos = 1, !.view = r.view] IN
           IF r.answer = {}
           THEN task' = [task EXCEPT ![s] = [there EXCEPT !.at = "handler"]] /\ UNCHANGED telemetry
           ELSE \E a \in r.answer : Finalize(s, there, a, "ingress")
        /\ UNCHANGED <<server, files>>

\* The handler has answered: Egress and Finalize.
Answer(s, r) ==
    LET t == task[s] IN
    /\ Finalize(s, t, Egress(Pipe(t), t.q.origin, r), "handler")
    /\ UNCHANGED <<server, files, limiter>>

HandlerOf(t) == Routes[t.q.route].handler

\* respond() and redirect(), and what execute() does not implement.
Execute(s) ==
    /\ task[s].at = "handler"
    /\ HandlerOf(task[s]).h \notin {"proxy", "files"}
    /\ Answer(s, IF HandlerOf(task[s]).h = "other" THEN Reply(501) ELSE Reply(HandlerOf(task[s]).status))

\* proxy(): no pool by that name, or what forward() comes back with, if ever.
Proxy(s) ==
    /\ task[s].at = "handler"
    /\ HandlerOf(task[s]).h = "proxy"
    /\ \E status \in IF HandlerOf(task[s]).known THEN {200, 502} ELSE {502} : Answer(s, Reply(status))

-----------------------------------------------------------------------------
(* files(): the fallbacks in order.                                         *)

\* A fallback with the request's path in the place of "{path}".
ExpandPath(pattern, path) ==
    MapThenFoldSet(LAMBDA piece, done : done \o piece, <<>>,
                   LAMBDA j : IF pattern[j] = "{path}" THEN path ELSE <<pattern[j]>>,
                   Max, DOMAIN pattern)

\* The candidate paths.
Candidates(t) ==
    LET try == HandlerOf(t).try
    IN  IF try = <<>> THEN <<t.view.path>> ELSE [i \in DOMAIN try |-> ExpandPath(try[i], t.view.path)]

\* sanitized_join: the components below the root, if none climbs.
SanitizedJoin(rel) ==
    IF ".." \in Range(rel) THEN {} ELSE {SelectSeq(rel, LAMBDA c : c \notin {"/", "."})}

KindOf(path) == CASE path \in files -> "file"
                  [] path \in DOMAIN Permanent -> Permanent[path]
                  [] OTHER -> "absent"

\* Fault: a candidate that cannot be read ends the search.
NoCandidate(s) == Answer(s, Reply(404))

\* The candidate does not resolve: the next one, or 404 after the last.
NextCandidate(s) ==
    IF task[s].pos = Len(Candidates(task[s])) THEN Answer(s, Reply(404))
    ELSE /\ task' = [task EXCEPT ![s] = [@ EXCEPT !.at = "handler", !.pos = task[s].pos + 1]]
         /\ UNCHANGED <<server, files, telemetry, limiter>>

\* metadata(): a directory stands for its index.html.
Metadata(s) ==
    /\ task[s].at = "handler"
    /\ HandlerOf(task[s]).h = "files"
    /\ LET found == {p \in SanitizedJoin(Candidates(task[s])[task[s].pos]) : KindOf(p) # "absent"} IN
       IF found = {} THEN NextCandidate(s)
       ELSE /\ \E p \in found :
                  task' = [task EXCEPT ![s] =
                      [@ EXCEPT !.at = "read",
                                !.target = IF KindOf(p) = "dir" THEN Append(p, "index.html") ELSE p]]
            /\ UNCHANGED <<server, files, telemetry, limiter>>

\* read(), after an await: the file may be gone by then.
ReadFile(s) ==
    /\ task[s].at = "read"
    /\ IF KindOf(task[s].target) = "file"
       THEN Answer(s, [Reply(200) EXCEPT !.file = task[s].target])
       ELSE NextCandidate(s)

\* Someone deploys: a volatile file appears or disappears.
FileChanges(p) ==
    /\ files' = IF p \in files THEN files \ {p} ELSE files \cup {p}
    /\ UNCHANGED <<server, task, telemetry, limiter>>

-----------------------------------------------------------------------------
(* The end of a request.                                                    *)

Send(s) ==
    /\ task[s].at = "sending"
    /\ Live(ConnOf(s))
    /\ task' = [task EXCEPT ![s].at = "answered"]
    /\ UNCHANGED <<server, files, telemetry, limiter>>

\* Reading the body or sending the response fails, because the client reset
\* the stream or because the connection is gone.
StreamFails(s) ==
    /\ task[s].at \in {"body", "sending"}
    /\ task' = [task EXCEPT ![s] = [@ EXCEPT !.at = "broken",
                   !.cut = IF Live(ConnOf(s)) THEN "client" ELSE "connection"]]
    /\ UNCHANGED <<server, files, telemetry, limiter>>

TimePasses ==
    /\ clock < MaxClock(plan)
    /\ Tick
    /\ UNCHANGED <<server, task, files, telemetry>>

-----------------------------------------------------------------------------
\* What serve() and the connection tasks do.
Serve == \/ WaitIdle \/ DrainTimeout
         \/ \E c \in Conns : NoticeDrain(c) \/ LastRequestEnded(c)

Connection == \/ Shutdown
              \/ \E c \in Conns : Incoming(c) \/ StartHandshake(c) \/ Landed(c) \/ ConnectionLost(c)

\* What a request task does by itself.
Task(s) == \/ BodyTooLarge(s) \/ Dispatch(s) \/ Limit429(s) \/ LimitPassed(s) \/ Execute(s)
           \/ Metadata(s) \/ ReadFile(s) \/ Send(s)

Next == \/ /\ Serve \/ Connection
           /\ UNCHANGED <<task, files, telemetry, limiter>>
        \/ \E s \in Streams : AcceptRequest(s) \/ Task(s) \/ Proxy(s) \/ StreamFails(s)
        \/ \E p \in Volatile(plan) : FileChanges(p)
        \/ TimePasses

Spec == Init /\ [][Next /\ UNCHANGED plan]_vars

\* serve() is polled when the endpoint is idle and when its timer fires.
\* Nothing is assumed of clients, upstreams, connections or request tasks.
FairSpec ==
    /\ Spec
    /\ WF_vars(WaitIdle /\ UNCHANGED <<plan, task, files, telemetry, limiter>>)
    /\ WF_vars(DrainTimeout /\ UNCHANGED <<plan, task, files, telemetry, limiter>>)

-----------------------------------------------------------------------------
\* The drain is graceful for what is in progress and only for that.  "If
\* shutdown was already requested before this connection landed, send GOAWAY
\* immediately so it only drains": such a connection never gets a request
\* accepted, even one whose task first runs after serve() returned.  And a
\* request loses its connection only because the peer or the network closed
\* it, or because the deadline forced it.
DrainIsGraceful ==
    \A s \in Streams :
        /\ ConnOf(s) \in late => task[s].at = "idle"
        /\ task[s].cut = "connection" => conn[ConnOf(s)] \in {"lost", "forced"}

Recorded == {s \in Streams : task[s].via \notin {None, "body"}}

\* The telemetry accounts for every request that went through dispatch: a
\* series that exists is exact, the cap loses no series while there is room,
\* and every request is timed.
CountsAreExact ==
    /\ \A k \in DOMAIN counters : counters[k] = Cardinality({s \in Recorded : SeriesOf(task[s]) = k})
    /\ Cardinality(DOMAIN counters) < Cap =>
          \A s \in Recorded : SeriesOf(task[s]) \in DOMAIN counters
    /\ observed = Cardinality(Recorded)

\* A range and an address agree in the bits the prefix covers.
InRange(c, ip) ==
    LET Bit(x, b) == (x \div 2^b) % 2
    IN  /\ c.family = ip.family
        /\ \A b \in (Width - c.prefix)..(Width - 1) : Bit(c.bits, b) = Bit(ip.bits, b)

Admitted(acl, ip) == IF acl.allow # {} THEN \E c \in acl.allow : InRange(c, ip)
                                       ELSE ~\E c \in acl.deny : InRange(c, ip)

\* An address list means what it says whichever form the address comes in: a
\* request reaches the limiter or the handler of a route only from an address
\* its lists admit, bit by bit, and one that nothing flags is refused only
\* when a list does not admit it.
ListsAreObeyed ==
    \A s \in Streams :
        LET ip == ToCanonical(Peer(ConnOf(s)))
            lists == {m.acl : m \in {x \in Range(Pipe(task[s])) : x.mw = "ip"}}
        IN  /\ task[s].at \in {"limiter", "handler", "read"} \/ task[s].via = "handler" =>
                  \A acl \in lists : Admitted(acl, ip)
            /\ ~(task[s].via = "ingress" /\ task[s].resp.status = 403 /\ ~task[s].q.flagged)
               \/ \E acl \in lists : ~Admitted(acl, ip)

\* What the i-th fallback may be served as: a path, or the index.html of a directory.
Served(t, i) == LET paths == SanitizedJoin(Candidates(t)[i])
                IN  paths \cup {Append(p, "index.html") : p \in paths}

\* The fallbacks that are always there.
AlwaysThere(path) == path \in DOMAIN Permanent /\ Permanent[path] = "file"
Steady(t) == {i \in DOMAIN Candidates(t) : \E p \in SanitizedJoin(Candidates(t)[i]) : AlwaysThere(p)}

\* files() with a fallback that is always there never answers 404, and never
\* passes over such a fallback for a later one, although a file found by
\* metadata() may be gone when it is read.
FallbackIsServed ==
    \A s \in Streams : task[s].via = "handler" /\ HandlerOf(task[s]).h = "files" =>
        \A i \in Steady(task[s]) : /\ task[s].resp.status = 200
                                   /\ \E j \in 1..i : task[s].resp.file \in Served(task[s], j)

\* Once told to stop, serve() returns: the drain ends by itself or by force,
\* even with a request whose upstream never answers or a peer that stalls.
ServeReturns == listener = "draining" ~> listener \in {"stopped", "closed"}
=============================================================================
