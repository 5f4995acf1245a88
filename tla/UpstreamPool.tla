---------------------------- MODULE UpstreamPool ----------------------------
(***************************************************************************)
(* One upstream pool of pulsate-proxy and the requests that go through it: *)
(* Upstream::{pick, record_success, record_failure, inflight_*} (lib.rs)   *)
(* and the retry loop of forward() (forward.rs).  A worker is a task that  *)
(* runs forward() for one request after another.  The pool is lock-light:  *)
(* every atomic or mutex-protected access of a worker is one action, so    *)
(* workers interleave between the accesses of pick and of record_*.        *)
(*                                                                         *)
(* Time is relative: ejected[t] is what is left of ejected_until, 0 both   *)
(* for None and for an instant that has passed, and Tick lets time pass.   *)
(***************************************************************************)
EXTENDS Integers, Sequences, FiniteSets

CONSTANTS Workers,             \* tasks running forward()
          N,                   \* number of backends
          Policies,            \* load-balancing policies a pool may be given
          Attempts,            \* RetryPolicy.attempts
          RetryOnConnectError, \* RetryPolicy.on_connect_error
          Threshold,           \* BreakerPolicy.consecutive_failures
          OpenFor,             \* BreakerPolicy.open_for, in ticks
          ClientHash,          \* hash of the client address of each worker
          RRSpan,              \* 2^width of the rr counter
          MaxLeaks             \* bound: requests to each backend dropped in flight

ASSUME PoolAssumption ==
    /\ IsFiniteSet(Workers)
    /\ N \in Nat
    /\ Policies \subseteq {"RoundRobin", "LeastConn", "Random", "IpHash"}
    /\ Attempts \in Nat
    /\ RetryOnConnectError \in BOOLEAN
    /\ Threshold \in Nat
    /\ OpenFor \in Nat
    /\ ClientHash \in [Workers -> Nat]
    /\ RRSpan \in Nat \ {0}
    /\ MaxLeaks \in [1..N -> Nat]

Targets == 1..N

VARIABLES inflight,  \* AtomicU64 per backend
          fails,     \* consecutive_failures, AtomicU32 per backend
          ejected,   \* remaining ejection per backend
          rr,        \* rotation counter of the pool
          pc,        \* next access of each worker
          tries,     \* tries of forward()'s loop started so far
          at,        \* position of the scan over the backends (or candidates)
          eligible,  \* candidates collected by pick
          idx,       \* the picked backend, 0 before the pick
          low,       \* least in-flight count met so far (LeastConn)
          answer,    \* how the latest try ended
          outcome,   \* what the latest finished forward() returned
          sends,     \* history: upstream requests made by this forward()
          leaked,    \* history: in-flight requests dropped per backend
          policy     \* the policy of the pool

pool == <<inflight, fails, ejected, rr>>
locals == <<tries, at, eligible, idx, low, answer, outcome, sends>>
vars == <<pool, pc, locals, leaked, policy>>

Init == /\ inflight = [t \in Targets |-> 0]
        /\ fails = [t \in Targets |-> 0]
        /\ ejected = [t \in Targets |-> 0]
        /\ rr = 0
        /\ pc = [w \in Workers |-> "idle"]
        /\ tries = [w \in Workers |-> 0]
        /\ at = [w \in Workers |-> 0]
        /\ eligible = [w \in Workers |-> <<>>]
        /\ idx = [w \in Workers |-> 0]
        /\ low = [w \in Workers |-> 0]
        /\ answer = [w \in Workers |-> "none"]
        /\ outcome = [w \in Workers |-> "none"]
        /\ sends = [w \in Workers |-> 0]
        /\ leaked = [t \in Targets |-> 0]
        /\ policy \in Policies

----------------------------------------------------------------------------
(* forward(): the retry loop *)

TotalTries == IF Attempts > 1 THEN Attempts ELSE 1

(* Enter the loop body: pick starts to look at the backends. *)
StartPick(w) == /\ at' = [at EXCEPT ![w] = 1]
                /\ eligible' = [eligible EXCEPT ![w] = <<>>]
                /\ pc' = [pc EXCEPT ![w] = IF N = 0 THEN "picked" ELSE "scan"]

Return(w, result) == /\ pc' = [pc EXCEPT ![w] = "idle"]
                     /\ outcome' = [outcome EXCEPT ![w] = result]
                     /\ tries' = [tries EXCEPT ![w] = 0]
                     /\ at' = [at EXCEPT ![w] = 0]
                     /\ eligible' = [eligible EXCEPT ![w] = <<>>]
                     /\ idx' = [idx EXCEPT ![w] = 0]
                     /\ low' = [low EXCEPT ![w] = 0]
                     /\ answer' = [answer EXCEPT ![w] = "none"]
                     /\ UNCHANGED sends

(* A request arrives for this pool. *)
Begin(w) == /\ pc[w] = "idle"
            /\ tries' = [tries EXCEPT ![w] = 1]
            /\ sends' = [sends EXCEPT ![w] = 0]
            /\ outcome' = [outcome EXCEPT ![w] = "none"]
            /\ StartPick(w)
            /\ UNCHANGED <<pool, idx, low, answer, leaked, policy>>

(* Fault: the loop forgets to count the try it starts. *)
RetryUncounted(w) ==
    IF answer[w] = "connect" /\ ~RetryOnConnectError
    THEN Return(w, "CONNECT_TIMEOUT")
    ELSE IF tries[w] >= TotalTries /\ TotalTries = 1
    THEN Return(w, "RETRY_EXHAUSTED")
    ELSE /\ StartPick(w)
         /\ UNCHANGED <<tries, idx, low, answer, outcome, sends>>

(* What follows a failed try: give up, or take the next one. *)
AfterFailure(w) ==
    IF answer[w] = "connect" /\ ~RetryOnConnectError
    THEN Return(w, "CONNECT_TIMEOUT")
    ELSE IF tries[w] >= TotalTries
    THEN Return(w, "RETRY_EXHAUSTED")
    ELSE /\ StartPick(w)
         /\ tries' = [tries EXCEPT ![w] = @ + 1]
         /\ idx' = [idx EXCEPT ![w] = 0]
         /\ answer' = [answer EXCEPT ![w] = "none"]
         /\ UNCHANGED <<low, outcome, sends>>

----------------------------------------------------------------------------
(* pick *)

(* Fault: pick does not look at the ejection. *)
ScanIgnoresEjection(w) ==
    /\ pc[w] = "scan"
    /\ eligible' = [eligible EXCEPT ![w] = Append(@, at[w])]
    /\ at' = [at EXCEPT ![w] = @ + 1]
    /\ pc' = [pc EXCEPT ![w] = IF at[w] = N THEN "picked" ELSE "scan"]
    /\ UNCHANGED <<pool, tries, idx, low, answer, outcome, sends, leaked, policy>>

(* is_ejected takes the lock of one backend at a time. *)
Scan(w) ==
    /\ pc[w] = "scan"
    /\ eligible' = IF ejected[at[w]] > 0 THEN eligible
                   ELSE [eligible EXCEPT ![w] = Append(@, at[w])]
    /\ at' = [at EXCEPT ![w] = @ + 1]
    /\ pc' = [pc EXCEPT ![w] = IF at[w] = N THEN "picked" ELSE "scan"]
    /\ UNCHANGED <<pool, tries, idx, low, answer, outcome, sends, leaked, policy>>

(* No candidate: 503 at once, without a further try. *)
NoHealthy(w) ==
    /\ pc[w] = "picked"
    /\ eligible[w] = <<>>
    /\ Return(w, "NO_HEALTHY")
    /\ UNCHANGED <<pool, leaked, policy>>

(* 2654435761 modulo 2^16, for counters of at most 16 bits. *)
Multiplier == 31153

Position(w) == CASE policy = "RoundRobin" -> rr
                 [] policy = "Random"     -> (rr * Multiplier) % RRSpan
                 [] OTHER                 -> ClientHash[w]

(* pick goes on with the candidate at `next`, or returns: its locals are gone. *)
PickGoesOn(w, next, least) ==
    /\ at' = [at EXCEPT ![w] = next]
    /\ low' = [low EXCEPT ![w] = least]
    /\ pc' = [pc EXCEPT ![w] = "least"]
    /\ UNCHANGED eligible

PickReturns(w) ==
    /\ at' = [at EXCEPT ![w] = 0]
    /\ low' = [low EXCEPT ![w] = 0]
    /\ eligible' = [eligible EXCEPT ![w] = <<>>]
    /\ pc' = [pc EXCEPT ![w] = "send"]

(* RoundRobin, Random and IpHash index the candidates modulo their number. *)
Choose(w) ==
    /\ pc[w] = "picked"
    /\ policy # "LeastConn"
    /\ eligible[w] # <<>>
    /\ idx' = [idx EXCEPT ![w] = eligible[w][1 + (Position(w) % Len(eligible[w]))]]
    /\ rr' = IF policy = "IpHash" THEN rr ELSE (rr + 1) % RRSpan
    /\ PickReturns(w)
    /\ UNCHANGED <<inflight, fails, ejected, tries, answer, outcome, sends, leaked, policy>>

(* LeastConn loads the counters of the candidates one by one and keeps the *)
(* first of the smallest.                                                  *)
LeastConnBegin(w) ==
    LET t == eligible[w][1] IN
    /\ pc[w] = "picked"
    /\ policy = "LeastConn"
    /\ eligible[w] # <<>>
    /\ idx' = [idx EXCEPT ![w] = t]
    /\ IF Len(eligible[w]) = 1 THEN PickReturns(w) ELSE PickGoesOn(w, 2, inflight[t])
    /\ UNCHANGED <<pool, tries, answer, outcome, sends, leaked, policy>>

LeastConnNext(w) ==
    LET t == eligible[w][at[w]]
        less == inflight[t] < low[w]
    IN
    /\ pc[w] = "least"
    /\ idx' = IF less THEN [idx EXCEPT ![w] = t] ELSE idx
    /\ IF at[w] = Len(eligible[w]) THEN PickReturns(w)
       ELSE PickGoesOn(w, at[w] + 1, IF less THEN inflight[t] ELSE low[w])
    /\ UNCHANGED <<pool, tries, answer, outcome, sends, leaked, policy>>

----------------------------------------------------------------------------
(* One try *)

(* The target URI or a header does not make a request. *)
BuildRequestFails(w) ==
    /\ pc[w] = "send"
    /\ Return(w, "PROTOCOL_ERROR")
    /\ UNCHANGED <<pool, leaked, policy>>

(* inflight_inc, then the request is on the wire. *)
Send(w) ==
    /\ pc[w] = "send"
    /\ inflight' = [inflight EXCEPT ![idx[w]] = @ + 1]
    /\ sends' = [sends EXCEPT ![w] = @ + 1]
    /\ pc' = [pc EXCEPT ![w] = "await"]
    /\ UNCHANGED <<fails, ejected, rr, tries, at, eligible, idx, low, answer,
                   outcome, leaked, policy>>

(* Fault: inflight_dec only where the request succeeds. *)
AnswerDecrementsOnOk(w, a) ==
    /\ pc[w] = "await"
    /\ inflight' = IF a = "ok" THEN [inflight EXCEPT ![idx[w]] = @ - 1] ELSE inflight
    /\ answer' = [answer EXCEPT ![w] = a]
    /\ pc' = [pc EXCEPT ![w] = IF a = "ok" THEN "success" ELSE "failure"]
    /\ UNCHANGED <<fails, ejected, rr, tries, at, eligible, idx, low, outcome,
                   sends, leaked, policy>>

(* The await ends with a usable response, with a status in retry_on_status, *)
(* or with a connect or transport error; inflight_dec follows in each case. *)
Answer(w, a) ==
    /\ pc[w] = "await"
    /\ inflight' = [inflight EXCEPT ![idx[w]] = @ - 1]
    /\ answer' = [answer EXCEPT ![w] = a]
    /\ pc' = [pc EXCEPT ![w] = IF a = "ok" THEN "success" ELSE "failure"]
    /\ UNCHANGED <<fails, ejected, rr, tries, at, eligible, idx, low, outcome,
                   sends, leaked, policy>>

(* The client goes away and the server drops the future at the await: the  *)
(* code after it, inflight_dec included, does not run.                     *)
Cancel(w) ==
    /\ pc[w] = "await"
    /\ leaked[idx[w]] < MaxLeaks[idx[w]]
    /\ leaked' = [leaked EXCEPT ![idx[w]] = @ + 1]
    /\ Return(w, "cancelled")
    /\ UNCHANGED <<pool, policy>>

----------------------------------------------------------------------------
(* record_failure *)

(* Fault: the trailing store(0) of record_failure is missing. *)
EjectWithoutReset(w) ==
    /\ pc[w] = "eject"
    /\ ejected' = [ejected EXCEPT ![idx[w]] = OpenFor]
    /\ AfterFailure(w)
    /\ UNCHANGED <<inflight, fails, rr, leaked, policy>>

(* fetch_add(1) + 1 >= threshold decides whether this failure ejects. *)
CountFailure(w) ==
    LET n == fails[idx[w]] + 1 IN
    /\ pc[w] = "failure"
    /\ fails' = [fails EXCEPT ![idx[w]] = n]
    /\ IF n >= Threshold
       THEN /\ pc' = [pc EXCEPT ![w] = "eject"]
            /\ UNCHANGED locals
       ELSE AfterFailure(w)
    /\ UNCHANGED <<inflight, ejected, rr, leaked, policy>>

(* Under the lock: ejected_until = now + open_for. *)
Eject(w) ==
    /\ pc[w] = "eject"
    /\ ejected' = [ejected EXCEPT ![idx[w]] = OpenFor]
    /\ pc' = [pc EXCEPT ![w] = "reset"]
    /\ UNCHANGED <<inflight, fails, rr, locals, leaked, policy>>

(* The trailing store(0), after the lock is released. *)
ResetAfterEject(w) ==
    /\ pc[w] = "reset"
    /\ fails' = [fails EXCEPT ![idx[w]] = 0]
    /\ AfterFailure(w)
    /\ UNCHANGED <<inflight, ejected, rr, leaked, policy>>

----------------------------------------------------------------------------
(* record_success *)

ResetStreak(w) ==
    /\ pc[w] = "success"
    /\ fails' = [fails EXCEPT ![idx[w]] = 0]
    /\ pc' = [pc EXCEPT ![w] = "clear"]
    /\ UNCHANGED <<inflight, ejected, rr, locals, leaked, policy>>

(* ejected_until = None; the response is normalised and returned. *)
ClearEjection(w) ==
    /\ pc[w] = "clear"
    /\ ejected' = [ejected EXCEPT ![idx[w]] = 0]
    /\ Return(w, "ok")
    /\ UNCHANGED <<inflight, fails, rr, leaked, policy>>

----------------------------------------------------------------------------
(* Time passes for every ejection at once. *)
Tick == /\ \E t \in Targets : ejected[t] > 0
        /\ ejected' = [t \in Targets |-> IF ejected[t] > 0 THEN ejected[t] - 1 ELSE 0]
        /\ UNCHANGED <<inflight, fails, rr, pc, locals, leaked, policy>>

(* The steps of a request the program takes once it has begun. *)
Progress(w) == \/ Scan(w)
               \/ NoHealthy(w)
               \/ Choose(w)
               \/ LeastConnBegin(w)
               \/ LeastConnNext(w)
               \/ BuildRequestFails(w)
               \/ Send(w)
               \/ \E a \in {"ok", "status", "connect"} : Answer(w, a)
               \/ CountFailure(w)
               \/ Eject(w)
               \/ ResetAfterEject(w)
               \/ ResetStreak(w)
               \/ ClearEjection(w)

Next == \/ \E w \in Workers : Begin(w) \/ Progress(w) \/ Cancel(w)
        \/ Tick

Spec == Init /\ [][Next]_vars

(* The runtime polls every ready task, a request on the wire is answered or *)
(* fails, and time passes.                                                  *)
FairSpec == /\ Spec
            /\ \A w \in Workers : WF_vars(Progress(w))
            /\ WF_vars(Tick)

----------------------------------------------------------------------------
(* Type invariant: counters never go below zero, every position and picked *)
(* backend stays within the pool.                                          *)
TypeOK ==
    /\ inflight \in [Targets -> Nat]
    /\ fails \in [Targets -> Nat]
    /\ ejected \in [Targets -> 0..OpenFor]
    /\ rr \in 0..(RRSpan - 1)
    /\ pc \in [Workers -> {"idle", "scan", "picked", "least", "send", "await",
                           "failure", "eject", "reset", "success", "clear"}]
    /\ tries \in [Workers -> 0..TotalTries]
    /\ at \in [Workers -> Nat]
    /\ eligible \in [Workers -> Seq(Targets)]
    /\ idx \in [Workers -> Targets \cup {0}]
    /\ low \in [Workers -> Nat]
    /\ answer \in [Workers -> {"none", "ok", "status", "connect"}]
    /\ outcome \in [Workers -> {"none", "ok", "NO_HEALTHY", "PROTOCOL_ERROR",
                                "CONNECT_TIMEOUT", "RETRY_EXHAUSTED", "cancelled"}]
    /\ sends \in [Workers -> Nat]
    /\ leaked \in [Targets -> Nat]
    /\ policy \in Policies

(* The requests on the wire to t, and the ejections of t in progress. *)
Sending(t) == {w \in Workers : pc[w] = "await" /\ idx[w] = t}
Ejecting(t) == {w \in Workers : pc[w] \in {"eject", "reset"} /\ idx[w] = t}

(* inflight_inc and inflight_dec pair up whatever the answer, the retries   *)
(* and the interleaving: the counter LeastConn compares is the requests on  *)
(* the wire plus the ones whose future was dropped at the await, so         *)
(* fetch_sub never takes it below zero.                                     *)
InflightAccountsForRequests ==
    \A t \in Targets : inflight[t] = Cardinality(Sending(t)) + leaked[t]

(* consecutive_failures never runs away: it reaches the threshold only      *)
(* while that many more workers are between their fetch_add and the store   *)
(* of zero that ends the ejection (record_failure).                         *)
FailureCountBounded ==
    \A t \in Targets :
        fails[t] < (IF Threshold > 1 THEN Threshold ELSE 1) + Cardinality(Ejecting(t))

(* forward() makes at most max(attempts, 1) upstream requests per client    *)
(* request, whichever backends fail and get ejected meanwhile, and gives up *)
(* for want of tries only after it has made all of them.                    *)
SendsWithinBudget ==
    \A w \in Workers : /\ sends[w] <= TotalTries
                       /\ outcome[w] = "RETRY_EXHAUSTED" => sends[w] = TotalTries

(* An ejected backend gets back into rotation: failures of requests sent    *)
(* before the ejection may extend it, but no new ones are sent meanwhile.   *)
EjectedIsReadmitted ==
    \A t \in Targets : ejected[t] > 0 ~> ejected[t] = 0
=============================================================================
