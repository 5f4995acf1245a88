---------------------------- MODULE RateLimiter ----------------------------
(***************************************************************************)
(* The fixed-window rate limiter of pulsate-waf (RateLimiter::check),       *)
(* shared by the requests of a route.  A request reads the clock before it  *)
(* takes the lock, so the times at which requests are counted need not be   *)
(* in the order in which they are counted.                                  *)
(*                                                                          *)
(* Nothing between lock and unlock panics, so the lock is never poisoned    *)
(* and the branch of check() for that case is left out.                     *)
(***************************************************************************)
EXTENDS Integers, Sequences

CONSTANTS Callers,  \* requests that may be in check() at once
          Keys,     \* bucket keys
          Limit,    \* requests per window
          Window,   \* length of a window, in ticks
          Second,   \* ticks per second
          Wait      \* bound: ticks between reading the clock and the lock

ASSUME LimiterAssumption ==
    Limit \in Nat /\ Window \in Nat \ {0} /\ Second \in Nat \ {0} /\ Wait \in Nat

VARIABLES clock,    \* the time
          buckets,  \* per key: window start and requests counted, if any
          stamp,    \* the time a request in check() read
          granted   \* history: per key, when requests were allowed

limiter == <<clock, buckets, stamp, granted>>

NotRead == -1
NoBucket == [start |-> NotRead, used |-> 0]

LimiterInit ==
    /\ clock = 0
    /\ buckets = [k \in Keys |-> NoBucket]
    /\ stamp = [c \in Callers |-> NotRead]
    /\ granted = [k \in Keys |-> <<>>]

-----------------------------------------------------------------------------
\* let now = Instant::now(), before the lock.
ReadClock(c) ==
    /\ stamp[c] = NotRead
    /\ stamp' = [stamp EXCEPT ![c] = clock]
    /\ UNCHANGED <<clock, buckets, granted>>

\* duration_since saturates: a start later than now is no time ago.
Since(now, start) == IF now > start THEN now - start ELSE 0

\* Fault: requests are counted only when they open a window.
EntryUncounted(k, now) ==
    LET b == IF buckets[k] = NoBucket THEN [start |-> now, used |-> 0] ELSE buckets[k]
    IN  IF Since(now, b.start) >= Window THEN [start |-> now, used |-> 1] ELSE b

\* The bucket once this request is counted: a new one, one whose window has
\* elapsed and starts again now, or the one there is.
Entry(k, now) ==
    LET b == IF buckets[k] = NoBucket THEN [start |-> now, used |-> 0] ELSE buckets[k]
    IN  IF Since(now, b.start) >= Window THEN [start |-> now, used |-> 1]
                                         ELSE [b EXCEPT !.used = @ + 1]

Allowed(k, now) == Entry(k, now).used <= Limit

\* Whole seconds until the window ends, rounded down.
ResetSecs(k, now) ==
    LET left == Window - Since(now, Entry(k, now).start)
    IN  (IF left > 0 THEN left ELSE 0) \div Second

\* The critical section of check(key).
Count(c, k) ==
    /\ stamp[c] # NotRead
    /\ buckets' = [buckets EXCEPT ![k] = Entry(k, stamp[c])]
    /\ granted' = [granted EXCEPT ![k] = IF Allowed(k, stamp[c]) THEN Append(@, clock) ELSE @]
    /\ stamp' = [stamp EXCEPT ![c] = NotRead]
    /\ UNCHANGED clock

\* Time passes; no request waits longer than Wait for the lock.
Tick ==
    /\ \A c \in Callers : stamp[c] # NotRead => clock - stamp[c] < Wait
    /\ clock' = clock + 1
    /\ UNCHANGED <<buckets, stamp, granted>>

LimiterNext == \/ \E c \in Callers : ReadClock(c)
               \/ \E c \in Callers, k \in Keys : Count(c, k)
               \/ Tick

LimiterSpec == LimiterInit /\ [][LimiterNext]_limiter

-----------------------------------------------------------------------------
\* Type invariant of the limiter.
LimiterTypeOK ==
    /\ clock \in Nat
    /\ buckets \in [Keys -> [start : Nat \cup {NotRead}, used : Nat]]
    /\ stamp \in [Callers -> Nat \cup {NotRead}]
    /\ granted \in [Keys -> Seq(Nat)]

\* A key is never allowed more than two windows' worth of requests in less
\* than a window (less the wait for the lock): of any 2 * Limit + 1 requests
\* allowed in a row the last comes at least that long after the first, however
\* the requests that read the clock early and are counted late interleave.
BurstIsBounded ==
    \A k \in Keys : \A i, j \in DOMAIN granted[k] :
        j = i + 2 * Limit => granted[k][j] - granted[k][i] >= Window - Wait
=============================================================================
