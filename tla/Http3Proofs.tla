---------------------------- MODULE Http3Proofs ----------------------------
(***************************************************************************)
(* The HTTP/3 listener for any number of connections and requests, any      *)
(* routes and any sequence of stops, losses and deploys: its drain, its     *)
(* telemetry and the rate limiter its requests share, which is also proved  *)
(* on its own; and the fallbacks of files(), for any list of them, any root *)
(* and any deploys between metadata() and read().                           *)
(***************************************************************************)
EXTENDS Http3, FiniteSetTheorems, TLAPS

-----------------------------------------------------------------------------
(* The rate limiter on its own: its burst bound, for every limit, window and *)
(* number of racing requests.                                                *)

\* What the clock readings in flight and the recorded times are bounded by.
TimesInOrder ==
    /\ \A c \in Callers : stamp[c] # NotRead => stamp[c] <= clock /\ clock <= stamp[c] + Wait
    /\ \A k \in Keys : buckets[k].start <= clock
    /\ \A k \in Keys : \A i \in DOMAIN granted[k] : granted[k][i] <= clock
    /\ \A k \in Keys : buckets[k] # NoBucket => buckets[k].start # NotRead
    /\ \A k \in Keys : buckets[k] = NoBucket => granted[k] = <<>>

\* For a window that starts at `start` and has counted `used` requests, and the
\* times s at which its key was allowed: a request allowed before the window
\* was allowed no later than the window started, give or take the wait for the
\* lock; one that has a whole window's worth of allowed requests between it and
\* the window was allowed a window earlier still.
OlderThan(start, used, s) ==
    /\ \A i \in 1..Len(s) : i <= Len(s) - used \/ i <= Len(s) - Limit =>
          s[i] <= start + Wait
    /\ \A i \in 1..Len(s) : i <= Len(s) - used - Limit \/ i <= Len(s) - Limit - Limit =>
          s[i] <= start + Wait - Window

OlderGrants == \A k \in Keys : buckets[k] # NoBucket =>
                   OlderThan(buckets[k].start, buckets[k].used, granted[k])

\* BurstIsBounded for one key.
Spread(s) == \A i, j \in 1..Len(s) : j = i + 2 * Limit => s[j] - s[i] >= Window - Wait

LimiterInv == LimiterTypeOK /\ TimesInOrder /\ OlderGrants /\ BurstIsBounded

-----------------------------------------------------------------------------
\* Entry: the bucket after counting is one that started now, with one request,
\* at least a window after the one before it, or the same with one more.
LEMMA EntryCases ==
    ASSUME LimiterTypeOK, TimesInOrder, NEW k \in Keys, NEW now \in Nat
    PROVE  /\ Entry(k, now) \in [start : Nat, used : Nat]
           /\ Entry(k, now) # NoBucket
           /\ \/ /\ Entry(k, now) = [start |-> now, used |-> 1]
                 /\ buckets[k] = NoBucket \/ now >= buckets[k].start + Window
              \/ /\ buckets[k] # NoBucket
                 /\ Entry(k, now) = [start |-> buckets[k].start, used |-> buckets[k].used + 1]
<1>1. buckets[k] \in [start : Nat \cup {NotRead}, used : Nat]
  BY DEF LimiterTypeOK
<1>2. CASE buckets[k] = NoBucket
  <2>1. Since(now, now) = 0
    BY DEF Since
  <2>2. Entry(k, now) = [start |-> now, used |-> 1]
    BY <1>2, <2>1, LimiterAssumption DEF Entry
  <2> QED
    BY <1>2, <2>2 DEF NoBucket, NotRead
<1>3. CASE buckets[k] # NoBucket
  <2>1. buckets[k].start \in Nat /\ buckets[k].used \in Nat
    BY <1>1, <1>3 DEF TimesInOrder, NotRead
  <2>2. buckets[k] = [start |-> buckets[k].start, used |-> buckets[k].used]
    BY <1>1
  <2>3. CASE Since(now, buckets[k].start) >= Window
    <3>1. Entry(k, now) = [start |-> now, used |-> 1]
      BY <1>3, <2>3 DEF Entry
    <3>2. now >= buckets[k].start + Window
      BY <2>1, <2>3, LimiterAssumption DEF Since
    <3> QED
      BY <3>1, <3>2 DEF NoBucket, NotRead
  <2>4. CASE ~(Since(now, buckets[k].start) >= Window)
    <3>1. Entry(k, now) = [buckets[k] EXCEPT !.used = @ + 1]
      BY <1>3, <2>4 DEF Entry
    <3>2. Entry(k, now) = [start |-> buckets[k].start, used |-> buckets[k].used + 1]
      BY <2>2, <3>1
    <3> QED
      BY <1>3, <2>1, <3>2 DEF NoBucket, NotRead
  <2> QED
    BY <2>3, <2>4
<1> QED
  BY <1>2, <1>3

\* Reading the clock before the lock keeps the invariant.
LEMMA ReadClockKeeps ==
    ASSUME LimiterInv, NEW c \in Callers, ReadClock(c)
    PROVE  LimiterInv'
<1>1. LimiterTypeOK'
  BY DEF LimiterInv, LimiterTypeOK, ReadClock
<1>2. \A d \in Callers : stamp'[d] = IF d = c THEN clock ELSE stamp[d]
  BY DEF LimiterInv, LimiterTypeOK, ReadClock
<1>3. TimesInOrder'
  BY <1>2, LimiterAssumption DEF LimiterInv, LimiterTypeOK, TimesInOrder, ReadClock
<1>4. OlderGrants'
  BY DEF LimiterInv, OlderGrants, ReadClock
<1>5. BurstIsBounded'
  BY DEF LimiterInv, BurstIsBounded, ReadClock
<1> QED
  BY <1>1, <1>3, <1>4, <1>5 DEF LimiterInv

\* So does the passing of time: no reading in flight gets too old.
LEMMA TickKeeps ==
    ASSUME LimiterInv, Tick
    PROVE  LimiterInv'
<1>1. LimiterTypeOK'
  BY DEF LimiterInv, LimiterTypeOK, Tick
<1>2. \A k \in Keys : \A i \in DOMAIN granted[k] : granted[k][i] \in Nat
  BY DEF LimiterInv, LimiterTypeOK
<1>3. TimesInOrder'
  <2>1. \A c \in Callers : stamp'[c] # NotRead => stamp'[c] <= clock' /\ clock' <= stamp'[c] + Wait
    BY LimiterAssumption DEF LimiterInv, LimiterTypeOK, TimesInOrder, Tick
  <2>2. \A k \in Keys : buckets'[k].start <= clock'
    BY DEF LimiterInv, LimiterTypeOK, TimesInOrder, Tick, NotRead
  <2>3. \A k \in Keys : \A i \in DOMAIN granted'[k] : granted'[k][i] <= clock'
    BY <1>2 DEF LimiterInv, LimiterTypeOK, TimesInOrder, Tick
  <2> QED
    BY <2>1, <2>2, <2>3 DEF LimiterInv, TimesInOrder, Tick
<1>4. OlderGrants'
  BY DEF LimiterInv, OlderGrants, Tick
<1>5. BurstIsBounded'
  BY DEF LimiterInv, BurstIsBounded, Tick
<1> QED
  BY <1>1, <1>3, <1>4, <1>5 DEF LimiterInv
\* A window starts: the previous one is a whole window before it, so what was
\* allowed before that one is far enough away.
LEMMA NewWindow ==
    ASSUME NEW start \in Nat, NEW used \in Nat, NEW s \in Seq(Nat),
           NEW now \in Nat, NEW time \in Nat, now <= time, time <= now + Wait,
           \A i \in 1..Len(s) : s[i] <= time, OlderThan(start, used, s), Spread(s),
           now >= start + Window, NEW t \in Seq(Nat),
           t = IF 1 <= Limit THEN Append(s, time) ELSE s
    PROVE  OlderThan(now, 1, t) /\ Spread(t)
<1>0. \A i \in 1..Len(s) : s[i] \in Nat
  OBVIOUS
<1>1. \A i \in 1..Len(s) : i <= Len(s) - Limit => s[i] <= start + Wait
  BY DEF OlderThan
<1>2. CASE 1 <= Limit
  <2>1. /\ Len(t) = Len(s) + 1
        /\ t[Len(t)] = time
        /\ \A i \in 1..Len(s) : t[i] = s[i]
    BY <1>2
  <2>2. ASSUME NEW i \in 1..Len(t), i <= Len(t) - 1 \/ i <= Len(t) - Limit
        PROVE  t[i] <= now + Wait
    <3>1. i \in 1..Len(s)
      BY <1>2, <2>1, <2>2, LimiterAssumption
    <3> QED
      BY <1>0, <2>1, <3>1, LimiterAssumption
  <2>3. ASSUME NEW i \in 1..Len(t), i <= Len(t) - 1 - Limit \/ i <= Len(t) - Limit - Limit
        PROVE  t[i] <= now + Wait - Window
    <3>1. i \in 1..Len(s) /\ i <= Len(s) - Limit
      BY <1>2, <2>1, <2>3, LimiterAssumption
    <3>2. t[i] \in Nat /\ t[i] <= start + Wait
      BY <1>0, <1>1, <2>1, <3>1
    <3> QED
      BY <3>2, LimiterAssumption
  <2>4. Spread(t)
    <3> SUFFICES ASSUME NEW i \in 1..Len(t), NEW j \in 1..Len(t), j = i + 2 * Limit
                 PROVE  t[j] - t[i] >= Window - Wait
      BY DEF Spread
    <3>1. CASE j <= Len(s)
      BY <1>2, <2>1, <3>1, LimiterAssumption DEF Spread
    <3>2. CASE j = Len(s) + 1
      <4>1. i \in 1..Len(s) /\ i <= Len(s) - Limit
        BY <1>2, <2>1, <3>2, LimiterAssumption
      <4>2. t[i] \in Nat /\ t[i] <= start + Wait /\ t[j] = time
        BY <1>0, <1>1, <2>1, <3>2, <4>1
      <4>3. \A x \in Nat : x <= start + Wait => time - x >= Window - Wait
        BY LimiterAssumption
      <4> QED
        BY <4>2, <4>3, Zenon
    <3> QED
      BY <2>1, <3>1, <3>2, SMTT(20)
  <2> QED
    BY <2>2, <2>3, <2>4 DEF OlderThan
<1>3. CASE Limit = 0
  <2>1. t = s
    BY <1>3
  <2>2. \A i \in 1..Len(s) : s[i] <= start + Wait
    BY <1>1, <1>3
  <2>3. \A i \in 1..Len(s) : s[i] <= now + Wait - Window /\ s[i] <= now + Wait
    BY <1>0, <2>2, LimiterAssumption, SMTT(20)
  <2> QED
    BY <2>1, <2>3 DEF OlderThan
<1> QED
  BY <1>2, <1>3, LimiterAssumption

\* The window goes on: an allowed request is one of at most Limit, so the one
\* 2 * Limit before it lies a whole window back.
LEMMA SameWindow ==
    ASSUME NEW start \in Nat, NEW used \in Nat, NEW s \in Seq(Nat),
           NEW time \in Nat, start <= time,
           OlderThan(start, used, s), Spread(s), NEW t \in Seq(Nat),
           t = IF used + 1 <= Limit THEN Append(s, time) ELSE s
    PROVE  OlderThan(start, used + 1, t) /\ Spread(t)
<1>0. \A i \in 1..Len(s) : s[i] \in Nat
  OBVIOUS
<1>1. CASE used + 1 <= Limit
  <2>1. /\ Len(t) = Len(s) + 1
        /\ t[Len(t)] = time
        /\ \A i \in 1..Len(s) : t[i] = s[i]
    BY <1>1
  <2>2. ASSUME NEW i \in 1..Len(t), i <= Len(t) - (used + 1) \/ i <= Len(t) - Limit
        PROVE  t[i] <= start + Wait
    <3>1. i \in 1..Len(s) /\ i <= Len(s) - used
      BY <1>1, <2>1, <2>2, LimiterAssumption
    <3> QED
      BY <2>1, <3>1 DEF OlderThan
  <2>3. ASSUME NEW i \in 1..Len(t),
               i <= Len(t) - (used + 1) - Limit \/ i <= Len(t) - Limit - Limit
        PROVE  t[i] <= start + Wait - Window
    <3>1. i \in 1..Len(s) /\ i <= Len(s) - used - Limit
      BY <1>1, <2>1, <2>3, LimiterAssumption
    <3> QED
      BY <2>1, <3>1 DEF OlderThan
  <2>4. Spread(t)
    <3> SUFFICES ASSUME NEW i \in 1..Len(t), NEW j \in 1..Len(t), j = i + 2 * Limit
                 PROVE  t[j] - t[i] >= Window - Wait
      BY DEF Spread
    <3>1. CASE j <= Len(s)
      BY <1>1, <2>1, <3>1, LimiterAssumption DEF Spread
    <3>2. CASE j = Len(s) + 1
      <4>1. i \in 1..Len(s) /\ i <= Len(s) - used - Limit
        BY <1>1, <2>1, <3>2, LimiterAssumption
      <4>2. t[i] \in Nat /\ t[i] <= start + Wait - Window /\ t[j] = time
        BY <1>0, <2>1, <3>2, <4>1 DEF OlderThan
      <4>3. \A x \in Nat : x <= start + Wait - Window => time - x >= Window - Wait
        BY LimiterAssumption
      <4> QED
        BY <4>2, <4>3, Zenon
    <3> QED
      BY <2>1, <3>1, <3>2
  <2> QED
    BY <2>2, <2>3, <2>4 DEF OlderThan
<1>2. CASE ~(used + 1 <= Limit)
  <2>1. t = s
    BY <1>2
  <2>2. OlderThan(start, used + 1, t)
    BY <1>2, <2>1, LimiterAssumption DEF OlderThan
  <2> QED
    BY <2>1, <2>2
<1> QED
  BY <1>1, <1>2

\* The first window of a key has no past.
LEMMA FirstWindow ==
    ASSUME NEW now \in Nat, NEW time \in Nat, NEW t \in Seq(Nat),
           t = IF 1 <= Limit THEN Append(<<>>, time) ELSE <<>>
    PROVE  OlderThan(now, 1, t) /\ Spread(t)
<1>1. Len(t) = 0 \/ (Len(t) = 1 /\ 1 <= Limit)
  OBVIOUS
<1> QED
  BY <1>1, LimiterAssumption DEF OlderThan, Spread

\* Counting a request keeps the invariant, whichever case of Entry it is.
LEMMA CountKeeps ==
    ASSUME LimiterInv, NEW c \in Callers, NEW k \in Keys, Count(c, k)
    PROVE  LimiterInv'
<1> DEFINE now == stamp[c]
           b == buckets[k]
           e == Entry(k, now)
           s == granted[k]
           t == granted'[k]
<1>1. now \in Nat /\ clock \in Nat /\ now <= clock /\ clock <= now + Wait
  BY DEF LimiterInv, LimiterTypeOK, TimesInOrder, Count, NotRead
<1>2. /\ e \in [start : Nat, used : Nat]
      /\ e # NoBucket
      /\ \/ /\ e = [start |-> now, used |-> 1]
            /\ b = NoBucket \/ now >= b.start + Window
         \/ /\ b # NoBucket
            /\ e = [start |-> b.start, used |-> b.used + 1]
  BY <1>1, EntryCases DEF LimiterInv
<1>3. /\ buckets'[k] = e
      /\ \A l \in Keys \ {k} : buckets'[l] = buckets[l] /\ granted'[l] = granted[l]
      /\ clock' = clock
      /\ t = IF e.used <= Limit THEN Append(s, clock) ELSE s
      /\ stamp' = [stamp EXCEPT ![c] = NotRead]
  BY DEF LimiterInv, LimiterTypeOK, Count, Allowed
<1>4. s \in Seq(Nat) /\ t \in Seq(Nat)
  BY <1>1, <1>3 DEF LimiterInv, LimiterTypeOK
<1>5. LimiterTypeOK'
  <2>1. buckets' \in [Keys -> [start : Nat \cup {NotRead}, used : Nat]]
    <3>1. e \in [start : Nat \cup {NotRead}, used : Nat]
      BY <1>2
    <3> QED
      BY <3>1 DEF LimiterInv, LimiterTypeOK, Count
  <2>2. granted' \in [Keys -> Seq(Nat)]
    BY <1>3, <1>4 DEF LimiterInv, LimiterTypeOK, Count
  <2>3. stamp' \in [Callers -> Nat \cup {NotRead}] /\ clock' \in Nat
    BY <1>1, <1>3 DEF LimiterInv, LimiterTypeOK
  <2> QED
    BY <2>1, <2>2, <2>3 DEF LimiterTypeOK
<1>6. TimesInOrder'
  <2>1. \A d \in Callers : stamp'[d] # NotRead =>
            stamp'[d] <= clock' /\ clock' <= stamp'[d] + Wait
    BY <1>3 DEF LimiterInv, LimiterTypeOK, TimesInOrder
  <2>2. e.start <= clock /\ e.start # NotRead
    BY <1>1, <1>2 DEF LimiterInv, TimesInOrder, NotRead
  <2>3. \A i \in DOMAIN s : s[i] \in Nat /\ s[i] <= clock
    BY <1>4 DEF LimiterInv, TimesInOrder
  <2>4. \A i \in DOMAIN t : t[i] <= clock
    BY <1>1, <1>3, <1>4, <2>3
  <2> QED
    BY <1>2, <1>3, <2>1, <2>2, <2>4, Zenon DEF LimiterInv, TimesInOrder
<1>7. Spread(s) /\ (b # NoBucket => OlderThan(b.start, b.used, s))
      /\ \A i \in 1..Len(s) : s[i] <= clock
  BY <1>4, SMTT(20) DEF LimiterInv, BurstIsBounded, OlderGrants, Spread, TimesInOrder
<1>8. OlderThan(e.start, e.used, t) /\ Spread(t)
  <2>0. b # NoBucket => b.start \in Nat /\ b.used \in Nat /\ b.start <= clock
    BY DEF LimiterInv, LimiterTypeOK, TimesInOrder
  <2>1. CASE b = NoBucket
    <3>1. e.start = now /\ e.used = 1 /\ s = <<>>
      BY <1>2, <2>1 DEF LimiterInv, TimesInOrder
    <3> QED
      BY <1>1, <1>3, <1>4, <3>1, FirstWindow, Zenon
  <2>2. CASE b # NoBucket /\ e = [start |-> now, used |-> 1] /\ now >= b.start + Window
    <3>1. e.start = now /\ e.used = 1
      BY <2>2
    <3>2. b.start \in Nat /\ b.used \in Nat /\ OlderThan(b.start, b.used, s)
          /\ t = IF 1 <= Limit THEN Append(s, clock) ELSE s
      BY <1>3, <1>7, <2>0, <2>2, <3>1, Zenon
    <3> HIDE DEF now, b, e, s, t
    <3>3. OlderThan(now, 1, t) /\ Spread(t)
      BY <1>1, <1>4, <1>7, <2>2, <3>2, NewWindow, Zenon
    <3> QED
      BY <3>1, <3>3
  <2>3. CASE b # NoBucket /\ e = [start |-> b.start, used |-> b.used + 1]
    <3>1. e.start = b.start /\ e.used = b.used + 1
      BY <2>3
    <3>2. b.start \in Nat /\ b.used \in Nat /\ OlderThan(b.start, b.used, s)
          /\ b.start <= clock
          /\ t = IF b.used + 1 <= Limit THEN Append(s, clock) ELSE s
      BY <1>3, <1>7, <2>0, <2>3, <3>1, Zenon
    <3> HIDE DEF now, b, e, s, t
    <3>3. OlderThan(b.start, b.used + 1, t) /\ Spread(t)
      BY <1>1, <1>4, <1>7, <3>2, SameWindow, Zenon
    <3> QED
      BY <3>1, <3>3
  <2> QED
    BY <1>2, <2>1, <2>2, <2>3
<1>9. OlderGrants'
  BY <1>3, <1>8 DEF LimiterInv, OlderGrants
<1>10. BurstIsBounded'
  <2> SUFFICES ASSUME NEW l \in Keys
               PROVE  \A i, j \in DOMAIN granted'[l] : j = i + 2 * Limit =>
                          granted'[l][j] - granted'[l][i] >= Window - Wait
    BY DEF BurstIsBounded
  <2>1. CASE l = k
    <3>1. DOMAIN t = 1..Len(t)
      BY <1>4
    <3> QED
      BY <1>8, <2>1, <3>1 DEF Spread
  <2>2. CASE l # k
    BY <1>3, <2>2 DEF LimiterInv, BurstIsBounded
  <2> QED
    BY <2>1, <2>2
<1> QED
  BY <1>5, <1>6, <1>9, <1>10 DEF LimiterInv

\* A reading that is not counted against any of the keys is given up.
LEMMA GiveUpKeeps ==
    ASSUME LimiterInv, NEW c \in Callers, stamp' = [stamp EXCEPT ![c] = NotRead],
           UNCHANGED <<clock, buckets, granted>>
    PROVE  LimiterInv'
<1>1. \A d \in Callers : stamp'[d] = IF d = c THEN NotRead ELSE stamp[d]
  BY DEF LimiterInv, LimiterTypeOK
<1>2. LimiterTypeOK' /\ TimesInOrder'
  BY <1>1 DEF LimiterInv, LimiterTypeOK, TimesInOrder
<1> QED
  BY <1>2 DEF LimiterInv, OlderGrants, BurstIsBounded

\* No window and no reading at the start.
LEMMA LimiterStarts == LimiterInit => LimiterInv
<1> SUFFICES ASSUME LimiterInit PROVE LimiterInv
  OBVIOUS
<1>1. LimiterTypeOK
  BY DEF LimiterInit, LimiterTypeOK, NoBucket
<1>2. TimesInOrder /\ OlderGrants /\ BurstIsBounded
  BY DEF LimiterInit, TimesInOrder, OlderGrants, BurstIsBounded, NoBucket, NotRead
<1> QED
  BY <1>1, <1>2 DEF LimiterInv

\* What leaves the limiter alone keeps the invariant.
LEMMA LimiterStays == LimiterInv /\ UNCHANGED limiter => LimiterInv'
  BY DEF limiter, LimiterInv, LimiterTypeOK, TimesInOrder, OlderGrants, BurstIsBounded

\* The invariant that carries the burst bound holds in every reachable state,
\* for every limit, window, lock wait and number of requests in check().
THEOREM LimiterInvariant == LimiterSpec => []LimiterInv
<1>1. LimiterInv /\ [LimiterNext]_limiter => LimiterInv'
  BY ReadClockKeeps, CountKeeps, TickKeeps, LimiterStays DEF LimiterNext
<1> QED
  BY <1>1, LimiterStarts, PTL DEF LimiterSpec

\* RateLimiter::check never allows a key more than two windows' worth of
\* requests in less than a window, whatever the order in which requests that
\* have read the clock get the lock.
THEOREM LimiterBoundsBursts == LimiterSpec => []BurstIsBounded
<1>1. LimiterInv => BurstIsBounded
  BY DEF LimiterInv
<1> QED
  BY <1>1, LimiterInvariant, PTL

-----------------------------------------------------------------------------
(* The request tasks.                                                        *)

\* Where a task has no response yet, and where it is working on one.
Unanswered == {"idle", "body", "limiter", "handler", "read"}
Working == {"body", "limiter", "handler", "read"}

Fields == {"at", "q", "pos", "view", "target", "resp", "via", "cut"}

TaskOK(s) ==
    /\ DOMAIN task[s] = Fields
    /\ task[s].at \in Unanswered \cup {"sending", "answered", "broken"}
    /\ task[s].at \in Unanswered => task[s].via = None

TasksOK == DOMAIN task = Streams /\ \A s \in Streams : TaskOK(s)

-----------------------------------------------------------------------------
(* What a request task may do, without the middleware and the handlers.      *)

\* The task keeps what it was asked.
Same(s, r) == DOMAIN r = Fields /\ r.q = task[s].q

\* A request is accepted.
Accepted(s, r) ==
    /\ conn[ConnOf(s)] = "open" /\ task[s].at = "idle"
    /\ DOMAIN r = Fields /\ r.at = "body" /\ r.via = None /\ r.cut = None
    /\ UNCHANGED telemetry

\* dispatch goes on.
Moved(s, r) ==
    /\ Same(s, r) /\ r.cut = task[s].cut
    /\ task[s].at \in Working /\ r.at \in Working /\ r.via = None
    /\ UNCHANGED telemetry

\* dispatch ends.
Finalized(s, r) ==
    /\ Same(s, r) /\ r.cut = task[s].cut
    /\ task[s].at \in Working /\ r.at = "sending"
    /\ r.via \in {"ingress", "router", "handler"}
    /\ counters' = Counted(SeriesOf(r))
    /\ observed' = observed + 1

\* The body is refused, without going through dispatch.
Refused(s, r) ==
    /\ Same(s, r) /\ r.cut = task[s].cut
    /\ task[s].at = "body" /\ r.at = "sending" /\ r.via = "body"
    /\ UNCHANGED telemetry

\* The request ends.
Closed(s, r) ==
    /\ Same(s, r)
    /\ r.via = task[s].via /\ r.resp = task[s].resp
    /\ task[s].at \in {"body", "sending"} /\ r.at \in {"answered", "broken"}
    /\ r.cut = task[s].cut \/ r.cut = "client" \/ ~Live(ConnOf(s))
    /\ UNCHANGED telemetry

StreamNext(s) == AcceptRequest(s) \/ Task(s) \/ Proxy(s) \/ StreamFails(s)

\* The record Finalize leaves is the one dispatch ends with.
LEMMA FinalizeKind ==
    ASSUME NEW s \in Streams, TasksOK, NEW t, DOMAIN t = Fields, t.q = task[s].q,
           t.cut = task[s].cut, task[s].at \in Working,
           NEW resp, NEW via \in {"ingress", "router", "handler"}, Finalize(s, t, resp, via)
    PROVE  \E r : task' = [task EXCEPT ![s] = r] /\ Finalized(s, r)
<1> DEFINE r == [t EXCEPT !.at = "sending", !.pos = 0, !.target = <<>>, !.resp = resp,
                          !.via = via]
<1>1. /\ DOMAIN r = Fields /\ r.at = "sending" /\ r.via = via
      /\ r.q = t.q /\ r.cut = t.cut
  BY DEF Fields
<1>2. /\ task' = [task EXCEPT ![s] = r]
      /\ counters' = Counted(SeriesOf(r)) /\ observed' = observed + 1
  BY DEF Finalize
<1> QED
  BY <1>1, <1>2, Zenon DEF Finalized, Same

\* A step along the middleware ends dispatch or moves on.
LEMMA IngressKind ==
    ASSUME NEW s \in Streams, TasksOK, NEW i, NEW view,
           task[s].at \in Working, RunIngress(s, i, view, task[s])
    PROVE  \E r : task' = [task EXCEPT ![s] = r] /\ (Finalized(s, r) \/ Moved(s, r))
<1> DEFINE t == task[s]
           g == Ingress(Pipe(t), i, view)
           there == [t EXCEPT !.pos = g.at, !.view = g.view]
<1>1. /\ DOMAIN there = Fields /\ there.q = t.q /\ there.cut = t.cut
      /\ there.via = None /\ there.at = t.at
  BY DEF TasksOK, TaskOK, Fields, Working, Unanswered
<1>2. CASE \E a \in g.answer : Finalize(s, there, a, "ingress")
  BY <1>1, <1>2, FinalizeKind, Zenon
<1>3. CASE /\ task' = [task EXCEPT ![s] = [there EXCEPT !.at = "limiter"]]
           /\ UNCHANGED telemetry
  <2> DEFINE r == [there EXCEPT !.at = "limiter"]
  <2>1. DOMAIN r = Fields /\ r.q = t.q /\ r.cut = t.cut /\ r.via = None /\ r.at = "limiter"
    BY <1>1 DEF Fields
  <2>2. Moved(s, r)
    BY <1>3, <2>1 DEF Moved, Same, Working
  <2> QED
    BY <1>3, <2>2, Zenon
<1>4. CASE /\ task' = [task EXCEPT ![s] = [there EXCEPT !.at = "handler", !.pos = 1]]
           /\ UNCHANGED telemetry
  <2> DEFINE r == [there EXCEPT !.at = "handler", !.pos = 1]
  <2>1. DOMAIN r = Fields /\ r.q = t.q /\ r.cut = t.cut /\ r.via = None /\ r.at = "handler"
    BY <1>1 DEF Fields
  <2>2. Moved(s, r)
    BY <1>4, <2>1 DEF Moved, Same, Working
  <2> QED
    BY <1>4, <2>2, Zenon
<1> QED
  BY <1>2, <1>3, <1>4 DEF RunIngress, telemetry

\* Answer, the end of every handler, ends dispatch.
LEMMA AnswerKind ==
    ASSUME NEW s \in Streams, TasksOK, NEW resp, task[s].at \in Working, Answer(s, resp)
    PROVE  \E r : task' = [task EXCEPT ![s] = r] /\ Finalized(s, r)
<1>1. DOMAIN task[s] = Fields
  BY DEF TasksOK, TaskOK
<1>2. PICK e : Finalize(s, task[s], e, "handler")
  BY DEF Answer
<1> QED
  BY <1>1, <1>2, FinalizeKind

\* The next fallback of files() is a move, the end of the list an answer.
LEMMA NextCandidateKind ==
    ASSUME NEW s \in Streams, TasksOK, task[s].at \in Working, NextCandidate(s)
    PROVE  \E r : task' = [task EXCEPT ![s] = r] /\ (Finalized(s, r) \/ Moved(s, r))
<1>1. CASE Answer(s, Reply(404))
  BY <1>1, AnswerKind
<1>2. CASE /\ task' = [task EXCEPT ![s] = [@ EXCEPT !.at = "handler", !.pos = task[s].pos + 1]]
           /\ UNCHANGED telemetry
  <2> DEFINE r == [task[s] EXCEPT !.at = "handler", !.pos = task[s].pos + 1]
  <2>1. /\ DOMAIN task[s] = Fields /\ task[s].via = None
        /\ DOMAIN task = Streams
    BY DEF TasksOK, TaskOK, Working, Unanswered
  <2>2. /\ DOMAIN r = Fields /\ r.q = task[s].q /\ r.cut = task[s].cut /\ r.via = None
        /\ r.at = "handler"
    BY <2>1 DEF Fields
  <2>3. Moved(s, r)
    BY <1>2, <2>2 DEF Moved, Same, Working
  <2>4. task' = [task EXCEPT ![s] = r]
    BY <1>2, <2>1
  <2> QED
    BY <2>3, <2>4, Zenon
<1> QED
  BY <1>1, <1>2 DEF NextCandidate

\* Everything a request task does is one of these kinds of step.
StreamKind(s, r) ==
    Accepted(s, r) \/ Moved(s, r) \/ Finalized(s, r) \/ Refused(s, r) \/ Closed(s, r)

\* dispatch(), from the body to the limiter or the handler (Http3Listener).
LEMMA DispatchKind ==
    ASSUME NEW s \in Streams, TasksOK, Dispatch(s) \/ Limit429(s) \/ LimitPassed(s)
    PROVE  \E r : task' = [task EXCEPT ![s] = r] /\ StreamKind(s, r)
<1>1. DOMAIN task[s] = Fields
  BY DEF TasksOK, TaskOK
<1>2. CASE Dispatch(s)
  <2>1. task[s].at \in Working
    BY <1>2 DEF Dispatch, Working
  <2>2. CASE Finalize(s, task[s], Reply(404), "router")
    BY <1>1, <2>1, <2>2, FinalizeKind DEF StreamKind
  <2>3. CASE RunIngress(s, 1, ViewOf(s), task[s])
    BY <2>1, <2>3, IngressKind, Zenon DEF StreamKind
  <2> QED
    BY <1>2, <2>2, <2>3, Zenon DEF Dispatch
<1>3. CASE Limit429(s)
  <2>1. task[s].at \in Working /\ \E e : Finalize(s, task[s], e, "ingress")
    BY <1>3, Zenon DEF Limit429, Working
  <2> QED
    BY <1>1, <2>1, FinalizeKind DEF StreamKind
<1>4. CASE LimitPassed(s)
  <2> DEFINE t == task[s]
  <2>1. PICK view : /\ t.at = "limiter"
                    /\ LET there == [t EXCEPT !.pos = 1, !.view = view] IN
                       \/ /\ task' = [task EXCEPT ![s] = [there EXCEPT !.at = "handler"]]
                          /\ UNCHANGED telemetry
                       \/ \E e : Finalize(s, there, e, "ingress")
    BY <1>4, Zenon DEF LimitPassed
  <2> DEFINE there == [t EXCEPT !.pos = 1, !.view = view]
             r == [there EXCEPT !.at = "handler"]
  <2>2. DOMAIN there = Fields /\ there.q = t.q /\ there.cut = t.cut /\ there.via = None
    BY <1>1, <2>1 DEF TasksOK, TaskOK, Fields, Unanswered
  <2>3. CASE \E e : Finalize(s, there, e, "ingress")
    BY <2>1, <2>2, <2>3, FinalizeKind, Zenon DEF StreamKind, Working
  <2>4. CASE task' = [task EXCEPT ![s] = r] /\ UNCHANGED telemetry
    <3>1. DOMAIN r = Fields /\ r.q = t.q /\ r.cut = t.cut /\ r.via = None /\ r.at = "handler"
      BY <2>2 DEF Fields
    <3>2. Moved(s, r)
      BY <2>1, <2>4, <3>1 DEF Moved, Same, Working
    <3> QED
      BY <2>4, <3>2, Zenon DEF StreamKind
  <2> QED
    BY <2>1, <2>3, <2>4
<1> QED
  BY <1>2, <1>3, <1>4

\* The handlers, with the reads of files() and the answer of an upstream.
LEMMA HandlerKind ==
    ASSUME NEW s \in Streams, TasksOK, Execute(s) \/ Proxy(s) \/ Metadata(s) \/ ReadFile(s)
    PROVE  \E r : task' = [task EXCEPT ![s] = r] /\ StreamKind(s, r)
<1>1. task[s].at \in Working
  BY Zenon DEF Execute, Proxy, Metadata, ReadFile, Working
<1>2. CASE (\E e : Answer(s, e)) \/ NextCandidate(s)
  BY <1>1, <1>2, AnswerKind, NextCandidateKind DEF StreamKind
<1>3. CASE /\ \E p : task' = [task EXCEPT ![s] = [@ EXCEPT !.at = "read", !.target = p]]
           /\ UNCHANGED telemetry
  <2>1. PICK p : task' = [task EXCEPT ![s] = [@ EXCEPT !.at = "read", !.target = p]]
    BY <1>3, Zenon
  <2> DEFINE r == [task[s] EXCEPT !.at = "read", !.target = p]
  <2>2. DOMAIN task[s] = Fields /\ task[s].via = None /\ DOMAIN task = Streams
    BY <1>1 DEF TasksOK, TaskOK, Working, Unanswered
  <2>3. /\ DOMAIN r = Fields /\ r.q = task[s].q /\ r.cut = task[s].cut /\ r.via = None
        /\ r.at = "read"
    BY <2>2 DEF Fields
  <2>4. Moved(s, r)
    BY <1>1, <1>3, <2>3 DEF Moved, Same, Working
  <2>5. task' = [task EXCEPT ![s] = r]
    BY <2>1, <2>2
  <2> QED
    BY <2>4, <2>5, Zenon DEF StreamKind
<1>4. CASE Execute(s)
  BY <1>2, <1>4, Zenon DEF Execute
<1>5. CASE Proxy(s)
  <2>1. PICK status : Answer(s, Reply(status))
    BY <1>5 DEF Proxy
  <2> QED
    BY <1>2, <2>1, Zenon
<1>6. CASE Metadata(s)
  <2>1. ASSUME ~NextCandidate(s)
        PROVE  /\ \E p : task' = [task EXCEPT ![s] = [@ EXCEPT !.at = "read", !.target = p]]
               /\ UNCHANGED telemetry
    BY <1>6, <2>1, Zenon DEF Metadata
  <2> QED
    BY <1>2, <1>3, <2>1, Zenon
<1>7. CASE ReadFile(s)
  BY <1>2, <1>7, Zenon DEF ReadFile
<1> QED
  BY <1>4, <1>5, <1>6, <1>7

\* Accepting a request, refusing its body, sending its response, losing it.
LEMMA EndKind ==
    ASSUME NEW s \in Streams, TasksOK,
           AcceptRequest(s) \/ BodyTooLarge(s) \/ Send(s) \/ StreamFails(s)
    PROVE  \E r : task' = [task EXCEPT ![s] = r] /\ StreamKind(s, r)
<1>1. DOMAIN task[s] = Fields /\ DOMAIN task = Streams
  BY DEF TasksOK, TaskOK
<1>2. CASE AcceptRequest(s)
  <2> DEFINE r == [Idle EXCEPT !.at = "body", !.q = plan[s]]
  <2>1. DOMAIN r = Fields /\ r.at = "body" /\ r.via = None /\ r.cut = None
    BY DEF Idle, Fields
  <2>2. Accepted(s, r) /\ task' = [task EXCEPT ![s] = r]
    BY <1>2, <2>1 DEF Accepted, AcceptRequest
  <2> HIDE DEF r
  <2> QED
    BY <2>2, Zenon DEF StreamKind
<1>3. CASE BodyTooLarge(s)
  <2> DEFINE r == [task[s] EXCEPT !.at = "sending", !.resp = Reply(413), !.via = "body"]
  <2>1. /\ DOMAIN r = Fields /\ r.q = task[s].q /\ r.cut = task[s].cut
        /\ r.at = "sending" /\ r.via = "body"
    BY <1>1 DEF Fields
  <2>2. task' = [task EXCEPT ![s] = r] /\ task[s].at = "body" /\ UNCHANGED telemetry
    BY <1>1, <1>3 DEF BodyTooLarge
  <2>3. Refused(s, r)
    BY <2>1, <2>2 DEF Refused, Same
  <2> HIDE DEF r
  <2> QED
    BY <2>2, <2>3, Zenon DEF StreamKind
<1>4. CASE Send(s)
  <2> DEFINE r == [task[s] EXCEPT !.at = "answered"]
  <2>1. /\ DOMAIN r = Fields /\ r.q = task[s].q /\ r.cut = task[s].cut
        /\ r.at = "answered" /\ r.via = task[s].via /\ r.resp = task[s].resp
    BY <1>1 DEF Fields
  <2>2. task' = [task EXCEPT ![s] = r] /\ task[s].at = "sending" /\ UNCHANGED telemetry
    BY <1>1, <1>4 DEF Send
  <2>3. Closed(s, r)
    BY <2>1, <2>2 DEF Closed, Same
  <2> HIDE DEF r
  <2> QED
    BY <2>2, <2>3, Zenon DEF StreamKind
<1>5. CASE StreamFails(s)
  <2> DEFINE cut == IF Live(ConnOf(s)) THEN "client" ELSE "connection"
             r == [task[s] EXCEPT !.at = "broken", !.cut = cut]
  <2>1. /\ DOMAIN r = Fields /\ r.q = task[s].q /\ r.cut = cut
        /\ r.at = "broken" /\ r.via = task[s].via /\ r.resp = task[s].resp
    BY <1>1 DEF Fields
  <2>2. /\ task' = [task EXCEPT ![s] = r] /\ task[s].at \in {"body", "sending"}
        /\ UNCHANGED telemetry
    BY <1>1, <1>5 DEF StreamFails
  <2>3. Closed(s, r)
    BY <2>1, <2>2 DEF Closed, Same
  <2> HIDE DEF r
  <2> QED
    BY <2>2, <2>3, Zenon DEF StreamKind
<1> QED
  BY <1>2, <1>3, <1>4, <1>5

\* So is every step of a request.
LEMMA StreamKinds ==
    ASSUME NEW s \in Streams, TasksOK, StreamNext(s)
    PROVE  \E r : task' = [task EXCEPT ![s] = r] /\ StreamKind(s, r)
  BY DispatchKind, HandlerKind, EndKind, Zenon DEF StreamNext, Task

\* The tasks keep their shape.
LEMMA KindKeepsTasks ==
    ASSUME NEW s \in Streams, TasksOK, NEW r, task' = [task EXCEPT ![s] = r], StreamKind(s, r)
    PROVE  TasksOK' /\ task'[s] = r /\ \A u \in Streams : u # s => task'[u] = task[u]
<1>1. /\ DOMAIN task' = Streams /\ task'[s] = r
      /\ \A u \in Streams : u # s => task'[u] = task[u]
  BY DEF TasksOK
<1>2. /\ DOMAIN r = Fields /\ r.at \in Unanswered \cup {"sending", "answered", "broken"}
      /\ r.at \in Unanswered => r.via = None
  BY DEF StreamKind, Accepted, Moved, Finalized, Refused, Closed, Same, Working, Unanswered
<1> QED
  BY <1>1, <1>2 DEF TasksOK, TaskOK

-----------------------------------------------------------------------------
(* The drain.                                                                *)

Phases == {"none", "spawned", "handshake", "open", "goaway", "finished", "lost", "forced"}

\* A connection's requests begin after its handshake, and it finishes only when
\* they have ended; a request that lost its connection lost it for good.
StreamDrains(s) ==
    LET c == ConnOf(s) IN
    /\ conn[c] \in {"none", "spawned", "handshake"} => task[s].at = "idle"
    /\ conn[c] = "finished" => task[s].at \in Ended
    /\ c \in late => task[s].at = "idle" /\ conn[c] # "open"
    /\ task[s].cut = "connection" => conn[c] \in {"lost", "forced"}

DrainInv == /\ conn \in [Conns -> Phases]
            /\ late \subseteq Conns
            /\ \A c \in late : conn[c] \notin {"none", "spawned", "handshake", "open"}
            /\ \A s \in Streams : StreamDrains(s)

\* A request's own steps keep it: only an open connection accepts (drive_connection).
LEMMA StreamKeepsDrain ==
    ASSUME NEW s \in Streams, TasksOK, DrainInv, StreamNext(s), UNCHANGED server
    PROVE  DrainInv'
<1>1. PICK r : task' = [task EXCEPT ![s] = r] /\ StreamKind(s, r)
  BY StreamKinds
<1>2. /\ conn' = conn /\ late' = late /\ task'[s] = r
      /\ \A u \in Streams : u # s => task'[u] = task[u]
  BY <1>1, KindKeepsTasks, Zenon DEF server
<1>3. /\ conn[ConnOf(s)] \in Phases /\ StreamDrains(s)
  BY Http3Assumption DEF DrainInv
<1>4. StreamDrains(s)'
  <2>1. CASE Accepted(s, r)
    BY <1>2, <1>3, <2>1 DEF StreamDrains, Accepted, None, Ended
  <2>2. CASE Moved(s, r) \/ Finalized(s, r) \/ Refused(s, r)
    BY <1>2, <1>3, <2>2, Zenon DEF StreamDrains, Moved, Finalized, Refused, Working, Ended
  <2>3. CASE Closed(s, r)
    BY <1>2, <1>3, <2>3, Zenon DEF StreamDrains, Closed, Ended, Live, Phases
  <2> QED
    BY <1>1, <2>1, <2>2, <2>3 DEF StreamKind
<1>5. \A u \in Streams : u # s => StreamDrains(u)'
  BY <1>2 DEF DrainInv, StreamDrains
<1> QED
  BY <1>2, <1>4, <1>5, Zenon DEF DrainInv

\* One connection moves on; the requests stay where they are.
LEMMA OneMoves ==
    ASSUME DrainInv, NEW c \in Conns, NEW phase \in Phases, UNCHANGED task,
           conn' = [conn EXCEPT ![c] = phase],
           late' = late \/ (late' = late \cup {c} /\ phase = "goaway"),
           phase \in {"spawned", "handshake"} => conn[c] \in {"none", "spawned"},
           phase = "open" => conn[c] = "handshake",
           phase = "finished" => InFlight(c) = {},
           phase = "goaway" => conn[c] \in {"open", "handshake"},
           phase = "goaway" /\ conn[c] = "open" => late' = late,
           phase # "none", conn[c] \notin {"lost", "forced"}
    PROVE  DrainInv'
<1>1. /\ conn' \in [Conns -> Phases] /\ conn'[c] = phase
      /\ \A d \in Conns : d # c => conn'[d] = conn[d]
  BY DEF DrainInv
<1>2. /\ late' \subseteq Conns
      /\ \A d \in late' : conn'[d] \notin {"none", "spawned", "handshake", "open"}
  BY <1>1 DEF DrainInv, Phases
<1>3. ASSUME NEW s \in Streams PROVE StreamDrains(s)'
  <2>1. StreamDrains(s) /\ ConnOf(s) \in Conns
    BY Http3Assumption DEF DrainInv
  <2>2. CASE ConnOf(s) # c
    <3>1. conn'[ConnOf(s)] = conn[ConnOf(s)] /\ (ConnOf(s) \in late' <=> ConnOf(s) \in late)
      BY <1>1, <2>1, <2>2
    <3> QED
      BY <2>1, <3>1, Zenon DEF StreamDrains
  <2>3. CASE ConnOf(s) = c
    <3>1. phase = "finished" => task[s].at \in Ended
      BY <2>3 DEF InFlight
    <3> QED
      BY <1>1, <1>2, <2>1, <2>3, <3>1, Zenon DEF StreamDrains, DrainInv
  <2> QED
    BY <2>2, <2>3
<1> QED
  BY <1>1, <1>2, <1>3 DEF DrainInv

\* serve() and the connection tasks keep it.
LEMMA ServerKeepsDrain ==
    ASSUME DrainInv, Serve \/ Connection, UNCHANGED task
    PROVE  DrainInv'
<1>1. CASE WaitIdle \/ Shutdown
  BY <1>1 DEF WaitIdle, Shutdown, DrainInv, StreamDrains
<1>2. CASE DrainTimeout
  <2>1. /\ conn' = [c \in Conns |-> IF Live(c) THEN "forced" ELSE conn[c]] /\ late' = late
    BY <1>2 DEF DrainTimeout
  <2>2. conn' \in [Conns -> Phases]
    BY <2>1 DEF DrainInv, Phases
  <2>3. \A c \in Conns : conn'[c] = conn[c] \/ (conn'[c] = "forced" /\ Live(c))
    BY <2>1
  <2>4. \A c \in late : conn'[c] \notin {"none", "spawned", "handshake", "open"}
    BY <2>3 DEF DrainInv
  <2>5. ASSUME NEW s \in Streams PROVE StreamDrains(s)'
    BY <2>1, <2>3, Http3Assumption DEF DrainInv, StreamDrains
  <2> QED
    BY <2>1, <2>2, <2>4, <2>5 DEF DrainInv
<1>3. ASSUME NEW c \in Conns, Incoming(c) PROVE DrainInv'
  BY <1>3, OneMoves, Zenon DEF Incoming, Phases
<1>4. ASSUME NEW c \in Conns, StartHandshake(c) PROVE DrainInv'
  <2>1. CASE conn' = [conn EXCEPT ![c] = "forced"]
    BY <1>4, <2>1, OneMoves, Zenon DEF StartHandshake, Phases
  <2>2. CASE conn' = [conn EXCEPT ![c] = "handshake"]
    BY <1>4, <2>2, OneMoves, Zenon DEF StartHandshake, Phases
  <2> QED
    BY <1>4, <2>1, <2>2, Zenon DEF StartHandshake
<1>5. ASSUME NEW c \in Conns, Landed(c) PROVE DrainInv'
  <2>1. CASE conn' = [conn EXCEPT ![c] = "open"] /\ late' = late
    BY <1>5, <2>1, OneMoves, Zenon DEF Landed, Phases
  <2>2. CASE conn' = [conn EXCEPT ![c] = "goaway"] /\ late' = late \cup {c}
    BY <1>5, <2>2, OneMoves, Zenon DEF Landed, Phases
  <2> QED
    BY <1>5, <2>1, <2>2, Zenon DEF Landed
<1>6. ASSUME NEW c \in Conns, NoticeDrain(c) PROVE DrainInv'
  BY <1>6, OneMoves, Zenon DEF NoticeDrain, Phases
<1>7. ASSUME NEW c \in Conns, LastRequestEnded(c) PROVE DrainInv'
  BY <1>7, OneMoves, Zenon DEF LastRequestEnded, Phases
<1>8. ASSUME NEW c \in Conns, ConnectionLost(c) PROVE DrainInv'
  BY <1>8, OneMoves, Zenon DEF ConnectionLost, Live, Phases
<1> QED
  BY <1>1, <1>2, <1>3, <1>4, <1>5, <1>6, <1>7, <1>8, Zenon DEF Serve, Connection

-----------------------------------------------------------------------------
(* The telemetry.                                                            *)

\* The requests of one series.
InSeries(k) == {s \in Recorded : SeriesOf(task[s]) = k}

CountsInv == CountsAreExact /\ IsFiniteSet(DOMAIN counters)

\* What dispatch does not end leaves every recorded request as it is.
LEMMA OthersKeepCounts ==
    ASSUME CountsInv, UNCHANGED telemetry, Recorded' = Recorded,
           \A s \in Recorded : SeriesOf(task'[s]) = SeriesOf(task[s])
    PROVE  CountsInv'
<1>1. counters' = counters /\ observed' = observed
  BY DEF telemetry
<1>2. \A k : {s \in Recorded' : SeriesOf(task'[s]) = k} = {s \in Recorded : SeriesOf(task[s]) = k}
  BY Zenon
<1> QED
  BY <1>1, <1>2, Zenon DEF CountsInv, CountsAreExact

\* The end of dispatch adds one request to its series (CounterVec::add).
LEMMA FinalizedKeepsCounts ==
    ASSUME NEW s \in Streams, TasksOK, CountsInv, NEW r, task' = [task EXCEPT ![s] = r],
           Finalized(s, r)
    PROVE  CountsInv'
<1> DEFINE key == SeriesOf(r)
<1>1. /\ task'[s] = r /\ \A u \in Streams : u # s => task'[u] = task[u]
  BY DEF TasksOK
<1>2. s \notin Recorded /\ Recorded' = Recorded \cup {s}
  <2>1. task[s].via = None /\ r.via \notin {None, "body"}
    BY DEF TasksOK, TaskOK, Finalized, Working, Unanswered, None
  <2> QED
    BY <1>1, <2>1 DEF Recorded
<1>3. IsFiniteSet(Recorded) /\ \A k : IsFiniteSet(InSeries(k))
  <2>1. Recorded \subseteq Streams /\ \A k : InSeries(k) \subseteq Streams
    BY DEF Recorded, InSeries
  <2> QED
    BY <2>1, Http3Assumption, FS_Subset, Zenon
<1>4. \A k : InSeries(k)' = IF k = key THEN InSeries(k) \cup {s} ELSE InSeries(k)
  <2>1. SeriesOf(task[s])' = key /\ \A u \in Recorded : SeriesOf(task'[u]) = SeriesOf(task[u])
    BY <1>1, <1>2 DEF Recorded, SeriesOf
  <2> QED
    BY <1>1, <1>2, <2>1 DEF InSeries, Recorded, SeriesOf
<1>5. /\ Cardinality(InSeries(key) \cup {s}) = Cardinality(InSeries(key)) + 1
      /\ Cardinality(Recorded \cup {s}) = Cardinality(Recorded) + 1
  <2>1. s \notin InSeries(key) /\ IsFiniteSet(InSeries(key)) /\ IsFiniteSet(Recorded)
    BY <1>2, <1>3, Zenon DEF InSeries
  <2> QED
    BY <1>2, <2>1, FS_AddElement, Zenon
<1>6. observed' = Cardinality(Recorded')
  BY <1>2, <1>5 DEF Finalized, CountsInv, CountsAreExact
<1>7. \A k \in DOMAIN counters : counters[k] = Cardinality(InSeries(k))
  BY DEF CountsInv, CountsAreExact, InSeries
<1>8. CASE key \in DOMAIN counters
  <2>1. counters' = [counters EXCEPT ![key] = @ + 1]
    BY <1>8 DEF Finalized, Counted
  <2>2. \A k \in DOMAIN counters' : counters'[k] = Cardinality(InSeries(k)')
    BY <1>4, <1>5, <1>7, <2>1
  <2> QED
    BY <1>1, <1>2, <1>6, <1>8, <2>1, <2>2, Zenon DEF CountsInv, CountsAreExact, InSeries, Recorded, SeriesOf
<1>9. CASE key \notin DOMAIN counters /\ Cardinality(DOMAIN counters) < Cap
  <2>1. counters' = [k \in DOMAIN counters \cup {key} |-> IF k = key THEN 1 ELSE counters[k]]
    BY <1>9 DEF Finalized, Counted
  <2>2. /\ DOMAIN counters' = DOMAIN counters \cup {key} /\ counters'[key] = 1
        /\ \A k \in DOMAIN counters : counters'[k] = counters[k]
    BY <1>9, <2>1
  <2>3. InSeries(key) = {}
    BY <1>9 DEF CountsInv, CountsAreExact, InSeries
  <2>4. Cardinality({}) = 0
    BY FS_EmptySet
  <2>5. \A k \in DOMAIN counters' : counters'[k] = Cardinality(InSeries(k)')
    <3>1. counters'[key] = Cardinality(InSeries(key)')
      BY <1>4, <1>5, <2>2, <2>3, <2>4
    <3>2. ASSUME NEW k \in DOMAIN counters, k # key
          PROVE  counters'[k] = Cardinality(InSeries(k)')
      BY <1>4, <1>7, <2>2, <3>2
    <3> QED
      BY <1>9, <2>2, <3>1, <3>2
  <2>6. IsFiniteSet(DOMAIN counters')
    BY <2>2, FS_AddElement DEF CountsInv
  <2>7. \A u \in Recorded' : SeriesOf(task'[u]) \in DOMAIN counters'
    BY <1>1, <1>2, <1>9, <2>2, Zenon DEF CountsInv, CountsAreExact, Recorded, SeriesOf
  <2> QED
    BY <1>6, <2>5, <2>6, <2>7 DEF CountsInv, CountsAreExact, InSeries
<1>10. CASE key \notin DOMAIN counters /\ ~(Cardinality(DOMAIN counters) < Cap)
  <2>1. counters' = counters
    BY <1>10 DEF Finalized, Counted
  <2>2. \A k \in DOMAIN counters' : counters'[k] = Cardinality(InSeries(k)')
    BY <1>4, <1>7, <1>10, <2>1
  <2> QED
    BY <1>6, <1>10, <2>1, <2>2, Zenon DEF CountsInv, CountsAreExact, InSeries
<1> QED
  BY <1>8, <1>9, <1>10

\* A request's steps keep the counts: it is recorded when dispatch ends, once.
LEMMA StreamKeepsCounts ==
    ASSUME NEW s \in Streams, TasksOK, CountsInv, StreamNext(s)
    PROVE  CountsInv'
<1>1. PICK r : task' = [task EXCEPT ![s] = r] /\ StreamKind(s, r)
  BY StreamKinds
<1>2. task'[s] = r /\ \A u \in Streams : u # s => task'[u] = task[u]
  BY <1>1, KindKeepsTasks, Zenon
<1>3. CASE Finalized(s, r)
  BY <1>1, <1>3, FinalizedKeepsCounts, Zenon
<1>4. CASE Accepted(s, r) \/ Moved(s, r) \/ Refused(s, r)
  <2>1. task[s].via = None /\ r.via \in {None, "body"} /\ UNCHANGED telemetry
    BY <1>4, Zenon DEF Accepted, Moved, Refused, TasksOK, TaskOK, Working, Unanswered
  <2>2. Recorded' = Recorded /\ s \notin Recorded
    BY <1>2, <2>1 DEF Recorded
  <2>3. \A u \in Recorded : task'[u] = task[u]
    BY <1>2, <2>2 DEF Recorded
  <2> QED
    BY <2>1, <2>2, <2>3, OthersKeepCounts
<1>5. CASE Closed(s, r)
  <2>1. r.via = task[s].via /\ r.resp = task[s].resp /\ r.q = task[s].q /\ UNCHANGED telemetry
    BY <1>5 DEF Closed, Same
  <2>2. Recorded' = Recorded
    BY <1>2, <2>1 DEF Recorded
  <2>3. \A u \in Recorded : SeriesOf(task'[u]) = SeriesOf(task[u])
    BY <1>2, <2>1 DEF Recorded, SeriesOf
  <2> QED
    BY <2>1, <2>2, <2>3, OthersKeepCounts
<1> QED
  BY <1>1, <1>3, <1>4, <1>5 DEF StreamKind

-----------------------------------------------------------------------------
(* The rate limiter the requests share.                                      *)

\* Only a task that waits for the limiter has a reading of the clock.
StampsOK == \A s \in Streams : stamp[s] # NotRead => task[s].at = "limiter"

\* The handlers leave serve(), the connections and the limiter alone.
LEMMA HandlerLeaves ==
    ASSUME NEW s \in Streams, Execute(s) \/ Proxy(s) \/ Metadata(s) \/ ReadFile(s)
    PROVE  UNCHANGED server /\ UNCHANGED limiter
<1>1. NextCandidate(s) \/ (\E e : Answer(s, e)) => UNCHANGED server /\ UNCHANGED limiter
  BY Zenon DEF NextCandidate, Answer
<1>2. CASE Execute(s) \/ ReadFile(s)
  BY <1>1, <1>2, Zenon DEF Execute, ReadFile
<1>3. CASE Proxy(s)
  <2>1. PICK status : Answer(s, Reply(status))
    BY <1>3 DEF Proxy
  <2> QED
    BY <1>1, <2>1, Zenon
<1>4. CASE Metadata(s)
  BY <1>1, <1>4, Zenon DEF Metadata
<1> QED
  BY <1>2, <1>3, <1>4

\* A request reads the clock, is counted, or leaves the limiter alone.
LEMMA StreamLimits ==
    ASSUME NEW s \in Streams, TasksOK, StampsOK, StreamNext(s)
    PROVE  \/ ReadClock(s) /\ task'[s].at = "limiter"
           \/ \E k : Count(s, k)
           \/ UNCHANGED limiter /\ task[s].at # "limiter"
<1>1. CASE Limit429(s) \/ LimitPassed(s)
  BY <1>1, Zenon DEF Limit429, LimitPassed
<1>2. CASE Dispatch(s)
  <2>1. task[s].at = "body" /\ stamp[s] = NotRead /\ DOMAIN task = Streams
        /\ DOMAIN task[s] = Fields
    BY <1>2, Zenon DEF Dispatch, StampsOK, TasksOK, TaskOK
  <2>2. \/ UNCHANGED limiter
        \/ /\ \E at, view : task' = [task EXCEPT ![s] =
                                 [[task[s] EXCEPT !.pos = at, !.view = view]
                                     EXCEPT !.at = "limiter"]]
           /\ stamp' = [stamp EXCEPT ![s] = clock]
           /\ UNCHANGED <<clock, buckets, granted>>
    BY <1>2, Zenon DEF Dispatch, RunIngress
  <2>3. CASE /\ \E at, view : task' = [task EXCEPT ![s] =
                                 [[task[s] EXCEPT !.pos = at, !.view = view]
                                     EXCEPT !.at = "limiter"]]
             /\ stamp' = [stamp EXCEPT ![s] = clock]
             /\ UNCHANGED <<clock, buckets, granted>>
    <3>1. task'[s].at = "limiter"
      BY <2>1, <2>3 DEF Fields
    <3> QED
      BY <2>1, <2>3, <3>1 DEF ReadClock
  <2> QED
    BY <2>1, <2>2, <2>3, Zenon
<1>3. CASE AcceptRequest(s) \/ BodyTooLarge(s) \/ Send(s) \/ StreamFails(s)
  BY <1>3 DEF AcceptRequest, BodyTooLarge, Send, StreamFails
<1>4. CASE Execute(s) \/ Proxy(s) \/ Metadata(s) \/ ReadFile(s)
  <2>1. task[s].at # "limiter"
    BY <1>4, Zenon DEF Execute, Proxy, Metadata, ReadFile
  <2>2. UNCHANGED limiter
    BY <1>4, HandlerLeaves
  <2> QED
    BY <2>1, <2>2
<1> QED
  BY <1>1, <1>2, <1>3, <1>4, Zenon DEF StreamNext, Task

\* EXCEPT changes nothing outside the domain: counting against a key that is
\* none of Keys leaves their buckets alone.
LEMMA ExceptOutside ==
    ASSUME NEW S, NEW T, NEW f \in [S -> T], NEW k, k \notin S, NEW x
    PROVE  [f EXCEPT ![k] = x] = f
  OBVIOUS

\* The requests' steps are steps of the limiter for one key, or none of its.
LEMMA StreamKeepsLimiter ==
    ASSUME NEW s \in Streams, TasksOK, StampsOK, LimiterInv, StreamNext(s)
    PROVE  StampsOK' /\ LimiterInv'
<1>1. \A u \in Streams : u # s => task'[u] = task[u]
  BY StreamKinds, KindKeepsTasks
<1>2. DOMAIN stamp = Streams /\ DOMAIN buckets = Keys /\ DOMAIN granted = Keys
  BY DEF LimiterInv, LimiterTypeOK, Streams
<1>3. CASE ReadClock(s) /\ task'[s].at = "limiter"
  BY <1>1, <1>2, <1>3, ReadClockKeeps, Zenon DEF StampsOK, ReadClock, Streams
<1>4. CASE \E k : Count(s, k)
  <2>1. PICK k : Count(s, k)
    BY <1>4
  <2>2. stamp' = [stamp EXCEPT ![s] = NotRead]
    BY <2>1 DEF Count
  <2>3. StampsOK'
    BY <1>1, <1>2, <2>2 DEF StampsOK
  <2>4. CASE k \in Keys
    BY <2>1, <2>3, <2>4, CountKeeps DEF Streams
  <2>5. CASE k \notin Keys
    <3>1. \A x : [buckets EXCEPT ![k] = x] = buckets /\ [granted EXCEPT ![k] = x] = granted
      <4>1. PICK B, G : buckets \in [Keys -> B] /\ granted \in [Keys -> G]
        BY Zenon DEF LimiterInv, LimiterTypeOK
      <4> QED
        BY <2>5, <4>1, ExceptOutside
    <3>2. UNCHANGED <<clock, buckets, granted>>
      BY <2>1, <3>1, Zenon DEF Count
    <3> QED
      BY <2>2, <2>3, <3>2, GiveUpKeeps, Zenon DEF Streams
  <2> QED
    BY <2>4, <2>5
<1>5. CASE UNCHANGED limiter /\ task[s].at # "limiter"
  BY <1>1, <1>5, LimiterStays DEF StampsOK, limiter
<1> QED
  BY <1>3, <1>4, <1>5, StreamLimits

-----------------------------------------------------------------------------
(* The invariant.                                                            *)

Inv == TasksOK /\ DrainInv /\ CountsInv /\ StampsOK /\ LimiterInv

\* It holds of a listener with no connection yet.
LEMMA InvInit == Init => Inv
<1> SUFFICES ASSUME Init PROVE Inv
  OBVIOUS
<1>1. /\ DOMAIN task = Streams /\ \A s \in Streams : task[s] = Idle
      /\ conn = [c \in Conns |-> "none"] /\ late = {} /\ counters = <<>> /\ observed = 0
      /\ LimiterInit
  BY DEF Init
<1>2. /\ DOMAIN Idle = Fields /\ Idle.at = "idle" /\ Idle.via = None /\ Idle.cut = None
  BY DEF Idle, Fields
<1>3. TasksOK
  BY <1>1, <1>2 DEF TasksOK, TaskOK, Unanswered
<1>4. DrainInv
  BY <1>1, <1>2, Http3Assumption DEF DrainInv, StreamDrains, Phases, Ended, None
<1>5. CountsInv
  <2>1. Recorded = {}
    BY <1>1, <1>2 DEF Recorded
  <2>2. DOMAIN counters = {} /\ IsFiniteSet({}) /\ Cardinality({}) = 0
    BY <1>1, FS_EmptySet
  <2> QED
    BY <1>1, <2>1, <2>2 DEF CountsInv, CountsAreExact
<1>7. LimiterInv
  BY <1>1, LimiterStarts
<1>8. StampsOK
  BY <1>1 DEF LimiterInit, StampsOK, Streams
<1> QED
  BY <1>3, <1>4, <1>5, <1>7, <1>8 DEF Inv

\* The request tasks leave serve() and the connections alone.
LEMMA StreamServer ==
    ASSUME NEW s \in Streams, StreamNext(s)
    PROVE  UNCHANGED server
<1>1. Execute(s) \/ Proxy(s) \/ Metadata(s) \/ ReadFile(s) => UNCHANGED server
  BY HandlerLeaves
<1>2. Dispatch(s) \/ Limit429(s) \/ LimitPassed(s) => UNCHANGED server
  BY Zenon DEF Dispatch, Limit429, LimitPassed
<1>3. AcceptRequest(s) \/ BodyTooLarge(s) \/ Send(s) \/ StreamFails(s) => UNCHANGED server
  BY Zenon DEF AcceptRequest, BodyTooLarge, Send, StreamFails
<1> QED
  BY <1>1, <1>2, <1>3, Zenon DEF StreamNext, Task

\* Every step of serve(), of a connection, of a request, of a deploy or of time
\* keeps it.
LEMMA InvStep == Inv /\ [Next /\ UNCHANGED plan]_vars => Inv'
<1> SUFFICES ASSUME Inv, [Next /\ UNCHANGED plan]_vars PROVE Inv'
  OBVIOUS
<1>0. TasksOK /\ DrainInv /\ CountsInv /\ StampsOK /\ LimiterInv
  BY DEF Inv
<1>1. ASSUME UNCHANGED task PROVE TasksOK'
  BY <1>0, <1>1, Zenon DEF TasksOK, TaskOK
<1>2. ASSUME UNCHANGED <<task, telemetry>> PROVE CountsInv'
  <2>1. Recorded' = Recorded
    BY <1>2, Zenon DEF Recorded
  <2> QED
    BY <1>0, <1>2, <2>1, OthersKeepCounts, Zenon
<1>3. ASSUME UNCHANGED <<task, stamp>> PROVE StampsOK'
  BY <1>0, <1>3, Zenon DEF StampsOK
<1>4. ASSUME UNCHANGED <<task, server>> PROVE DrainInv'
  BY <1>0, <1>4, Zenon DEF DrainInv, StreamDrains, server
<1>5. CASE (Serve \/ Connection) /\ UNCHANGED <<plan, task, telemetry, limiter>>
  BY <1>0, <1>1, <1>2, <1>3, <1>5, ServerKeepsDrain, LimiterStays, Zenon DEF Inv, limiter
<1>6. ASSUME NEW s \in Streams, StreamNext(s), UNCHANGED plan PROVE Inv'
  <2>1. TasksOK'
    BY <1>0, <1>6, StreamKinds, KindKeepsTasks
  <2> QED
    BY <1>0, <1>6, <2>1, StreamServer, StreamKeepsDrain, StreamKeepsCounts, StreamKeepsLimiter,
       Zenon DEF Inv
<1>7. CASE UNCHANGED <<plan, server, task, telemetry, limiter>>
  BY <1>0, <1>1, <1>2, <1>3, <1>4, <1>7, LimiterStays, Zenon DEF Inv, limiter
<1>8. CASE TimePasses /\ UNCHANGED plan
  <2>1. Tick /\ UNCHANGED <<plan, server, task, telemetry, stamp>>
    BY <1>8, Zenon DEF TimePasses, Tick
  <2>2. LimiterInv'
    BY <1>0, <2>1, TickKeeps
  <2> QED
    BY <1>1, <1>2, <1>3, <1>4, <2>1, <2>2, Zenon DEF Inv
<1> QED
  BY <1>5, <1>6, <1>7, <1>8, Zenon DEF Next, StreamNext, FileChanges, vars

\* The invariant of the listener, on which the theorems below rest.
THEOREM Http3Invariant == Spec => []Inv
  BY InvInit, InvStep, PTL DEF Spec

\* A drain lets every request in progress end, unless the peer or the deadline
\* takes its connection away, and accepts nothing on a connection that landed
\* after the stop, for any number of connections and requests
\* (Http3Listener::serve, drive_connection).
THEOREM DrainTheorem == Spec => []DrainIsGraceful
<1>1. Inv => DrainIsGraceful
  BY DEF Inv, DrainInv, StreamDrains, DrainIsGraceful
<1> QED
  BY <1>1, Http3Invariant, PTL

\* The counters and the histogram account for every request that went through
\* dispatch, for any cap on the number of series (CounterVec::add).
THEOREM CountsTheorem == Spec => []CountsAreExact
<1>1. Inv => CountsAreExact
  BY DEF Inv, CountsInv
<1> QED
  BY <1>1, Http3Invariant, PTL

\* The bound on bursts holds in the listener as well, where middleware decide
\* who is counted and connections come and go (dispatch, RateLimiter::check).
THEOREM ListenerBoundsBursts == Spec => []BurstIsBounded
<1>1. Inv => BurstIsBounded
  BY DEF Inv, LimiterInv
<1> QED
  BY <1>1, Http3Invariant, PTL


-----------------------------------------------------------------------------
(* The fallbacks of files() *)

\* Where a task is in the list of fallbacks: it has not passed one that is
\* always there, and what it is about to read is the fallback it is at.
FilesOK(t) ==
    /\ t.at = "body" => t.q.route \in {None} \cup DOMAIN Routes
    /\ t.at \in {"limiter", "handler", "read"} => t.q.route \in DOMAIN Routes
    /\ t.at \in {"handler", "read"} /\ HandlerOf(t).h = "files" =>
          t.pos \in DOMAIN Candidates(t) /\ \A i \in Steady(t) : t.pos <= i
    /\ t.at = "read" => /\ HandlerOf(t).h = "files" /\ t.target \in Served(t, t.pos)
                        /\ t.pos \in Steady(t) => AlwaysThere(t.target)
    /\ t.via = "handler" /\ HandlerOf(t).h = "files" =>
          \A i \in Steady(t) : /\ t.resp.status = 200
                               /\ \E j \in 1..i : t.resp.file \in Served(t, j)

FilesInv == plan \in Plans /\ \A s \in Streams : FilesOK(task[s])

\* The fallbacks depend on what was asked and on the rewritten path.
LEMMA SameCandidates ==
    ASSUME NEW t, NEW r, r.q = t.q, r.view = t.view
    PROVE  /\ HandlerOf(r) = HandlerOf(t) /\ Candidates(r) = Candidates(t)
           /\ Steady(r) = Steady(t) /\ \A i : Served(r, i) = Served(t, i)
<1>1. HandlerOf(r) = HandlerOf(t)
  BY DEF HandlerOf
<1>2. Candidates(r) = Candidates(t)
  BY <1>1, Zenon DEF Candidates
<1> QED
  BY <1>1, <1>2, Zenon DEF Steady, Served

\* The fallbacks are a list that is not empty.
LEMMA CandidatesList ==
    ASSUME NEW t, t.q.route \in DOMAIN Routes, HandlerOf(t).h = "files"
    PROVE  \E n \in Nat \ {0} : DOMAIN Candidates(t) = 1..n /\ Len(Candidates(t)) = n
<1> DEFINE try == HandlerOf(t).try
<1>1. try \in Seq(Seq(STRING))
  BY Http3Assumption DEF HandlerOf
<1>2. CASE try = <<>>
  <2>1. Candidates(t) = <<t.view.path>>
    BY <1>2, Zenon DEF Candidates
  <2> QED
    BY <2>1
<1>3. CASE try # <<>>
  <2>1. Len(try) \in Nat \ {0} /\ DOMAIN try = 1..Len(try)
    BY <1>1, <1>3
  <2> DEFINE F(i) == ExpandPath(try[i], t.view.path)
  <2>2. Candidates(t) = [i \in DOMAIN try |-> F(i)]
    BY <1>3, Zenon DEF Candidates
  <2> HIDE DEF F, try
  <2>3. Len([i \in 1..Len(try) |-> F(i)]) = Len(try)
    BY <2>1
  <2> QED
    BY <2>1, <2>2, <2>3, Zenon
<1> QED
  BY <1>2, <1>3

\* A path below the root resolves to one path at most (sanitized_join).
LEMMA OnePath ==
    ASSUME NEW rel, NEW p \in SanitizedJoin(rel), NEW q \in SanitizedJoin(rel)
    PROVE  p = q
<1> DEFINE joined == SelectSeq(rel, LAMBDA c : c \notin {"/", "."})
<1>1. SanitizedJoin(rel) = {} \/ SanitizedJoin(rel) = {joined}
  BY Zenon DEF SanitizedJoin
<1> HIDE DEF joined
<1> QED
  BY <1>1

\* The response r has is right for the fallbacks of t.
Right(t, r) ==
    r.via = "handler" /\ HandlerOf(t).h = "files" =>
        \A i \in Steady(t) : /\ r.resp.status = 200
                             /\ \E j \in 1..i : r.resp.file \in Served(t, j)

\* A task past its handler is as right as its response is for the fallbacks of
\* the task it was.
LEMMA AnsweredFiles ==
    ASSUME NEW t, NEW r, r.at \in {"sending", "answered", "broken"}, r.q = t.q, r.view = t.view,
           Right(t, r)
    PROVE  FilesOK(r)
<1>1. /\ HandlerOf(r) = HandlerOf(t) /\ Steady(r) = Steady(t)
      /\ \A i : Served(r, i) = Served(t, i)
  BY SameCandidates, Zenon
<1>2. r.via = "handler" /\ HandlerOf(r).h = "files" =>
          \A i \in Steady(r) : /\ r.resp.status = 200
                               /\ \E j \in 1..i : r.resp.file \in Served(r, j)
  BY <1>1 DEF Right
<1>3. r.at \notin {"body", "limiter", "handler", "read"}
  OBVIOUS
<1> QED
  BY <1>2, <1>3, Zenon DEF FilesOK

\* A handler that answers leaves a task whose answer is right for its
\* fallbacks if the response was (egress touches headers only).
LEMMA AnswerFiles ==
    ASSUME NEW s \in Streams, TasksOK, NEW e, DOMAIN e = {"status", "headers", "file"},
           task[s].at \in Working, Answer(s, e),
           HandlerOf(task[s]).h = "files" =>
               \A i \in Steady(task[s]) :
                   e.status = 200 /\ \E j \in 1..i : e.file \in Served(task[s], j)
    PROVE  FilesOK(task'[s])
<1> DEFINE t == task[s]
           sent == Egress(Pipe(t), t.q.origin, e)
           r == [t EXCEPT !.at = "sending", !.pos = 0, !.target = <<>>, !.resp = sent,
                          !.via = "handler"]
<1>1. DOMAIN t = Fields /\ DOMAIN task = Streams
  BY Zenon DEF TasksOK, TaskOK
<1>2. sent.status = e.status /\ sent.file = e.file
  <2>1. \E h : sent = [e EXCEPT !.headers = h]
    BY Zenon DEF Egress
  <2> QED
    BY <2>1
<1>3. task'[s] = r
  BY <1>1 DEF Answer, Finalize
<1> HIDE DEF sent
<1>4. r.at = "sending" /\ r.resp = sent /\ r.q = t.q /\ r.view = t.view
  BY <1>1 DEF Fields
<1> HIDE DEF r
<1>5. Right(t, r)
  BY <1>2, <1>4, Zenon DEF Right
<1>6. FilesOK(r)
  <2> HIDE DEF t
  <2>1. r.at \in {"sending", "answered", "broken"} /\ r.q = t.q /\ r.view = t.view
    BY <1>4, Zenon
  <2> QED
    BY <1>5, <2>1, AnsweredFiles
<1> QED
  BY <1>3, <1>6

\* A task that has not been answered by a handler has nothing to show.
LEMMA OtherFiles ==
    ASSUME NEW r, r.at \in {"limiter", "sending"}, r.via # "handler",
           r.at = "limiter" => r.q.route \in DOMAIN Routes
    PROVE  FilesOK(r)
  BY Zenon DEF FilesOK

\* The handler starts with the first fallback.
LEMMA FirstCandidate ==
    ASSUME NEW r, r.at = "handler", r.pos = 1, r.via = None, r.q.route \in DOMAIN Routes
    PROVE  FilesOK(r)
<1>1. HandlerOf(r).h = "files" => 1 \in DOMAIN Candidates(r) /\ \A i \in Steady(r) : 1 <= i
  <2> SUFFICES ASSUME HandlerOf(r).h = "files"
               PROVE  1 \in DOMAIN Candidates(r) /\ \A i \in DOMAIN Candidates(r) : 1 <= i
    BY DEF Steady
  <2>1. PICK n \in Nat \ {0} : DOMAIN Candidates(r) = 1..n
    BY CandidatesList
  <2> QED
    BY <2>1
<1> QED
  BY <1>1 DEF FilesOK, None

\* The next fallback, when the one before is not always there.
LEMMA NextFiles ==
    ASSUME NEW s \in Streams, TasksOK, FilesOK(task[s]), NextCandidate(s),
           task[s].at \in {"handler", "read"}, HandlerOf(task[s]).h = "files",
           task[s].pos \notin Steady(task[s])
    PROVE  FilesOK(task'[s])
<1>1. /\ DOMAIN task[s] = Fields /\ DOMAIN task = Streams /\ task[s].via = None
      /\ task[s].at \in Working
  BY DEF TasksOK, TaskOK, Unanswered, Working
<1>2. PICK n \in Nat \ {0} : /\ DOMAIN Candidates(task[s]) = 1..n
                             /\ Len(Candidates(task[s])) = n
  <2>1. task[s].q.route \in DOMAIN Routes
    BY Zenon DEF FilesOK
  <2> QED
    BY <2>1, CandidatesList, Zenon
<1>3. /\ task[s].pos \in 1..n
      /\ \A i \in Steady(task[s]) : i \in 1..n /\ task[s].pos < i
  <2>1. task[s].pos \in 1..n /\ \A i \in Steady(task[s]) : task[s].pos <= i
    BY <1>2, Zenon DEF FilesOK
  <2>2. \A i \in Steady(task[s]) : i \in 1..n /\ task[s].pos # i
    BY <1>2, Zenon DEF Steady
  <2>3. \A i, j \in 1..n : i <= j /\ i # j => i < j
    BY SMT
  <2> QED
    BY <2>1, <2>2, <2>3, Zenon
<1>4. CASE task[s].pos = n
  <2>1. Answer(s, Reply(404))
    BY <1>2, <1>4, Zenon DEF NextCandidate
  <2>3. Steady(task[s]) = {}
    BY <1>3, <1>4
  <2>2. DOMAIN Reply(404) = {"status", "headers", "file"}
    BY Zenon DEF Reply
  <2> QED
    BY <1>1, <2>1, <2>2, <2>3, AnswerFiles, Zenon
<1>5. CASE task[s].pos # n
  <2> DEFINE r == [task[s] EXCEPT !.at = "handler", !.pos = task[s].pos + 1]
  <2>1. task'[s] = r
    BY <1>1, <1>2, <1>5 DEF NextCandidate
  <2>2. /\ r.at = "handler" /\ r.pos = task[s].pos + 1 /\ r.q = task[s].q
        /\ r.view = task[s].view /\ r.via = None
    BY <1>1 DEF Fields
  <2> HIDE DEF r
  <2>3. /\ HandlerOf(r) = HandlerOf(task[s]) /\ Candidates(r) = Candidates(task[s])
        /\ Steady(r) = Steady(task[s])
    BY <2>2, SameCandidates, Zenon
  <2>4. r.pos \in DOMAIN Candidates(r) /\ \A i \in Steady(r) : r.pos <= i
    <3>1. \A i, j \in 1..n : (j # n => j + 1 \in 1..n) /\ (j < i => j + 1 <= i)
      BY SMT
    <3>2. r.pos \in 1..n /\ \A i \in Steady(task[s]) : r.pos <= i
      BY <1>3, <1>5, <2>2, <3>1, Zenon
    <3> QED
      BY <1>2, <2>3, <3>2, Zenon
  <2>5. FilesOK(r)
    BY <2>2, <2>4, Zenon DEF FilesOK, None
  <2> QED
    BY <2>1, <2>5
<1> QED
  BY <1>4, <1>5, Zenon

\* metadata(): a fallback that is always there is found, and no other path is
\* read in its place.
LEMMA MetadataFiles ==
    ASSUME NEW s \in Streams, TasksOK, FilesOK(task[s]), Metadata(s)
    PROVE  FilesOK(task'[s])
<1> DEFINE t == task[s]
           paths == SanitizedJoin(Candidates(t)[t.pos])
           found == {p \in paths : KindOf(p) # "absent"}
<1>1. /\ DOMAIN t = Fields /\ DOMAIN task = Streams /\ t.via = None
      /\ t.at = "handler" /\ HandlerOf(t).h = "files" /\ t.q.route \in DOMAIN Routes
      /\ t.pos \in DOMAIN Candidates(t) /\ \A i \in Steady(t) : t.pos <= i
  BY Zenon DEF TasksOK, TaskOK, Unanswered, Metadata, FilesOK
<1>2. \A p \in paths : t.pos \in Steady(t) => AlwaysThere(p)
  BY OnePath, Zenon DEF Steady
<1>3. \A p : AlwaysThere(p) => KindOf(p) = "file"
  BY DEF AlwaysThere, KindOf
<1>4. CASE found = {}
  <2>1. NextCandidate(s)
    BY <1>4, Zenon DEF Metadata
  <2>2. t.pos \notin Steady(t)
    <3> SUFFICES ASSUME t.pos \in Steady(t) PROVE FALSE
      OBVIOUS
    <3>1. PICK p \in paths : AlwaysThere(p)
      BY Zenon DEF Steady
    <3> QED
      BY <1>3, <1>4, <3>1, Zenon
  <2> QED
    BY <1>1, <2>1, <2>2, NextFiles, Zenon
<1>5. CASE found # {}
  <2>1. PICK p \in found : task' = [task EXCEPT ![s] =
            [@ EXCEPT !.at = "read",
                      !.target = IF KindOf(p) = "dir" THEN Append(p, "index.html") ELSE p]]
    BY <1>5, Zenon DEF Metadata
  <2> DEFINE target == IF KindOf(p) = "dir" THEN Append(p, "index.html") ELSE p
             r == [t EXCEPT !.at = "read", !.target = target]
  <2>2. task'[s] = r
    BY <1>1, <2>1
  <2>3. target \in Served(t, t.pos)
    BY <2>1, Zenon DEF Served
  <2>4. t.pos \in Steady(t) => AlwaysThere(target)
    BY <1>2, <1>3, <2>1
  <2> HIDE DEF target
  <2>5. /\ r.at = "read" /\ r.target = target /\ r.q = t.q /\ r.view = t.view
        /\ r.via = None /\ r.pos = t.pos
    BY <1>1 DEF Fields
  <2> HIDE DEF r
  <2>6. /\ HandlerOf(r) = HandlerOf(t) /\ Candidates(r) = Candidates(t)
        /\ Steady(r) = Steady(t) /\ \A i : Served(r, i) = Served(t, i)
    BY <2>5, SameCandidates, Zenon
  <2>7. FilesOK(r)
    <3>1. None # "handler"
      BY DEF None
    <3>2. /\ r.q.route \in DOMAIN Routes /\ HandlerOf(r).h = "files"
          /\ r.pos \in DOMAIN Candidates(r) /\ \A i \in Steady(r) : r.pos <= i
      BY <1>1, <2>5, <2>6, Zenon
    <3>3. r.target \in Served(r, r.pos) /\ (r.pos \in Steady(r) => AlwaysThere(r.target))
      BY <2>3, <2>4, <2>5, <2>6, Zenon
    <3>4. r.at = "read" /\ r.via # "handler"
      BY <2>5, <3>1, Zenon
    <3> QED
      BY <3>2, <3>3, <3>4, Zenon DEF FilesOK
  <2> QED
    BY <2>2, <2>7
<1> QED
  BY <1>4, <1>5, Zenon

\* read(): what is read is the fallback the task is at, and one that is always
\* there can be read.
LEMMA ReadFiles ==
    ASSUME NEW s \in Streams, TasksOK, FilesOK(task[s]), ReadFile(s)
    PROVE  FilesOK(task'[s])
<1> DEFINE t == task[s]
<1>1. /\ t.at = "read" /\ HandlerOf(t).h = "files" /\ t.q.route \in DOMAIN Routes
      /\ t.pos \in DOMAIN Candidates(t) /\ \A i \in Steady(t) : t.pos <= i
      /\ t.target \in Served(t, t.pos) /\ (t.pos \in Steady(t) => AlwaysThere(t.target))
  BY DEF ReadFile, FilesOK
<1>2. CASE KindOf(t.target) = "file"
  <2> DEFINE e == [Reply(200) EXCEPT !.file = t.target]
  <2>1. Answer(s, e)
    BY <1>2, Zenon DEF ReadFile
  <2>2. DOMAIN e = {"status", "headers", "file"} /\ e.status = 200 /\ e.file = t.target
    BY DEF Reply
  <2> HIDE DEF e
  <2>3. PICK n \in Nat \ {0} : DOMAIN Candidates(t) = 1..n
    BY <1>1, CandidatesList, Zenon
  <2>4. \A i \in Steady(t) : t.pos \in 1..i
    <3>1. \A i, j \in 1..n : j <= i => j \in 1..i
      BY SMT
    <3>2. \A i \in Steady(t) : i \in 1..n
      BY <2>3, Zenon DEF Steady
    <3> QED
      BY <1>1, <2>3, <3>1, <3>2, Zenon
  <2>5. t.at \in Working
    BY <1>1, Zenon DEF Working
  <2> QED
    BY <1>1, <2>1, <2>2, <2>4, <2>5, AnswerFiles, Zenon
<1>3. CASE KindOf(t.target) # "file"
  <2>1. NextCandidate(s)
    BY <1>3, Zenon DEF ReadFile
  <2>2. ~AlwaysThere(t.target)
    BY <1>3 DEF AlwaysThere, KindOf
  <2> QED
    BY <1>1, <2>1, <2>2, NextFiles, Zenon
<1> QED
  BY <1>2, <1>3

\* Nothing but files() answers for the fallbacks.
LEMMA OtherHandlerFiles ==
    ASSUME NEW s \in Streams, TasksOK, Execute(s) \/ Proxy(s)
    PROVE  FilesOK(task'[s])
<1>1. HandlerOf(task[s]).h # "files" /\ task[s].at \in Working
  BY Zenon DEF Execute, Proxy, Working
<1>2. \E status : Answer(s, Reply(status))
  <2>1. CASE Execute(s)
    <3>1. CASE HandlerOf(task[s]).h = "other"
      BY <2>1, <3>1, Zenon DEF Execute
    <3>2. CASE HandlerOf(task[s]).h # "other"
      BY <2>1, <3>2, Zenon DEF Execute
    <3> QED
      BY <3>1, <3>2
  <2>2. CASE Proxy(s)
    <3>1. PICK status \in IF HandlerOf(task[s]).known THEN {200, 502} ELSE {502} :
              Answer(s, Reply(status))
      BY <2>2, Zenon DEF Proxy
    <3> QED
      BY <3>1, Zenon
  <2> QED
    BY <2>1, <2>2
<1>3. \A status : DOMAIN Reply(status) = {"status", "headers", "file"}
  BY DEF Reply
<1> QED
  BY <1>1, <1>2, <1>3, AnswerFiles, Zenon

\* What Finalize leaves when no handler ran.
LEMMA FinalizeFiles ==
    ASSUME NEW s \in Streams, TasksOK, NEW t, DOMAIN t = Fields, NEW e,
           NEW via \in {"ingress", "router"}, Finalize(s, t, e, via)
    PROVE  FilesOK(task'[s])
<1> DEFINE r == [t EXCEPT !.at = "sending", !.pos = 0, !.target = <<>>, !.resp = e, !.via = via]
<1>1. task'[s] = r
  BY DEF Finalize, TasksOK
<1>2. r.at = "sending" /\ r.via # "handler"
  BY DEF Fields
<1> HIDE DEF r
<1> QED
  BY <1>1, <1>2, OtherFiles

\* The middleware lead to the first fallback.
LEMMA DispatchFiles ==
    ASSUME NEW s \in Streams, TasksOK, FilesOK(task[s]),
           Dispatch(s) \/ Limit429(s) \/ LimitPassed(s)
    PROVE  FilesOK(task'[s])
<1> DEFINE t == task[s]
<1>1. DOMAIN t = Fields
  BY DEF TasksOK, TaskOK
<1>2. ASSUME NEW at, NEW view, t.via = None, t.q.route \in DOMAIN Routes,
             LET there == [t EXCEPT !.pos = at, !.view = view] IN
             \/ \E e : Finalize(s, there, e, "ingress")
             \/ task' = [task EXCEPT ![s] = [there EXCEPT !.at = "limiter"]]
             \/ task' = [task EXCEPT ![s] = [there EXCEPT !.at = "handler", !.pos = 1]]
      PROVE  FilesOK(task'[s])
  <2> DEFINE there == [t EXCEPT !.pos = at, !.view = view]
             waits == [there EXCEPT !.at = "limiter"]
             runs == [there EXCEPT !.at = "handler", !.pos = 1]
  <2>1. DOMAIN there = Fields /\ there.q = t.q /\ there.via = None
    BY <1>1, <1>2 DEF TasksOK, TaskOK, Fields
  <2>2. /\ waits.at = "limiter" /\ waits.via = None /\ waits.q = t.q
        /\ runs.at = "handler" /\ runs.pos = 1 /\ runs.via = None /\ runs.q = t.q
    BY <2>1 DEF Fields
  <2> HIDE DEF there, waits, runs
  <2>3. CASE \E e : Finalize(s, there, e, "ingress")
    BY <2>1, <2>3, FinalizeFiles
  <2>4. CASE task' = [task EXCEPT ![s] = waits]
    <3>1. FilesOK(waits)
      BY <1>2, <2>2, OtherFiles DEF None
    <3> QED
      BY <2>4, <3>1 DEF TasksOK
  <2>5. CASE task' = [task EXCEPT ![s] = runs]
    <3>1. FilesOK(runs)
      BY <1>2, <2>2, FirstCandidate
    <3> QED
      BY <2>5, <3>1 DEF TasksOK
  <2> QED
    BY <1>2, <2>3, <2>4, <2>5 DEF there, waits, runs
<1>3. CASE Dispatch(s)
  <2>1. CASE Finalize(s, t, Reply(404), "router")
    BY <2>1, FinalizeFiles, Zenon DEF TasksOK, TaskOK
  <2>2. CASE RunIngress(s, 1, ViewOf(s), t) /\ t.q.route # None
    <3>1. t.via = None /\ t.q.route \in DOMAIN Routes
      BY <1>3, <2>2, Zenon DEF Dispatch, FilesOK, TasksOK, TaskOK, Unanswered
    <3>2. \E at, view : LET there == [t EXCEPT !.pos = at, !.view = view] IN
             \/ \E e : Finalize(s, there, e, "ingress")
             \/ task' = [task EXCEPT ![s] = [there EXCEPT !.at = "limiter"]]
             \/ task' = [task EXCEPT ![s] = [there EXCEPT !.at = "handler", !.pos = 1]]
      BY <2>2, Zenon DEF RunIngress
    <3> QED
      BY <1>2, <3>1, <3>2, Zenon
  <2> QED
    BY <1>3, <2>1, <2>2, Zenon DEF Dispatch
<1>4. CASE Limit429(s)
  <2>1. \E e : Finalize(s, t, e, "ingress")
    BY <1>4, Zenon DEF Limit429
  <2> QED
    BY <2>1, FinalizeFiles, Zenon DEF TasksOK, TaskOK
<1>5. CASE LimitPassed(s)
  <2>1. t.via = None /\ t.q.route \in DOMAIN Routes /\ DOMAIN t = Fields
    BY <1>5, Zenon DEF LimitPassed, FilesOK, TasksOK, TaskOK, Unanswered
  <2>2. PICK view : LET there == [t EXCEPT !.pos = 1, !.view = view] IN
             \/ \E e : Finalize(s, there, e, "ingress")
             \/ task' = [task EXCEPT ![s] = [there EXCEPT !.at = "handler"]]
    BY <1>5, Zenon DEF LimitPassed
  <2> DEFINE there == [t EXCEPT !.pos = 1, !.view = view]
             runs == [there EXCEPT !.at = "handler"]
  <2>3. DOMAIN there = Fields
    BY <2>1
  <2>4. runs.at = "handler" /\ runs.pos = 1 /\ runs.via = None /\ runs.q = t.q
    BY <2>1 DEF Fields
  <2> HIDE DEF there, runs
  <2>5. CASE \E e : Finalize(s, there, e, "ingress")
    BY <2>3, <2>5, FinalizeFiles, Zenon
  <2>6. CASE task' = [task EXCEPT ![s] = runs]
    <3>1. FilesOK(runs)
      BY <2>1, <2>4, FirstCandidate, Zenon
    <3> QED
      BY <2>6, <3>1 DEF TasksOK
  <2> QED
    BY <2>2, <2>5, <2>6 DEF there, runs
<1> QED
  BY <1>3, <1>4, <1>5

\* Accepting a request, refusing its body, sending its response and losing it
\* leave the fallbacks alone.
LEMMA EndFiles ==
    ASSUME NEW s \in Streams, TasksOK, FilesInv,
           AcceptRequest(s) \/ BodyTooLarge(s) \/ Send(s) \/ StreamFails(s)
    PROVE  FilesOK(task'[s])
<1> DEFINE t == task[s]
<1>1. DOMAIN t = Fields /\ DOMAIN task = Streams /\ FilesOK(t)
  BY Zenon DEF TasksOK, TaskOK, FilesInv
<1>2. CASE AcceptRequest(s)
  <2> DEFINE r == [Idle EXCEPT !.at = "body", !.q = plan[s]]
  <2>1. r.at = "body" /\ r.q = plan[s] /\ r.via = None
    BY DEF Idle
  <2>2. task'[s] = r
    BY <1>1, <1>2 DEF AcceptRequest
  <2> HIDE DEF r
  <2>3. plan[s].route \in {None} \cup DOMAIN Routes
    BY Http3Assumption DEF FilesInv
  <2> QED
    BY <2>1, <2>2, <2>3, Zenon DEF FilesOK, None
<1>3. CASE BodyTooLarge(s)
  <2> DEFINE r == [t EXCEPT !.at = "sending", !.resp = Reply(413), !.via = "body"]
  <2>1. r.at = "sending" /\ r.via # "handler"
    BY <1>1 DEF Fields
  <2>2. task'[s] = r
    BY <1>1, <1>3 DEF BodyTooLarge
  <2> HIDE DEF r
  <2> QED
    BY <2>1, <2>2, OtherFiles
<1>4. CASE Send(s) \/ StreamFails(s)
  <2>1. /\ task'[s].at \in {"answered", "broken"} /\ task'[s].q = t.q
        /\ task'[s].view = t.view /\ task'[s].via = t.via /\ task'[s].resp = t.resp
    <3>1. CASE Send(s)
      <4>1. task'[s] = [t EXCEPT !.at = "answered"]
        BY <1>1, <3>1 DEF Send
      <4> QED
        BY <1>1, <4>1 DEF Fields
    <3>2. CASE StreamFails(s)
      <4>1. PICK cut : task'[s] = [t EXCEPT !.at = "broken", !.cut = cut]
        BY <1>1, <3>2, Zenon DEF StreamFails
      <4> QED
        BY <1>1, <4>1 DEF Fields
    <3> QED
      BY <1>4, <3>1, <3>2, Zenon
  <2>2. PICK r : r = task'[s]
    OBVIOUS
  <2>3. t.via = "handler" /\ HandlerOf(t).h = "files" =>
             \A i \in Steady(t) : /\ t.resp.status = 200
                                  /\ \E j \in 1..i : t.resp.file \in Served(t, j)
    BY <1>1, Zenon DEF FilesOK
  <2>4. FilesOK(r)
    <3> HIDE DEF t
    <3>1. r.q = t.q /\ r.view = t.view /\ r.at \in {"sending", "answered", "broken"}
      BY <2>1, <2>2, Zenon
    <3>2. r.via = t.via /\ r.resp = t.resp
      BY <2>1, <2>2, Zenon
    <3>3. Right(t, r)
      BY <2>3, <3>2, Zenon DEF Right
    <3> QED
      BY <3>1, <3>3, AnsweredFiles
  <2> QED
    BY <2>2, <2>4
<1> QED
  BY <1>2, <1>3, <1>4

\* Every step of a request keeps its place in the list of fallbacks.
LEMMA StreamKeepsFiles ==
    ASSUME NEW s \in Streams, TasksOK, FilesInv, StreamNext(s), UNCHANGED plan
    PROVE  FilesInv'
<1>1. FilesOK(task[s])
  BY DEF FilesInv
<1>2. FilesOK(task'[s])
  BY <1>1, MetadataFiles, ReadFiles, OtherHandlerFiles, DispatchFiles, EndFiles, Zenon
     DEF StreamNext, Task
<1>3. \A u \in Streams : u # s => task'[u] = task[u]
  BY StreamKinds, KindKeepsTasks
<1> QED
  BY <1>2, <1>3, Zenon DEF FilesInv

\* Init, and every step of the listener, of a deploy or of time, keeps the place
\* of each request in its list.
LEMMA FilesInvariant == Spec => []FilesInv
<1>1. Init => FilesInv
  <2> SUFFICES ASSUME Init PROVE FilesInv
    OBVIOUS
  <2>1. plan \in Plans /\ \A s \in Streams : task[s] = Idle
    BY DEF Init
  <2>2. Idle.at = "idle" /\ Idle.via = None
    BY DEF Idle
  <2> QED
    BY <2>1, <2>2, Zenon DEF FilesInv, FilesOK, None
<1>2. TasksOK /\ FilesInv /\ [Next /\ UNCHANGED plan]_vars => FilesInv'
  <2> SUFFICES ASSUME TasksOK, FilesInv, [Next /\ UNCHANGED plan]_vars PROVE FilesInv'
    OBVIOUS
  <2>1. UNCHANGED plan
    BY Zenon DEF Next, vars
  <2>2. CASE UNCHANGED task
    BY <2>1, <2>2, Zenon DEF FilesInv
  <2>3. ASSUME NEW s \in Streams, StreamNext(s) PROVE FilesInv'
    BY <2>1, <2>3, StreamKeepsFiles
  <2> QED
    BY <2>2, <2>3, Zenon DEF Next, StreamNext, FileChanges, TimePasses, vars
<1>3. Inv => TasksOK
  BY DEF Inv
<1> QED
  BY <1>1, <1>2, <1>3, Http3Invariant, PTL DEF Spec

\* A fallback that is always there is served, or one before it in the list, for
\* any list of fallbacks and any deploys between metadata() and read()
\* (serve_files, try_serve_one).
THEOREM FallbackTheorem == Spec => []FallbackIsServed
<1>1. FilesInv => FallbackIsServed
  BY Zenon DEF FilesInv, FilesOK, FallbackIsServed
<1> QED
  BY <1>1, FilesInvariant, PTL
=============================================================================
