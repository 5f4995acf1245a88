------------------------- MODULE UpstreamPoolProofs -------------------------
(***************************************************************************)
(* Proofs about UpstreamPool for any number of workers and backends, any   *)
(* policy, retry budget, threshold and ejection time.                      *)
(***************************************************************************)
EXTENDS UpstreamPool, FiniteSetTheorems, TLAPS

(* What a worker's locals mean at each of its steps: positions are within   *)
(* the sequence they index, the upstream requests made so far are the tries *)
(* started, but for the one that is still picking, and only a finished      *)
(* forward() has run out of tries.                                          *)
Picking == {"scan", "picked", "least", "send"}
Trying == {"await", "failure", "eject", "reset", "success", "clear"}

LocalsOf(w) ==
  /\ pc[w] = "scan" => at[w] \in 1..N
  /\ pc[w] = "least" => at[w] \in 1..Len(eligible[w])
  /\ pc[w] \in {"least", "send"} \cup Trying => idx[w] \in Targets
  /\ pc[w] \in Picking => tries[w] = sends[w] + 1
  /\ pc[w] \in Trying => tries[w] = sends[w]
  /\ pc[w] = "idle" => sends[w] <= TotalTries
  /\ outcome[w] = "RETRY_EXHAUSTED" => pc[w] = "idle" /\ sends[w] = TotalTries

Locals == \A w \in Workers : LocalsOf(w)

(* Only worker w moves. *)
Others(w) == \A v \in Workers : v # w => pc'[v] = pc[v] /\ idx'[v] = idx[v]

(* total_tries of forward() is at least one. *)
LEMMA TotalTriesType == TotalTries \in Nat \ {0}
  BY PoolAssumption DEF TotalTries

(* The worker sets that the counters are compared with are finite. *)
LEMMA FiniteGroups ==
  \A t : /\ IsFiniteSet(Sending(t)) /\ Cardinality(Sending(t)) \in Nat
         /\ IsFiniteSet(Ejecting(t)) /\ Cardinality(Ejecting(t)) \in Nat
  BY PoolAssumption, FS_Subset, FS_CardinalityType DEF Sending, Ejecting

----------------------------------------------------------------------------
(* Counting: which steps change the groups of workers a counter stands for. *)

(* Steps that neither start nor end an upstream request. *)
LEMMA SendingKept ==
  ASSUME NEW w \in Workers, Others(w), pc[w] # "await", pc'[w] # "await"
  PROVE  \A t : Sending(t)' = Sending(t)
  BY DEF Sending, Others

(* Steps that neither start nor end an ejection. *)
LEMMA EjectingKept ==
  ASSUME NEW w \in Workers, Others(w),
         \/ pc[w] \notin {"eject", "reset"} /\ pc'[w] \notin {"eject", "reset"}
         \/ pc[w] \in {"eject", "reset"} /\ pc'[w] \in {"eject", "reset"} /\ idx'[w] = idx[w]
  PROVE  \A t : Ejecting(t)' = Ejecting(t)
  BY DEF Ejecting, Others

(* A worker that leaves the wire leaves the group of its backend. *)
LEMMA SendingLeaves ==
  ASSUME NEW w \in Workers, Others(w), pc[w] = "await", pc'[w] # "await", NEW t
  PROVE  IF t = idx[w] THEN Cardinality(Sending(t)') = Cardinality(Sending(t)) - 1
                       ELSE Sending(t)' = Sending(t)
<1>1. Sending(t)' = Sending(t) \ {w}
  BY DEF Sending, Others
<1>2. t = idx[w] <=> w \in Sending(t)
  BY DEF Sending
<1>3. IsFiniteSet(Sending(t))
  BY FiniteGroups
<1>4. w \in Sending(t) => Cardinality(Sending(t) \ {w}) = Cardinality(Sending(t)) - 1
  BY <1>3, FS_RemoveElement, Zenon
<1> QED
  BY <1>1, <1>2, <1>4

(* A worker that sends joins the group of its backend. *)
LEMMA SendingJoins ==
  ASSUME NEW w \in Workers, Others(w), pc[w] # "await", pc'[w] = "await", idx'[w] = idx[w], NEW t
  PROVE  IF t = idx[w] THEN Cardinality(Sending(t)') = Cardinality(Sending(t)) + 1
                       ELSE Sending(t)' = Sending(t)
<1>1. t = idx[w] => Sending(t)' = Sending(t) \cup {w}
  BY DEF Sending, Others
<1>2. t # idx[w] => Sending(t)' = Sending(t)
  BY DEF Sending, Others
<1>3. IsFiniteSet(Sending(t)) /\ w \notin Sending(t)
  BY FiniteGroups, Zenon DEF Sending
<1>4. Cardinality(Sending(t) \cup {w}) = Cardinality(Sending(t)) + 1
  BY <1>3, FS_AddElement, Zenon
<1> QED
  BY <1>1, <1>2, <1>4

(* A failure that reaches the threshold joins the ejections of its backend. *)
LEMMA EjectingJoins ==
  ASSUME NEW w \in Workers, Others(w), pc[w] = "failure", pc'[w] = "eject", idx'[w] = idx[w], NEW t
  PROVE  IF t = idx[w] THEN Cardinality(Ejecting(t)') = Cardinality(Ejecting(t)) + 1
                       ELSE Ejecting(t)' = Ejecting(t)
<1>1. t = idx[w] => Ejecting(t)' = Ejecting(t) \cup {w}
  BY DEF Ejecting, Others
<1>2. t # idx[w] => Ejecting(t)' = Ejecting(t)
  BY DEF Ejecting, Others
<1>3. IsFiniteSet(Ejecting(t)) /\ w \notin Ejecting(t)
  BY FiniteGroups, Zenon DEF Ejecting
<1>4. Cardinality(Ejecting(t) \cup {w}) = Cardinality(Ejecting(t)) + 1
  BY <1>3, FS_AddElement, Zenon
<1> QED
  BY <1>1, <1>2, <1>4

(* Steps that neither send, answer nor drop a request. *)
LEMMA InflightKept ==
  ASSUME InflightAccountsForRequests, NEW w \in Workers, Others(w),
         pc[w] # "await", pc'[w] # "await", UNCHANGED <<inflight, leaked>>
  PROVE  InflightAccountsForRequests'
  BY SendingKept DEF InflightAccountsForRequests

(* forward() sends: inflight_inc and the new request balance. *)
LEMMA InflightSent ==
  ASSUME TypeOK, InflightAccountsForRequests, NEW w \in Workers, Others(w),
         pc[w] # "await", pc'[w] = "await", idx'[w] = idx[w], UNCHANGED leaked,
         \A t \in Targets : inflight'[t] = IF t = idx[w] THEN inflight[t] + 1 ELSE inflight[t]
  PROVE  InflightAccountsForRequests'
<1> SUFFICES ASSUME NEW t \in Targets
             PROVE  inflight'[t] = Cardinality(Sending(t)') + leaked'[t]
  BY DEF InflightAccountsForRequests
<1>1. inflight[t] = Cardinality(Sending(t)) + leaked[t] /\ leaked[t] \in Nat
  BY DEF InflightAccountsForRequests, TypeOK
<1>2. Cardinality(Sending(t)) \in Nat
  BY FiniteGroups
<1>3. IF t = idx[w] THEN Cardinality(Sending(t)') = Cardinality(Sending(t)) + 1
                    ELSE Sending(t)' = Sending(t)
  BY SendingJoins
<1> QED
  BY <1>1, <1>2, <1>3

(* An answer: inflight_dec and the finished request balance. *)
LEMMA InflightAnswered ==
  ASSUME TypeOK, InflightAccountsForRequests, NEW w \in Workers, Others(w),
         pc[w] = "await", pc'[w] # "await", UNCHANGED leaked,
         \A t \in Targets : inflight'[t] = IF t = idx[w] THEN inflight[t] - 1 ELSE inflight[t]
  PROVE  InflightAccountsForRequests'
<1> SUFFICES ASSUME NEW t \in Targets
             PROVE  inflight'[t] = Cardinality(Sending(t)') + leaked'[t]
  BY DEF InflightAccountsForRequests
<1>1. inflight[t] = Cardinality(Sending(t)) + leaked[t] /\ leaked[t] \in Nat
  BY DEF InflightAccountsForRequests, TypeOK
<1>2. Cardinality(Sending(t)) \in Nat
  BY FiniteGroups
<1>3. IF t = idx[w] THEN Cardinality(Sending(t)') = Cardinality(Sending(t)) - 1
                    ELSE Sending(t)' = Sending(t)
  BY SendingLeaves
<1> QED
  BY <1>1, <1>2, <1>3

(* A dropped request leaves its increment behind, as a leak. *)
LEMMA InflightLeaked ==
  ASSUME TypeOK, InflightAccountsForRequests, NEW w \in Workers, Others(w),
         pc[w] = "await", pc'[w] # "await", UNCHANGED inflight,
         \A t \in Targets : leaked'[t] = IF t = idx[w] THEN leaked[t] + 1 ELSE leaked[t]
  PROVE  InflightAccountsForRequests'
<1> SUFFICES ASSUME NEW t \in Targets
             PROVE  inflight'[t] = Cardinality(Sending(t)') + leaked'[t]
  BY DEF InflightAccountsForRequests
<1>1. inflight[t] = Cardinality(Sending(t)) + leaked[t] /\ leaked[t] \in Nat
  BY DEF InflightAccountsForRequests, TypeOK
<1>2. Cardinality(Sending(t)) \in Nat
  BY FiniteGroups
<1>3. IF t = idx[w] THEN Cardinality(Sending(t)') = Cardinality(Sending(t)) - 1
                    ELSE Sending(t)' = Sending(t)
  BY SendingLeaves
<1> QED
  BY <1>1, <1>2, <1>3

(* Steps that count no failure and neither start nor end an ejection. *)
LEMMA FailuresKept ==
  ASSUME FailureCountBounded, NEW w \in Workers, Others(w), UNCHANGED fails,
         \/ pc[w] \notin {"eject", "reset"} /\ pc'[w] \notin {"eject", "reset"}
         \/ pc[w] \in {"eject", "reset"} /\ pc'[w] \in {"eject", "reset"} /\ idx'[w] = idx[w]
  PROVE  FailureCountBounded'
  BY EjectingKept DEF FailureCountBounded

(* record_failure: the counter grows by one, and either stays below the     *)
(* threshold or its worker starts an ejection.                              *)
LEMMA FailureCounted ==
  ASSUME TypeOK, FailureCountBounded, NEW w \in Workers, Others(w), pc[w] = "failure",
         IF fails[idx[w]] + 1 >= Threshold
         THEN pc'[w] = "eject" /\ idx'[w] = idx[w]
         ELSE pc'[w] \in {"idle", "scan", "picked"},
         \A t \in Targets : fails'[t] = IF t = idx[w] THEN fails[t] + 1 ELSE fails[t]
  PROVE  FailureCountBounded'
<1> SUFFICES ASSUME NEW t \in Targets
             PROVE  fails'[t] < (IF Threshold > 1 THEN Threshold ELSE 1) + Cardinality(Ejecting(t)')
  BY DEF FailureCountBounded
<1>1. fails[t] < (IF Threshold > 1 THEN Threshold ELSE 1) + Cardinality(Ejecting(t))
  BY DEF FailureCountBounded
<1>2. fails[t] \in Nat /\ Threshold \in Nat /\ Cardinality(Ejecting(t)) \in Nat
  BY FiniteGroups, PoolAssumption, Zenon DEF TypeOK
<1>3. CASE fails[idx[w]] + 1 >= Threshold
  <2>1. IF t = idx[w] THEN Cardinality(Ejecting(t)') = Cardinality(Ejecting(t)) + 1
                      ELSE Ejecting(t)' = Ejecting(t)
    BY <1>3, EjectingJoins
  <2> QED
    BY <1>1, <1>2, <2>1
<1>4. CASE ~(fails[idx[w]] + 1 >= Threshold)
  <2>1. Ejecting(t)' = Ejecting(t)
    BY <1>4, EjectingKept
  <2> QED
    BY <1>1, <1>2, <1>4, <2>1
<1> QED
  BY <1>3, <1>4

(* A streak that is reset is below the threshold, whoever else ejects.      *)
LEMMA FailuresReset ==
  ASSUME TypeOK, FailureCountBounded, NEW w \in Workers, Others(w),
         pc[w] \in {"reset", "success"}, pc'[w] \notin {"eject", "reset"},
         \A t \in Targets : fails'[t] = IF t = idx[w] THEN 0 ELSE fails[t]
  PROVE  FailureCountBounded'
<1> SUFFICES ASSUME NEW t \in Targets
             PROVE  fails'[t] < (IF Threshold > 1 THEN Threshold ELSE 1) + Cardinality(Ejecting(t)')
  BY DEF FailureCountBounded
<1>1. fails[t] < (IF Threshold > 1 THEN Threshold ELSE 1) + Cardinality(Ejecting(t))
  BY DEF FailureCountBounded
<1>2. Threshold \in Nat
  BY PoolAssumption
<1>3. t # idx[w] => Ejecting(t)' = Ejecting(t)
  BY DEF Ejecting, Others
<1>4. Cardinality(Ejecting(t)') \in Nat
  <2>1. Ejecting(t)' \in SUBSET Workers
    BY DEF Ejecting
  <2> QED
    BY <2>1, PoolAssumption, FS_Subset, FS_CardinalityType
<1> QED
  BY <1>1, <1>2, <1>3, <1>4

----------------------------------------------------------------------------
(* Locals: every step leaves each worker's variables as its pc says. *)

(* A request on the wire is counted. *)
LEMMA AwaitCounted ==
  ASSUME TypeOK, Locals, InflightAccountsForRequests, NEW w \in Workers, pc[w] = "await"
  PROVE  inflight[idx[w]] - 1 \in Nat
<1>1. idx[w] \in Targets /\ w \in Sending(idx[w])
  BY DEF Locals, LocalsOf, Sending, Trying
<1>2. Cardinality(Sending(idx[w])) \in Nat /\ Cardinality(Sending(idx[w])) # 0
  BY <1>1, FiniteGroups, FS_EmptySet
<1>3. leaked[idx[w]] \in Nat /\ inflight[idx[w]] = Cardinality(Sending(idx[w])) + leaked[idx[w]]
  BY <1>1 DEF TypeOK, InflightAccountsForRequests
<1> QED
  BY <1>2, <1>3

(* Returning from forward() leaves well-typed, idle locals. *)
LEMMA ReturnLocals ==
  ASSUME TypeOK, Locals, NEW w \in Workers, pc[w] # "idle",
         NEW r \in {"ok", "NO_HEALTHY", "PROTOCOL_ERROR", "CONNECT_TIMEOUT",
                    "RETRY_EXHAUSTED", "cancelled"},
         r = "RETRY_EXHAUSTED" => sends[w] = TotalTries,
         Return(w, r), inflight' \in [Targets -> Nat], fails' \in [Targets -> Nat],
         ejected' \in [Targets -> 0..OpenFor], rr' \in 0..(RRSpan - 1),
         leaked' \in [Targets -> Nat], policy' \in Policies
  PROVE  TypeOK' /\ Locals'
<1> USE PoolAssumption, TotalTriesType
<1>0. 0 \in 0..TotalTries /\ <<>> \in Seq(Targets)
  OBVIOUS
<1>1. TypeOK'
  BY <1>0, Zenon DEF TypeOK, Return
<1>2. Locals'
  <2>1. /\ pc' = [pc EXCEPT ![w] = "idle"] /\ outcome' = [outcome EXCEPT ![w] = r]
        /\ sends' = sends
    BY DEF Return
  <2>2. sends[w] <= TotalTries
    <3>1. sends[w] \in Nat /\ tries[w] \in 0..TotalTries /\ pc[w] \in Picking \cup Trying
      BY DEF TypeOK, Picking, Trying
    <3>2. tries[w] = sends[w] + 1 \/ tries[w] = sends[w]
      BY <3>1 DEF Locals, LocalsOf
    <3> QED
      BY <3>1, <3>2
  <2>3. ASSUME NEW v \in Workers, v # w
        PROVE  /\ pc'[v] = pc[v] /\ at'[v] = at[v] /\ eligible'[v] = eligible[v] /\ idx'[v] = idx[v]
               /\ tries'[v] = tries[v] /\ sends'[v] = sends[v] /\ outcome'[v] = outcome[v]
    BY <2>3 DEF TypeOK, Return
  <2>4. pc'[w] = "idle" /\ outcome'[w] = r /\ sends'[w] = sends[w]
    BY <2>1 DEF TypeOK
  <2>5. LocalsOf(w)'
    BY <2>2, <2>4, Zenon DEF LocalsOf, Picking, Trying
  <2>6. ASSUME NEW v \in Workers, v # w
        PROVE  LocalsOf(v)'
    <3>1. LocalsOf(v)
      BY DEF Locals
    <3> QED
      BY <2>3, <2>6, <3>1, Zenon DEF LocalsOf
  <2> QED
    BY <2>5, <2>6, Zenon DEF Locals
<1> QED
  BY <1>1, <1>2

(* The pool's own variables keep their types. *)
PoolTyped == /\ inflight \in [Targets -> Nat]
             /\ fails \in [Targets -> Nat]
             /\ ejected \in [Targets -> 0..OpenFor]
             /\ rr \in 0..(RRSpan - 1)
             /\ leaked \in [Targets -> Nat]
             /\ policy \in Policies

(* What % returns: an index below the modulus. *)
LEMMA ModRange == \A a \in Nat, b \in Nat \ {0} : a % b \in 0..(b - 1)
  OBVIOUS

(* The scan position after one that is not the last. *)
LEMMA NextInRange == \A n \in Nat : \A k \in 1..n : k # n => k + 1 \in 1..n
  OBVIOUS

(* Returning moves only worker w, to idle. *)
LEMMA ReturnOthers ==
  ASSUME TypeOK, NEW w \in Workers, NEW r, Return(w, r)
  PROVE  Others(w) /\ pc'[w] = "idle"
  BY DEF TypeOK, Return, Others

(* A failed try either returns or starts the next pick, within the budget. *)
LEMMA AfterFailureLocals ==
  ASSUME TypeOK, Locals, NEW w \in Workers, pc[w] \in {"failure", "eject", "reset"},
         AfterFailure(w), PoolTyped'
  PROVE  TypeOK' /\ Locals' /\ Others(w) /\ pc'[w] \in {"idle", "scan", "picked"}
<1>1. CASE Return(w, "CONNECT_TIMEOUT")
  <2>1. TypeOK' /\ Locals'
    BY <1>1, ReturnLocals DEF PoolTyped
  <2> QED
    BY <1>1, <2>1, ReturnOthers
<1>2. CASE tries[w] >= TotalTries /\ Return(w, "RETRY_EXHAUSTED")
  <2>0. sends[w] = TotalTries
    BY <1>2, TotalTriesType DEF TypeOK, Locals, LocalsOf, Trying
  <2>1. TypeOK' /\ Locals'
    BY <1>2, <2>0, ReturnLocals DEF PoolTyped
  <2> QED
    BY <1>2, <2>1, ReturnOthers
<1>3. CASE /\ ~(tries[w] >= TotalTries)
           /\ StartPick(w)
           /\ tries' = [tries EXCEPT ![w] = @ + 1]
           /\ idx' = [idx EXCEPT ![w] = 0]
           /\ answer' = [answer EXCEPT ![w] = "none"]
           /\ UNCHANGED <<low, outcome, sends>>
  <2>0. <<>> \in Seq(Targets) /\ tries[w] + 1 \in 0..TotalTries
    BY <1>3, TotalTriesType DEF TypeOK
  <2>1. TypeOK'
    BY <1>3, <2>0, Zenon DEF TypeOK, StartPick, PoolTyped
  <2>a. \A v \in Workers :
            outcome'[v] = "RETRY_EXHAUSTED" => pc'[v] = "idle" /\ sends'[v] = TotalTries
    BY <1>3 DEF TypeOK, Locals, LocalsOf, StartPick
  <2>b. /\ pc'[w] = "scan" => at'[w] \in 1..N
        /\ pc'[w] \in {"scan", "picked"}
        /\ tries'[w] = sends'[w] + 1
    BY <1>3, PoolAssumption DEF TypeOK, Locals, LocalsOf, StartPick, Trying
  <2>c. \A v \in Workers : v # w => /\ pc'[v] = pc[v] /\ at'[v] = at[v] /\ idx'[v] = idx[v]
                                     /\ eligible'[v] = eligible[v] /\ tries'[v] = tries[v]
                                     /\ sends'[v] = sends[v]
    BY <1>3 DEF TypeOK, StartPick
  <2>2. Locals'
    BY <2>a, <2>b, <2>c DEF Locals, LocalsOf, Picking, Trying
  <2>3. Others(w) /\ pc'[w] \in {"idle", "scan", "picked"}
    BY <1>3 DEF StartPick, TypeOK, Others
  <2> QED
    BY <2>1, <2>2, <2>3
<1> QED
  BY <1>1, <1>2, <1>3 DEF AfterFailure

(* A step that touches no counter of a backend. *)
Quiet(w) == /\ Others(w)
            /\ pc[w] \notin Trying /\ pc'[w] \notin Trying
            /\ UNCHANGED <<inflight, fails, leaked>>

(* A request that enters forward(). *)
LEMMA BeginLocals ==
  ASSUME TypeOK, Locals, NEW w \in Workers, Begin(w)
  PROVE  TypeOK' /\ Locals' /\ Quiet(w)
<1>0. <<>> \in Seq(Targets) /\ 1 \in 0..TotalTries
  BY TotalTriesType
<1>1. TypeOK'
  BY <1>0 DEF TypeOK, Begin, StartPick, pool
<1>2. Locals'
  BY PoolAssumption, TotalTriesType DEF TypeOK, Locals, LocalsOf, Begin, StartPick, Picking, Trying
<1>3. Quiet(w)
  BY DEF TypeOK, Begin, StartPick, pool, Others, Quiet, Trying
<1> QED
  BY <1>1, <1>2, <1>3

(* pick looks at one backend: only candidates of the pool are collected. *)
LEMMA ScanLocals ==
  ASSUME TypeOK, Locals, NEW w \in Workers, Scan(w)
  PROVE  TypeOK' /\ Locals' /\ Quiet(w)
<1>0. at[w] \in 1..N /\ N \in Nat /\ Append(eligible[w], at[w]) \in Seq(Targets)
  BY PoolAssumption DEF TypeOK, Locals, LocalsOf, Scan, Targets
<1>a. eligible' \in [Workers -> Seq(Targets)]
  BY <1>0 DEF TypeOK, Scan
<1>b. at' \in [Workers -> Nat]
  BY <1>0 DEF TypeOK, Scan
<1>1. TypeOK'
  BY <1>a, <1>b DEF TypeOK, Scan, pool
<1>c. \A v \in Workers :
          outcome'[v] = "RETRY_EXHAUSTED" => pc'[v] = "idle" /\ sends'[v] = TotalTries
  BY DEF TypeOK, Locals, LocalsOf, Scan
<1>d. /\ pc'[w] = "scan" => at'[w] \in 1..N
      /\ pc'[w] \in {"scan", "picked"}
      /\ tries'[w] = sends'[w] + 1
  BY <1>0 DEF TypeOK, Locals, LocalsOf, Scan, Picking
<1>e. \A v \in Workers : v # w => /\ pc'[v] = pc[v] /\ at'[v] = at[v] /\ idx'[v] = idx[v]
                                   /\ eligible'[v] = eligible[v] /\ tries'[v] = tries[v]
                                   /\ sends'[v] = sends[v]
  BY DEF TypeOK, Scan
<1>2. Locals'
  BY <1>c, <1>d, <1>e DEF Locals, LocalsOf, Picking, Trying
<1>3. Quiet(w)
  BY DEF TypeOK, Scan, pool, Others, Quiet, Trying
<1> QED
  BY <1>1, <1>2, <1>3

(* pick returns a backend and drops its locals. *)
LEMMA PickReturnsLocals ==
  ASSUME TypeOK, Locals, NEW w \in Workers, pc[w] \in {"picked", "least"}, PickReturns(w),
         idx' \in [Workers -> Targets \cup {0}], idx'[w] \in Targets,
         \A v \in Workers : v # w => idx'[v] = idx[v],
         rr' \in 0..(RRSpan - 1),
         UNCHANGED <<inflight, fails, ejected, tries, answer, outcome, sends, leaked, policy>>
  PROVE  TypeOK' /\ Locals' /\ Quiet(w)
<1>0. <<>> \in Seq(Targets)
  OBVIOUS
<1>1. TypeOK'
  BY <1>0, Zenon DEF TypeOK, PickReturns
<1>2. Locals'
  BY Zenon DEF TypeOK, Locals, LocalsOf, PickReturns, Picking, Trying
<1>3. Quiet(w)
  BY DEF TypeOK, PickReturns, Others, Quiet, Trying
<1> QED
  BY <1>1, <1>2, <1>3

(* pick goes on to another candidate. *)
LEMMA PickGoesOnLocals ==
  ASSUME TypeOK, Locals, NEW w \in Workers, pc[w] \in {"picked", "least"},
         NEW next \in 1..Len(eligible[w]), NEW least \in Nat, PickGoesOn(w, next, least),
         idx' \in [Workers -> Targets \cup {0}], idx'[w] \in Targets,
         \A v \in Workers : v # w => idx'[v] = idx[v],
         rr' \in 0..(RRSpan - 1),
         UNCHANGED <<inflight, fails, ejected, tries, answer, outcome, sends, leaked, policy>>
  PROVE  TypeOK' /\ Locals' /\ Quiet(w)
<1>0. next \in Nat
  BY DEF TypeOK
<1>1. TypeOK'
  BY <1>0, Zenon DEF TypeOK, PickGoesOn
<1>2. Locals'
  BY Zenon DEF TypeOK, Locals, LocalsOf, PickGoesOn, Picking, Trying
<1>3. Quiet(w)
  BY Zenon DEF TypeOK, PickGoesOn, Others, Quiet, Trying
<1> QED
  BY <1>1, <1>2, <1>3, Zenon

(* pick indexes the candidates modulo their number: always in range. *)
LEMMA ChooseLocals ==
  ASSUME TypeOK, Locals, NEW w \in Workers, Choose(w)
  PROVE  TypeOK' /\ Locals' /\ Quiet(w)
<1>0. Position(w) \in Nat
  <2>1. rr \in Nat /\ ClientHash[w] \in Nat /\ RRSpan \in Nat \ {0}
    BY PoolAssumption DEF TypeOK
  <2>2. rr * Multiplier \in Nat
    BY <2>1 DEF Multiplier
  <2>3. (rr * Multiplier) % RRSpan \in Nat
    BY <2>1, <2>2, ModRange
  <2> QED
    BY <2>1, <2>3 DEF Position
<1>1. Len(eligible[w]) \in Nat \ {0} /\ eligible[w] \in Seq(Targets)
  BY DEF Choose, TypeOK
<1>2. eligible[w][1 + (Position(w) % Len(eligible[w]))] \in Targets
  <2>1. Position(w) % Len(eligible[w]) \in 0..(Len(eligible[w]) - 1)
    BY <1>0, <1>1, ModRange, Zenon
  <2>2. 1 + (Position(w) % Len(eligible[w])) \in 1..Len(eligible[w])
    BY <1>1, <2>1
  <2> QED
    BY <1>1, <2>2
<1>3. rr' \in 0..(RRSpan - 1)
  <2>1. rr \in 0..(RRSpan - 1) /\ RRSpan \in Nat \ {0} /\ rr + 1 \in Nat
    BY PoolAssumption DEF TypeOK
  <2>2. (rr + 1) % RRSpan \in 0..(RRSpan - 1)
    BY <2>1, ModRange
  <2> QED
    BY <2>1, <2>2 DEF Choose
<1>4. PickReturns(w) /\ pc[w] = "picked"
  BY DEF Choose
<1>5. /\ idx' \in [Workers -> Targets \cup {0}] /\ idx'[w] \in Targets
      /\ \A v \in Workers : v # w => idx'[v] = idx[v]
  BY <1>2 DEF TypeOK, Choose
<1>6. UNCHANGED <<inflight, fails, ejected, tries, answer, outcome, sends, leaked, policy>>
  BY DEF Choose
<1> QED
  BY <1>3, <1>4, <1>5, <1>6, PickReturnsLocals

(* pick compares the candidates' counters one after the other. *)
LEMMA LeastConnLocals ==
  ASSUME TypeOK, Locals, NEW w \in Workers, LeastConnBegin(w) \/ LeastConnNext(w)
  PROVE  TypeOK' /\ Locals' /\ Quiet(w)
<1>0. UNCHANGED <<inflight, fails, ejected, rr, tries, answer, outcome, sends, leaked, policy>>
  BY DEF LeastConnBegin, LeastConnNext, pool
<1>a. rr' \in 0..(RRSpan - 1)
  BY <1>0 DEF TypeOK
<1>1. CASE LeastConnBegin(w)
  <2>1. Len(eligible[w]) \in Nat \ {0} /\ eligible[w] \in Seq(Targets)
    BY <1>1 DEF LeastConnBegin, TypeOK
  <2>2. eligible[w][1] \in Targets /\ 1 \in 1..Len(eligible[w])
    BY <2>1
  <2>3. Len(eligible[w]) # 1 => 1 + 1 \in 1..Len(eligible[w])
    BY <2>1, <2>2, NextInRange, Zenon
  <2>4. /\ idx' \in [Workers -> Targets \cup {0}] /\ idx'[w] \in Targets
        /\ \A v \in Workers : v # w => idx'[v] = idx[v]
        /\ pc[w] = "picked" /\ inflight[eligible[w][1]] \in Nat
    BY <1>1, <2>2 DEF LeastConnBegin, TypeOK
  <2>5. CASE PickReturns(w)
    BY <1>0, <1>a, <2>4, <2>5, PickReturnsLocals
  <2>6. CASE Len(eligible[w]) # 1 /\ PickGoesOn(w, 2, inflight[eligible[w][1]])
    BY <1>0, <1>a, <2>3, <2>4, <2>6, PickGoesOnLocals
  <2> QED
    BY <1>1, <2>5, <2>6 DEF LeastConnBegin
<1>2. CASE LeastConnNext(w)
  <2>1. eligible[w] \in Seq(Targets) /\ at[w] \in 1..Len(eligible[w]) /\ Len(eligible[w]) \in Nat
    BY <1>2 DEF LeastConnNext, TypeOK, Locals, LocalsOf
  <2>2. eligible[w][at[w]] \in Targets
    BY <2>1
  <2>3. /\ idx[w] \in Targets /\ pc[w] = "least"
        /\ inflight[eligible[w][at[w]]] \in Nat /\ low[w] \in Nat
    BY <1>2, <2>2 DEF LeastConnNext, TypeOK, Locals, LocalsOf
  <2>4. /\ idx' \in [Workers -> Targets \cup {0}] /\ idx'[w] \in Targets
        /\ \A v \in Workers : v # w => idx'[v] = idx[v]
    BY <1>2, <2>2, <2>3, Zenon DEF LeastConnNext, TypeOK
  <2>5. at[w] # Len(eligible[w]) => at[w] + 1 \in 1..Len(eligible[w])
    BY <2>1, NextInRange
  <2>6. CASE PickReturns(w)
    BY <1>0, <1>a, <2>3, <2>4, <2>6, PickReturnsLocals
  <2>7. ASSUME NEW least \in Nat, at[w] # Len(eligible[w]), PickGoesOn(w, at[w] + 1, least)
        PROVE  TypeOK' /\ Locals' /\ Quiet(w)
    BY <1>0, <1>a, <2>3, <2>4, <2>5, <2>7, PickGoesOnLocals
  <2> QED
    BY <1>2, <2>3, <2>6, <2>7, Zenon DEF LeastConnNext
<1> QED
  BY <1>1, <1>2

(* Sending, answering and recording keep the locals. *)
LEMMA SendLocals ==
  ASSUME TypeOK, Locals, NEW w \in Workers, Send(w)
  PROVE  TypeOK' /\ Locals' /\ Others(w)
<1>0. idx[w] \in Targets
  BY DEF Locals, LocalsOf, Send
<1>a. inflight' \in [Targets -> Nat]
  BY <1>0 DEF TypeOK, Send
<1>b. sends' \in [Workers -> Nat]
  BY <1>0 DEF TypeOK, Send
<1>1. TypeOK'
  BY <1>a, <1>b, Zenon DEF TypeOK, Send
<1>2. Locals'
  BY Zenon DEF TypeOK, Locals, LocalsOf, Send, Picking, Trying
<1>3. Others(w)
  BY DEF TypeOK, Send, Others
<1> QED
  BY <1>1, <1>2, <1>3

(* inflight_dec after the await never underflows. *)
LEMMA AnswerLocals ==
  ASSUME TypeOK, Locals, InflightAccountsForRequests, NEW w \in Workers,
         NEW a \in {"ok", "status", "connect"}, Answer(w, a)
  PROVE  TypeOK' /\ Locals' /\ Others(w)
<1>0. idx[w] \in Targets /\ inflight[idx[w]] - 1 \in Nat
  BY AwaitCounted DEF Locals, LocalsOf, Answer, Trying
<1>1. TypeOK'
  BY <1>0, Zenon DEF TypeOK, Answer
<1>2. Locals'
  BY DEF TypeOK, Locals, LocalsOf, Answer, Picking, Trying
<1>3. Others(w)
  BY DEF TypeOK, Answer, Others
<1> QED
  BY <1>1, <1>2, <1>3

(* record_failure counts, and decides whether to eject. *)
LEMMA CountFailureLocals ==
  ASSUME TypeOK, Locals, NEW w \in Workers, CountFailure(w)
  PROVE  /\ TypeOK' /\ Locals' /\ Others(w)
         /\ IF fails[idx[w]] + 1 >= Threshold
            THEN pc'[w] = "eject" /\ idx'[w] = idx[w]
            ELSE pc'[w] \in {"idle", "scan", "picked"}
<1>0. idx[w] \in Targets /\ fails[idx[w]] \in Nat /\ Threshold \in Nat
  BY PoolAssumption DEF Locals, LocalsOf, CountFailure, TypeOK, Trying
<1>1. PoolTyped'
  <2>1. fails' \in [Targets -> Nat]
    BY <1>0 DEF TypeOK, CountFailure
  <2> QED
    BY <2>1 DEF TypeOK, CountFailure, PoolTyped
<1>2. CASE fails[idx[w]] + 1 >= Threshold
  <2>1. pc' = [pc EXCEPT ![w] = "eject"] /\ UNCHANGED locals /\ pc[w] = "failure"
    BY <1>2 DEF CountFailure
  <2>2. TypeOK'
    BY <1>1, <2>1, Zenon DEF TypeOK, locals, PoolTyped
  <2>3. Locals'
    BY <2>1 DEF TypeOK, Locals, LocalsOf, locals, Picking, Trying
  <2>4. Others(w) /\ pc'[w] = "eject" /\ idx'[w] = idx[w]
    BY <2>1 DEF TypeOK, Others, locals
  <2> QED
    BY <1>2, <2>2, <2>3, <2>4
<1>3. CASE ~(fails[idx[w]] + 1 >= Threshold)
  <2>1. AfterFailure(w) /\ pc[w] = "failure"
    BY <1>3 DEF CountFailure
  <2> QED
    BY <1>1, <1>3, <2>1, AfterFailureLocals
<1> QED
  BY <1>2, <1>3, Zenon

(* record_failure ejects for open_for. *)
LEMMA EjectLocals ==
  ASSUME TypeOK, Locals, NEW w \in Workers, Eject(w)
  PROVE  TypeOK' /\ Locals' /\ Others(w)
<1>0. idx[w] \in Targets /\ OpenFor \in 0..OpenFor
  BY PoolAssumption DEF Locals, LocalsOf, Eject, Trying
<1>1. TypeOK'
  BY <1>0, Zenon DEF TypeOK, Eject, locals
<1>2. Locals'
  BY DEF TypeOK, Locals, LocalsOf, Eject, locals, Picking, Trying
<1>3. Others(w)
  BY DEF TypeOK, Eject, Others, locals
<1> QED
  BY <1>1, <1>2, <1>3

(* record_failure's trailing store of zero, and the loop's next try. *)
LEMMA ResetLocals ==
  ASSUME TypeOK, Locals, NEW w \in Workers, ResetAfterEject(w)
  PROVE  TypeOK' /\ Locals' /\ Others(w) /\ pc'[w] \in {"idle", "scan", "picked"}
<1>1. PoolTyped'
  BY Zenon DEF TypeOK, ResetAfterEject, PoolTyped
<1> QED
  BY <1>1, AfterFailureLocals DEF ResetAfterEject

(* record_success ends the streak. *)
LEMMA SuccessLocals ==
  ASSUME TypeOK, Locals, NEW w \in Workers, ResetStreak(w)
  PROVE  TypeOK' /\ Locals' /\ Others(w)
<1>1. TypeOK'
  BY Zenon DEF TypeOK, ResetStreak, locals
<1>2. Locals'
  BY DEF TypeOK, Locals, LocalsOf, ResetStreak, locals, Picking, Trying
<1>3. Others(w)
  BY DEF TypeOK, ResetStreak, Others, locals
<1> QED
  BY <1>1, <1>2, <1>3

(* The steps that end forward(). *)
LEMMA EndLocals ==
  ASSUME TypeOK, Locals, NEW w \in Workers,
         NoHealthy(w) \/ BuildRequestFails(w) \/ ClearEjection(w) \/ Cancel(w)
  PROVE  TypeOK' /\ Locals' /\ Others(w) /\ pc'[w] = "idle"
<1>1. CASE NoHealthy(w)
  <2>1. PoolTyped' /\ pc[w] # "idle" /\ Return(w, "NO_HEALTHY")
    BY <1>1 DEF NoHealthy, TypeOK, PoolTyped, pool
  <2> QED
    BY <2>1, ReturnLocals, ReturnOthers DEF PoolTyped
<1>2. CASE BuildRequestFails(w)
  <2>1. PoolTyped' /\ pc[w] # "idle" /\ Return(w, "PROTOCOL_ERROR")
    BY <1>2 DEF BuildRequestFails, TypeOK, PoolTyped, pool
  <2> QED
    BY <2>1, ReturnLocals, ReturnOthers DEF PoolTyped
<1>3. CASE ClearEjection(w)
  <2>0. 0 \in 0..OpenFor
    BY PoolAssumption
  <2>1. PoolTyped'
    BY <1>3, <2>0, Zenon DEF ClearEjection, TypeOK, PoolTyped
  <2>2. pc[w] # "idle" /\ Return(w, "ok")
    BY <1>3 DEF ClearEjection
  <2> QED
    BY <2>1, <2>2, ReturnLocals, ReturnOthers DEF PoolTyped
<1>4. CASE Cancel(w)
  <2>0. idx[w] \in Targets
    BY <1>4 DEF Cancel, Locals, LocalsOf, Trying
  <2>a. leaked' \in [Targets -> Nat]
    BY <1>4, <2>0 DEF Cancel, TypeOK
  <2>1. PoolTyped'
    BY <1>4, <2>a DEF Cancel, TypeOK, PoolTyped, pool
  <2>2. pc[w] # "idle" /\ Return(w, "cancelled")
    BY <1>4, Zenon DEF Cancel
  <2> QED
    BY <2>1, <2>2, ReturnLocals, ReturnOthers DEF PoolTyped
<1> QED
  BY <1>1, <1>2, <1>3, <1>4

----------------------------------------------------------------------------
IInv == TypeOK /\ Locals /\ InflightAccountsForRequests /\ FailureCountBounded

(* Every step of a request preserves the invariant. *)
LEMMA RequestStep ==
  ASSUME IInv, NEW w \in Workers, Begin(w) \/ Progress(w) \/ Cancel(w)
  PROVE  IInv'
<1> USE DEF IInv
<1>1. CASE Begin(w) \/ Scan(w) \/ Choose(w) \/ LeastConnBegin(w) \/ LeastConnNext(w)
  <2>1. TypeOK' /\ Locals' /\ Quiet(w)
    BY <1>1, BeginLocals, ScanLocals, ChooseLocals, LeastConnLocals
  <2> QED
    BY <2>1, InflightKept, FailuresKept, Zenon DEF Quiet, Trying
<1>2. CASE NoHealthy(w) \/ BuildRequestFails(w) \/ ClearEjection(w)
  <2>1. TypeOK' /\ Locals' /\ Others(w) /\ pc'[w] = "idle"
    BY <1>2, EndLocals
  <2>2. /\ pc[w] \in {"picked", "send", "clear"}
        /\ UNCHANGED <<inflight, leaked>>
        /\ UNCHANGED fails
    BY <1>2 DEF NoHealthy, BuildRequestFails, ClearEjection, pool
  <2> QED
    BY <2>1, <2>2, InflightKept, FailuresKept
<1>3. CASE Send(w)
  <2>1. TypeOK' /\ Locals' /\ Others(w)
    BY <1>3, SendLocals
  <2>2. /\ pc[w] = "send" /\ pc'[w] = "await" /\ idx'[w] = idx[w]
        /\ \A t \in Targets : inflight'[t] = IF t = idx[w] THEN inflight[t] + 1 ELSE inflight[t]
        /\ UNCHANGED leaked /\ UNCHANGED fails
    BY <1>3 DEF Send, TypeOK
  <2>3. InflightAccountsForRequests'
    BY <2>1, <2>2, InflightSent, Zenon
  <2> QED
    BY <2>1, <2>2, <2>3, FailuresKept, Zenon
<1>4. ASSUME NEW a \in {"ok", "status", "connect"}, Answer(w, a) PROVE IInv'
  <2>1. TypeOK' /\ Locals' /\ Others(w)
    BY <1>4, AnswerLocals
  <2>2. /\ pc[w] = "await" /\ pc'[w] \in {"success", "failure"}
        /\ \A t \in Targets : inflight'[t] = IF t = idx[w] THEN inflight[t] - 1 ELSE inflight[t]
        /\ UNCHANGED leaked /\ UNCHANGED fails
    BY <1>4 DEF Answer, TypeOK
  <2>3. InflightAccountsForRequests'
    BY <2>1, <2>2, InflightAnswered, Zenon
  <2> QED
    BY <2>1, <2>2, <2>3, FailuresKept, Zenon
<1>5. CASE Cancel(w)
  <2>1. TypeOK' /\ Locals' /\ Others(w) /\ pc'[w] = "idle"
    BY <1>5, EndLocals
  <2>2. /\ pc[w] = "await"
        /\ \A t \in Targets : leaked'[t] = IF t = idx[w] THEN leaked[t] + 1 ELSE leaked[t]
        /\ UNCHANGED inflight /\ UNCHANGED fails
    BY <1>5 DEF Cancel, TypeOK, pool
  <2>3. InflightAccountsForRequests'
    BY <2>1, <2>2, InflightLeaked, Zenon
  <2> QED
    BY <2>1, <2>2, <2>3, FailuresKept
<1>6. CASE CountFailure(w)
  <2>1. /\ TypeOK' /\ Locals' /\ Others(w)
        /\ IF fails[idx[w]] + 1 >= Threshold
           THEN pc'[w] = "eject" /\ idx'[w] = idx[w]
           ELSE pc'[w] \in {"idle", "scan", "picked"}
    BY <1>6, CountFailureLocals, Zenon
  <2>2. /\ pc[w] = "failure" /\ UNCHANGED <<inflight, leaked>>
        /\ \A t \in Targets : fails'[t] = IF t = idx[w] THEN fails[t] + 1 ELSE fails[t]
    BY <1>6 DEF CountFailure, TypeOK
  <2>3. FailureCountBounded'
    BY <2>1, <2>2, FailureCounted, Zenon
  <2>4. pc'[w] # "await"
    BY <2>1
  <2> QED
    BY <2>1, <2>2, <2>3, <2>4, InflightKept
<1>7. CASE Eject(w)
  <2>1. TypeOK' /\ Locals' /\ Others(w)
    BY <1>7, EjectLocals
  <2>2. /\ pc[w] = "eject" /\ pc'[w] = "reset" /\ idx'[w] = idx[w]
        /\ UNCHANGED <<inflight, leaked>> /\ UNCHANGED fails
    BY <1>7 DEF Eject, TypeOK, locals
  <2> QED
    BY <2>1, <2>2, InflightKept, FailuresKept, Zenon
<1>8. CASE ResetAfterEject(w) \/ ResetStreak(w)
  <2>1. /\ TypeOK' /\ Locals' /\ Others(w)
        /\ pc'[w] \in {"idle", "scan", "picked", "clear"}
    <3>1. ResetStreak(w) => pc'[w] = "clear"
      BY DEF ResetStreak, TypeOK
    <3> QED
      BY <1>8, <3>1, ResetLocals, SuccessLocals
  <2>2. /\ pc[w] \in {"reset", "success"} /\ UNCHANGED <<inflight, leaked>>
        /\ \A t \in Targets : fails'[t] = IF t = idx[w] THEN 0 ELSE fails[t]
    BY <1>8 DEF ResetAfterEject, ResetStreak, TypeOK
  <2>3. FailureCountBounded'
    BY <2>1, <2>2, FailuresReset, Zenon
  <2>4. pc[w] # "await" /\ pc'[w] # "await"
    BY <2>1, <2>2
  <2> QED
    BY <2>1, <2>2, <2>3, <2>4, InflightKept, Zenon
<1> QED
  BY <1>1, <1>2, <1>3, <1>4, <1>5, <1>6, <1>7, <1>8 DEF Progress

(* The pool starts idle, with every counter at zero. *)
LEMMA InvInit == Init => IInv
<1> SUFFICES ASSUME Init PROVE IInv
  OBVIOUS
<1>0. 0 \in 0..TotalTries /\ <<>> \in Seq(Targets) /\ 0 \in 0..OpenFor /\ 0 \in 0..(RRSpan - 1)
  BY PoolAssumption, TotalTriesType
<1>1. TypeOK
  BY <1>0 DEF Init, TypeOK
<1>2. Locals
  BY TotalTriesType DEF Init, Locals, LocalsOf, Picking, Trying
<1>3. ASSUME NEW t PROVE Cardinality(Sending(t)) = 0 /\ Cardinality(Ejecting(t)) = 0
  <2>1. Sending(t) = {} /\ Ejecting(t) = {}
    BY DEF Init, Sending, Ejecting
  <2> QED
    BY <2>1, FS_EmptySet
<1>5. InflightAccountsForRequests
  BY <1>3 DEF Init, InflightAccountsForRequests
<1>6. FailureCountBounded
  BY <1>3, PoolAssumption DEF Init, FailureCountBounded
<1> QED
  BY <1>1, <1>2, <1>5, <1>6 DEF IInv

(* Every step of the pool preserves the invariant. *)
LEMMA InvStep == IInv /\ [Next]_vars => IInv'
<1> SUFFICES ASSUME IInv, [Next]_vars PROVE IInv'
  OBVIOUS
<1>1. CASE Tick
  <2>1. \A t \in Targets : (IF ejected[t] > 0 THEN ejected[t] - 1 ELSE 0) \in 0..OpenFor
    BY PoolAssumption DEF IInv, TypeOK
  <2>2. ejected' \in [Targets -> 0..OpenFor]
    BY <1>1, <2>1 DEF Tick
  <2>3. TypeOK'
    BY <1>1, <2>2 DEF IInv, TypeOK, Tick, locals
  <2>4. Locals' /\ InflightAccountsForRequests' /\ FailureCountBounded'
    BY <1>1, Zenon DEF IInv, Tick, locals, Locals, LocalsOf, InflightAccountsForRequests,
                FailureCountBounded, Sending, Ejecting
  <2> QED
    BY <2>3, <2>4 DEF IInv
<1>2. CASE UNCHANGED vars
  BY <1>2, Zenon DEF IInv, TypeOK, Locals, LocalsOf, InflightAccountsForRequests, FailureCountBounded,
              Sending, Ejecting, vars, pool, locals
<1> QED
  BY <1>1, <1>2, RequestStep DEF Next

(* The counters, positions and picked backends of pick and record_* keep    *)
(* their types for every pool size and policy.                              *)
THEOREM PoolTypes == Spec => []TypeOK
<1>1. IInv => TypeOK
  BY DEF IInv
<1> QED
  BY <1>1, InvInit, InvStep, PTL DEF Spec

(* inflight_inc and inflight_dec of forward() pair up on every path.        *)
THEOREM InflightTheorem == Spec => []InflightAccountsForRequests
<1>1. IInv => InflightAccountsForRequests
  BY DEF IInv
<1> QED
  BY <1>1, InvInit, InvStep, PTL DEF Spec

(* record_failure's counter stays below the threshold plus the number of    *)
(* ejections in progress.                                                   *)
THEOREM FailureTheorem == Spec => []FailureCountBounded
<1>1. IInv => FailureCountBounded
  BY DEF IInv
<1> QED
  BY <1>1, InvInit, InvStep, PTL DEF Spec

(* forward() never exceeds its budget of max(attempts, 1) upstream requests,*)
(* and gives up for want of tries only when it is spent.                    *)
THEOREM BudgetTheorem == Spec => []SendsWithinBudget
<1>1. IInv => SendsWithinBudget
  <2> SUFFICES ASSUME IInv, NEW w \in Workers
               PROVE  /\ sends[w] <= TotalTries
                      /\ outcome[w] = "RETRY_EXHAUSTED" => sends[w] = TotalTries
    BY DEF SendsWithinBudget
  <2>1. /\ sends[w] \in Nat /\ tries[w] \in 0..TotalTries
        /\ pc[w] \in Picking \cup Trying \cup {"idle"}
    BY DEF IInv, TypeOK, Picking, Trying
  <2>2. tries[w] = sends[w] + 1 \/ tries[w] = sends[w] \/ sends[w] <= TotalTries
    BY <2>1 DEF IInv, Locals, LocalsOf
  <2>3. outcome[w] = "RETRY_EXHAUSTED" => sends[w] = TotalTries
    BY DEF IInv, Locals, LocalsOf
  <2> QED
    BY <2>1, <2>2, <2>3, TotalTriesType
<1> QED
  BY <1>1, InvInit, InvStep, PTL DEF Spec
=============================================================================
