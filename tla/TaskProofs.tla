----------------------------- MODULE TaskProofs -----------------------------
(***************************************************************************)
(* Proofs about two tasks that run beside the request path: the ACME       *)
(* client, and the shutdown of the accept loops.                           *)
(*                                                                         *)
(* ACME, for any number of tasks: no request repeats a nonce.  What a task *)
(* holds is not enough to carry that through a step, so the inductive      *)
(* invariant places every nonce: once in the pool, or with one task, or in *)
(* one response, and nowhere it was sent.  The CA acts at most once on the *)
(* new_order and on the finalize of a task, although signed() sends again; *)
(* there the invariant says which requests the CA cannot have acted on     *)
(* yet, from the method a task is in and the answer it has.                *)
(*                                                                         *)
(* Shutdown, for any listeners, connections, limit and grace: the permits  *)
(* of a listener are in its semaphore, with its open connections or with   *)
(* its loop, and nowhere else.  A connection accepted late is accepted by  *)
(* a loop that polled the lifecycle before the signal, and the loop polls  *)
(* it again before the next one.                                           *)
(***************************************************************************)
EXTENDS Acme, Shutdown, FiniteSetTheorems, TLAPS

(* ACME *)

\* The types the argument needs.
NonceTypes ==
    /\ nonces \in Seq(Names) /\ account \in BOOLEAN
    /\ op \in [Tasks -> Methods \cup {"done", "failed"}]
    /\ at \in [Tasks -> {"nonce", "post", "reply"}]
    /\ held \in [Tasks -> {NoNonce} \cup Names]
    /\ order \in [Tasks -> OrderStatuses]
    /\ resp \in [Tasks -> [result : Results, nonce : {NoNonce} \cup Names]]

\* A task about to send has a nonce, a response not yet read brings one.
NonceAtHand ==
    \A t \in Tasks :
        /\ at[t] = "post" => held[t] # NoNonce
        /\ at[t] = "reply" /\ op[t] \in Methods => resp[t].nonce # NoNonce

\* A nonce is in one place: in the pool once, or held by one task, or in one
\* response, and never on the wire before.
NoncesInOnePlace ==
    /\ \A i, j \in DOMAIN nonces : nonces[i] = nonces[j] => i = j
    /\ \A i \in DOMAIN nonces :
          nonces[i] \notin sent /\ \A t \in Tasks :
              nonces[i] # held[t] /\ nonces[i] # resp[t].nonce
    /\ \A t \in Tasks :
          /\ held[t] # NoNonce => held[t] \notin sent
          /\ resp[t].nonce # NoNonce => resp[t].nonce \notin sent
          /\ \A u \in Tasks :
                /\ held[t] # NoNonce /\ held[t] = held[u] => t = u
                /\ resp[t].nonce # NoNonce /\ resp[t].nonce = resp[u].nonce => t = u
                /\ held[t] # NoNonce => held[t] # resp[u].nonce

NonceInv == NonceTypes /\ NonceAtHand /\ NoncesInOnePlace

-----------------------------------------------------------------------------
\* The answer of the CA is one of the results the client tells apart.
LEMMA ServesType ==
    ASSUME NonceTypes, NEW t \in Tasks, NEW kid \in BOOLEAN
    PROVE  /\ Serves(t, kid).result \in Results
           /\ Serves(t, kid).order \in OrderStatuses
<1>1. order[t] \in OrderStatuses
  BY DEF NonceTypes
<1> QED
  BY <1>1, Zenon DEF Serves, Results, OrderStatuses

\* pop() of a pool that is not empty: the rest of the pool, without its last
\* nonce (nonce).
LEMMA PopNonce ==
    ASSUME NEW S, NEW s \in Seq(S), s # <<>>
    PROVE  LET r == SubSeq(s, 1, Len(s) - 1)
           IN  /\ r \in Seq(S) /\ s[Len(s)] \in S /\ Len(s) \in DOMAIN s
               /\ DOMAIN r = 1..(Len(s) - 1) /\ DOMAIN s = 1..Len(s)
               /\ Len(s) \in Nat \ {0}
               /\ \A i \in DOMAIN r : r[i] = s[i]
  BY SMT

\* push() of a nonce (store_nonce).
LEMMA PushNonce ==
    ASSUME NEW S, NEW s \in Seq(S), NEW n \in S
    PROVE  LET r == Append(s, n)
           IN  /\ r \in Seq(S) /\ DOMAIN r = 1..(Len(s) + 1)
               /\ DOMAIN s = 1..Len(s) /\ Len(s) \in Nat
               /\ r[Len(s) + 1] = n
               /\ \A i \in DOMAIN s : r[i] = s[i]
  BY SMT

-----------------------------------------------------------------------------
(* How the nonces move.                                                    *)

\* Taking the newest nonce moves it from the pool to the task (nonce).
LEMMA TakeKeepsPlaces ==
    ASSUME NonceInv, NEW t \in Tasks, TakeNonce(t)
    PROVE  NoncesInOnePlace'
<1> DEFINE last == nonces[Len(nonces)]
<1>1. nonces \in Seq(Names) /\ nonces # <<>>
  BY DEF NonceInv, NonceTypes, TakeNonce
<1>2. /\ held' = [held EXCEPT ![t] = last]
      /\ nonces' = SubSeq(nonces, 1, Len(nonces) - 1)
      /\ resp' = resp /\ sent' = sent
  BY DEF TakeNonce
<1>3. /\ last \in Names /\ Len(nonces) \in DOMAIN nonces
      /\ DOMAIN nonces' = 1..(Len(nonces) - 1) /\ DOMAIN nonces = 1..Len(nonces)
      /\ Len(nonces) \in Nat \ {0}
      /\ \A i \in DOMAIN nonces' : nonces'[i] = nonces[i]
  BY <1>1, <1>2, PopNonce
<1>4. held \in [Tasks -> {NoNonce} \cup Names]
  BY DEF NonceInv, NonceTypes
<1>5. \A i \in DOMAIN nonces' : i \in DOMAIN nonces /\ nonces'[i] # last
  BY <1>3, SMT DEF NonceInv, NoncesInOnePlace
<1>6. /\ held'[t] = last
      /\ \A u \in Tasks : u # t => held'[u] = held[u]
  BY <1>2, <1>4
<1>7. last # NoNonce
  BY <1>3, AcmeAssumption DEF NoNonce
<1>8. /\ last \notin sent
      /\ \A u \in Tasks : last # held[u] /\ last # resp[u].nonce
  BY <1>3 DEF NonceInv, NoncesInOnePlace
<1>9. \A i, j \in DOMAIN nonces' : nonces'[i] = nonces'[j] => i = j
  BY <1>3, <1>5 DEF NonceInv, NoncesInOnePlace
<1>10. \A i \in DOMAIN nonces' :
          nonces'[i] \notin sent' /\ \A u \in Tasks :
              nonces'[i] # held'[u] /\ nonces'[i] # resp'[u].nonce
  BY <1>2, <1>3, <1>5, <1>6 DEF NonceInv, NoncesInOnePlace
<1>11. \A u \in Tasks :
          /\ held'[u] # NoNonce => held'[u] \notin sent'
          /\ resp'[u].nonce # NoNonce => resp'[u].nonce \notin sent'
          /\ \A v \in Tasks :
                /\ held'[u] # NoNonce /\ held'[u] = held'[v] => u = v
                /\ resp'[u].nonce # NoNonce /\ resp'[u].nonce = resp'[v].nonce => u = v
                /\ held'[u] # NoNonce => held'[u] # resp'[v].nonce
  BY <1>2, <1>6, <1>7, <1>8 DEF NonceInv, NoncesInOnePlace
<1> QED
  BY <1>9, <1>10, <1>11 DEF NoncesInOnePlace

\* A nonce of newNonce is new to everyone (nonce).
LEMMA AskKeepsPlaces ==
    ASSUME NonceInv, NEW t \in Tasks, AskNonce(t)
    PROVE  NoncesInOnePlace'
<1>1. PICK n \in Names : /\ IsFresh(n) /\ held' = [held EXCEPT ![t] = n]
                         /\ sent' = sent \ {n}
  BY Zenon DEF AskNonce
<1>2. nonces' = nonces /\ resp' = resp
  BY DEF AskNonce
<1>3. held \in [Tasks -> {NoNonce} \cup Names]
  BY DEF NonceInv, NonceTypes
<1>4. /\ held'[t] = n
      /\ \A u \in Tasks : u # t => held'[u] = held[u]
  BY <1>1, <1>3
<1>5. /\ \A i \in DOMAIN nonces : nonces[i] # n
      /\ \A u \in Tasks : held[u] # n /\ resp[u].nonce # n
  BY <1>1 DEF IsFresh, NoncesInUse
<1> QED
  BY <1>1, <1>2, <1>4, <1>5 DEF NonceInv, NoncesInOnePlace

\* Sending moves a nonce to the wire and the CA answers with a new one
\* (signed).
LEMMA PostKeepsPlaces ==
    ASSUME NonceInv, NEW t \in Tasks, Post(t)
    PROVE  NoncesInOnePlace'
<1>1. PICK n \in Names :
          /\ IsFresh(n) /\ sent' = (sent \cup {held[t]}) \ {n}
          /\ resp'[t].nonce = n
          /\ \A u \in Tasks : u # t => resp'[u] = resp[u]
  BY DEF Post, NonceInv, NonceTypes
<1>2. nonces' = nonces /\ held' = [held EXCEPT ![t] = NoNonce]
  BY DEF Post
<1>3. /\ held'[t] = NoNonce
      /\ \A u \in Tasks : u # t => held'[u] = held[u]
  BY <1>2 DEF NonceInv, NonceTypes
<1>4. /\ \A i \in DOMAIN nonces : nonces[i] # n
      /\ \A u \in Tasks : held[u] # n /\ resp[u].nonce # n
  BY <1>1 DEF IsFresh, NoncesInUse
<1>5. held[t] # NoNonce
  BY DEF NonceInv, NonceAtHand, Post
<1>6. /\ \A i \in DOMAIN nonces : nonces[i] # held[t]
      /\ \A u \in Tasks : /\ u # t => held[u] # held[t]
                          /\ resp[u].nonce # held[t]
  BY <1>5 DEF NonceInv, NoncesInOnePlace
<1>7. \A i \in DOMAIN nonces' :
          nonces'[i] \notin sent' /\ \A u \in Tasks :
              nonces'[i] # held'[u] /\ nonces'[i] # resp'[u].nonce
  <2>1. \A i \in DOMAIN nonces : nonces[i] # NoNonce
    BY AcmeAssumption DEF NonceInv, NonceTypes, NoNonce
  <2> QED
    BY <1>1, <1>2, <1>3, <1>4, <1>6, <2>1 DEF NonceInv, NoncesInOnePlace
<1>8. \A u \in Tasks :
          /\ held'[u] # NoNonce => held'[u] \notin sent'
          /\ resp'[u].nonce # NoNonce => resp'[u].nonce \notin sent'
          /\ \A v \in Tasks :
                /\ held'[u] # NoNonce /\ held'[u] = held'[v] => u = v
                /\ resp'[u].nonce # NoNonce /\ resp'[u].nonce = resp'[v].nonce => u = v
                /\ held'[u] # NoNonce => held'[u] # resp'[v].nonce
  BY <1>1, <1>3, <1>4, <1>6 DEF NonceInv, NoncesInOnePlace
<1> QED
  BY <1>2, <1>7, <1>8 DEF NonceInv, NoncesInOnePlace

\* The nonce of a response moves to the pool (store_nonce).
LEMMA StoreKeepsPlaces ==
    ASSUME NonceInv, NEW t \in Tasks, at[t] = "reply", op[t] \in Methods,
           StoreNonce(t), resp' = [resp EXCEPT ![t] = NoReply],
           UNCHANGED <<held, sent>>
    PROVE  nonces' \in Seq(Names) /\ NoncesInOnePlace'
<1> DEFINE n == resp[t].nonce
<1>1. n # NoNonce /\ n \in Names /\ nonces \in Seq(Names)
  BY DEF NonceInv, NonceTypes, NonceAtHand
<1>2. nonces' = Append(nonces, n)
  BY DEF StoreNonce
<1>3. /\ nonces' \in Seq(Names) /\ DOMAIN nonces' = 1..(Len(nonces) + 1)
      /\ DOMAIN nonces = 1..Len(nonces) /\ Len(nonces) \in Nat
      /\ nonces'[Len(nonces) + 1] = n
      /\ \A i \in DOMAIN nonces : nonces'[i] = nonces[i]
  BY <1>1, <1>2, PushNonce
<1>4. \A i \in DOMAIN nonces' : i \in DOMAIN nonces \/ i = Len(nonces) + 1
  BY <1>3
<1>5. /\ resp'[t].nonce = NoNonce
      /\ \A u \in Tasks : u # t => resp'[u] = resp[u]
  BY DEF NoReply, NonceInv, NonceTypes
<1>6. /\ n \notin sent
      /\ \A i \in DOMAIN nonces : nonces[i] # n
      /\ \A u \in Tasks : held[u] # n /\ (u # t => resp[u].nonce # n)
  BY <1>1 DEF NonceInv, NoncesInOnePlace
<1>7. \A i \in DOMAIN nonces : nonces[i] # NoNonce
  BY AcmeAssumption DEF NonceInv, NonceTypes, NoNonce
<1>8. \A i, j \in DOMAIN nonces' : nonces'[i] = nonces'[j] => i = j
  BY <1>3, <1>4, <1>6 DEF NonceInv, NoncesInOnePlace
<1>9. \A i \in DOMAIN nonces' :
          nonces'[i] \notin sent' /\ \A u \in Tasks :
              nonces'[i] # held'[u] /\ nonces'[i] # resp'[u].nonce
  BY <1>1, <1>3, <1>4, <1>5, <1>6, <1>7 DEF NonceInv, NoncesInOnePlace
<1>10. \A u \in Tasks :
          /\ held'[u] # NoNonce => held'[u] \notin sent'
          /\ resp'[u].nonce # NoNonce => resp'[u].nonce \notin sent'
          /\ \A v \in Tasks :
                /\ held'[u] # NoNonce /\ held'[u] = held'[v] => u = v
                /\ resp'[u].nonce # NoNonce /\ resp'[u].nonce = resp'[v].nonce => u = v
                /\ held'[u] # NoNonce => held'[u] # resp'[v].nonce
  BY <1>5 DEF NonceInv, NoncesInOnePlace
<1> QED
  BY <1>3, <1>8, <1>9, <1>10 DEF NoncesInOnePlace

\* A task without a response has none of its nonces (signed).
LEMMA NoReplyType == NoReply \in [result : Results, nonce : {NoNonce} \cup Names]
  BY DEF NoReply, Results

\* The nonce of a lost response is nowhere (signed).
LEMMA LostKeepsPlaces ==
    ASSUME NonceInv, NEW t \in Tasks, Lost(t)
    PROVE  NoncesInOnePlace'
<1>1. /\ resp'[t].nonce = NoNonce
      /\ \A u \in Tasks : u # t => resp'[u] = resp[u]
  BY DEF NoReply, NonceInv, NonceTypes, Lost
<1>2. nonces' = nonces /\ held' = held /\ sent' = sent
  BY DEF Lost
<1>3. \A i \in DOMAIN nonces : nonces[i] # NoNonce
  BY AcmeAssumption DEF NonceInv, NonceTypes, NoNonce
<1> QED
  BY <1>1, <1>2, <1>3 DEF NonceInv, NoncesInOnePlace

-----------------------------------------------------------------------------
(* Every step keeps the invariant.                                         *)

\* The methods of a task lead to methods or to its end (After).
LEMMA AfterType ==
    \A m \in Methods : After[m] \in Methods \cup {"done", "failed"}
  BY DEF Methods, After

\* A task that ends or moves on keeps the types, once what moved is typed.
LEMMA SignedKeepsInv ==
    ASSUME NonceInv, NEW t \in Tasks, Signed(t)
    PROVE  NonceInv'
<1> USE DEF NonceInv
<1>1. CASE TakeNonce(t)
  <2>1. NoncesInOnePlace'
    BY <1>1, TakeKeepsPlaces
  <2>2. nonces # <<>> /\ nonces \in Seq(Names)
    BY <1>1 DEF TakeNonce, NonceTypes
  <2>3. nonces[Len(nonces)] \in Names /\ SubSeq(nonces, 1, Len(nonces) - 1) \in Seq(Names)
    BY <2>2, PopNonce
  <2>4. NonceTypes'
    BY <1>1, <2>3 DEF TakeNonce, NonceTypes, ca
  <2>5. NonceAtHand'
    BY <1>1, <2>3, AcmeAssumption DEF TakeNonce, NonceTypes, NonceAtHand, NoNonce
  <2> QED
    BY <2>1, <2>4, <2>5
<1>2. CASE AskNonce(t)
  <2>1. NoncesInOnePlace'
    BY <1>2, AskKeepsPlaces
  <2>2. NonceTypes'
    BY <1>2 DEF AskNonce, NonceTypes
  <2>3. NonceAtHand'
    BY <1>2, AcmeAssumption DEF AskNonce, NonceTypes, NonceAtHand, NoNonce
  <2> QED
    BY <2>1, <2>2, <2>3
<1>3. CASE AskNonceFails(t)
  <2>1. /\ nonces' = nonces /\ held' = held /\ resp' = resp /\ at' = at
        /\ sent' = sent /\ order' = order /\ account' = account
        /\ op' = [op EXCEPT ![t] = "failed"]
    BY <1>3 DEF AskNonceFails, Fail, ca
  <2>2. NonceTypes'
    BY <2>1 DEF NonceTypes
  <2>3. NonceAtHand'
    BY <2>1 DEF NonceAtHand, NonceTypes, Methods, After
  <2> QED
    BY <2>1, <2>2, <2>3 DEF NoncesInOnePlace
<1>4. CASE Post(t)
  <2>1. NoncesInOnePlace'
    BY <1>4, PostKeepsPlaces
  <2> DEFINE answer == IF held[t] \in good THEN Serves(t, account)
                       ELSE [result |-> "badNonce", order |-> order[t]]
  <2>2. answer.result \in Results /\ answer.order \in OrderStatuses
    <3>1. /\ Serves(t, account).result \in Results
          /\ Serves(t, account).order \in OrderStatuses
      BY ServesType DEF NonceTypes
    <3>2. order[t] \in OrderStatuses
      BY DEF NonceTypes
    <3> QED
      BY <3>1, <3>2 DEF Results
  <2>3. PICK n \in Names :
            resp' = [resp EXCEPT ![t] = [result |-> answer.result, nonce |-> n]]
    BY <1>4, Zenon DEF Post
  <2>4. /\ nonces' = nonces /\ op' = op /\ account' = account
        /\ held' = [held EXCEPT ![t] = NoNonce]
        /\ order' = [order EXCEPT ![t] = answer.order]
        /\ at' = [at EXCEPT ![t] = "reply"]
    BY <1>4 DEF Post
  <2> HIDE DEF answer
  <2>5. NonceTypes'
    BY <2>2, <2>3, <2>4 DEF NonceTypes
  <2>6. n # NoNonce
    BY AcmeAssumption DEF NoNonce
  <2>7. NonceAtHand'
    BY <2>3, <2>4, <2>6 DEF NonceTypes, NonceAtHand
  <2> QED
    BY <2>1, <2>5, <2>7
<1>5. CASE Retry(t)
  <2>1. nonces' \in Seq(Names) /\ NoncesInOnePlace'
    BY <1>5, StoreKeepsPlaces, Zenon DEF Retry, ca
  <2>2. NonceTypes'
    BY <1>5, <2>1, NoReplyType DEF Retry, NonceTypes, ca
  <2>3. NonceAtHand'
    BY <1>5 DEF Retry, NonceTypes, NonceAtHand
  <2> QED
    BY <2>1, <2>2, <2>3
<1>6. CASE Lost(t)
  <2>1. NoncesInOnePlace'
    BY <1>6, LostKeepsPlaces
  <2>2. /\ nonces' = nonces /\ held' = held /\ at' = at /\ order' = order
        /\ account' = account /\ op' = [op EXCEPT ![t] = "failed"]
        /\ resp' = [resp EXCEPT ![t] = NoReply]
    BY <1>6 DEF Lost, Fail, ca
  <2>3. NonceTypes'
    BY <2>2, NoReplyType DEF NonceTypes
  <2>4. NonceAtHand'
    BY <2>2 DEF NonceTypes, NonceAtHand, Methods, After
  <2> QED
    BY <2>1, <2>3, <2>4
<1> QED
  BY <1>1, <1>2, <1>3, <1>4, <1>5, <1>6 DEF Signed

\* A method that has its response keeps the invariant, whatever it makes of
\* it.
LEMMA MethodKeepsInv ==
    ASSUME NonceInv, NEW t \in Tasks, Method(t)
    PROVE  NonceInv'
<1> USE DEF NonceInv
<1>1. Answered(t)
  BY DEF Method, Refused, RegisterAccount, Accepted, Http01Challenge, PollOrder,
         DownloadCertificate
<1>2. /\ op[t] \in Methods /\ at[t] = "reply" /\ StoreNonce(t)
      /\ at' = [at EXCEPT ![t] = "nonce"]
      /\ resp' = [resp EXCEPT ![t] = NoReply]
      /\ held' = held /\ sent' = sent /\ order' = order
  BY <1>1 DEF Answered, ca
<1>3. nonces' \in Seq(Names) /\ NoncesInOnePlace'
  BY <1>2, StoreKeepsPlaces, Zenon
<1>4. account' \in BOOLEAN
  BY Zenon DEF Method, Refused, RegisterAccount, Accepted, Http01Challenge, PollOrder,
         DownloadCertificate, NonceTypes
<1>5. op' \in [Tasks -> Methods \cup {"done", "failed"}]
  <2>1. op' = op \/ op' = [op EXCEPT ![t] = "failed"]
                 \/ op' = [op EXCEPT ![t] = After[op[t]]]
    BY DEF Method, Refused, RegisterAccount, Accepted, Http01Challenge,
           PollOrder, DownloadCertificate, Proceed, Fail
  <2>2. After[op[t]] \in Methods \cup {"done", "failed"}
    BY <1>2, AfterType
  <2> QED
    BY <2>1, <2>2, Zenon DEF NonceTypes
<1>6. NonceTypes'
  BY <1>2, <1>3, <1>4, <1>5, NoReplyType, Zenon DEF NonceTypes
<1>7. NonceAtHand'
  <2>1. \A u \in Tasks : u # t => op'[u] = op[u]
    BY DEF Method, Refused, RegisterAccount, Accepted, Http01Challenge,
           PollOrder, DownloadCertificate, Proceed, Fail, NonceTypes
  <2> QED
    BY <1>2, <2>1 DEF NonceTypes, NonceAtHand
<1> QED
  BY <1>3, <1>6, <1>7

\* The CA's own steps touch no nonce of the client.
LEMMA CAKeepsInv ==
    ASSUME NonceInv, CA \/ UNCHANGED acmeVars
    PROVE  NonceInv'
<1>1. /\ nonces' = nonces /\ held' = held /\ resp' = resp /\ at' = at
      /\ sent' = sent /\ op' = op /\ account' = account
  BY DEF CA, ForgetNonces, Validate, Invalidate, Issue, client, acmeVars
<1>2. order' \in [Tasks -> OrderStatuses]
  BY DEF NonceInv, NonceTypes, CA, ForgetNonces, Validate, Invalidate, Issue, acmeVars, ca,
         OrderStatuses
<1> QED
  BY <1>1, <1>2, Zenon DEF NonceInv, NonceTypes, NonceAtHand, NoncesInOnePlace

\* The inductive invariant of the nonce discipline holds in every behaviour.
THEOREM NoncePlaces == AcmeSpec => []NonceInv
<1>1. AcmeInit => NonceInv
  <2> SUFFICES ASSUME AcmeInit PROVE NonceInv
    OBVIOUS
  <2>1. NonceTypes
    <3>1. {"register_account", "new_order"} \subseteq Methods
      BY DEF Methods, After
    <3>2. op \in [Tasks -> Methods \cup {"done", "failed"}]
      BY <3>1 DEF AcmeInit
    <3>0. nonces \in Seq(Names)
      BY SMT DEF AcmeInit
    <3>6. account \in BOOLEAN
      BY Zenon DEF AcmeInit
    <3>3. /\ at \in [Tasks -> {"nonce", "post", "reply"}]
          /\ held \in [Tasks -> {NoNonce} \cup Names]
      BY DEF AcmeInit
    <3>4. order \in [Tasks -> OrderStatuses]
      BY DEF AcmeInit, OrderStatuses
    <3>5. resp \in [Tasks -> [result : Results, nonce : {NoNonce} \cup Names]]
      BY DEF NoReply, AcmeInit, Results
    <3> QED
      BY <3>0, <3>2, <3>3, <3>4, <3>5, <3>6 DEF NonceTypes
  <2>2. NonceAtHand
    BY DEF AcmeInit, NonceAtHand
  <2>3. NoncesInOnePlace
    BY DEF NoReply, AcmeInit, NoncesInOnePlace
  <2> QED
    BY <2>1, <2>2, <2>3 DEF NonceInv
<1>2. NonceInv /\ [AcmeNext]_acmeVars => NonceInv'
  BY SignedKeepsInv, MethodKeepsInv, CAKeepsInv DEF AcmeNext, Task
<1> QED
  BY <1>1, <1>2, PTL DEF AcmeSpec

\* No request of AcmeClient repeats a nonce, for any number of concurrent
\* tasks, lost responses and forgotten nonces (nonce, store_nonce, signed).
THEOREM NonceIsUsedOnce == AcmeSpec => []NonceUsedOnce
<1>1. NonceInv => NonceUsedOnce
  BY DEF NonceInv, NonceAtHand, NoncesInOnePlace, NonceUsedOnce
<1> QED
  BY <1>1, NoncePlaces, PTL
-----------------------------------------------------------------------------
\* The CA has acted on the request of the method a task is in.
Served(t) == at[t] = "reply" /\ resp[t].result = "ok"

\* The methods before the order is finalized.
BeforeFinalize ==
    {"register_account", "new_order", "http01_challenge", "submit_challenge", "poll_ready"}

\* What the CA has done for a task, by the method the task is in.
EffectsOf(t) ==
    /\ effects[t] \in [created : 0..1, finalized : 0..1]
    /\ op[t] = "register_account" \/ (op[t] = "new_order" /\ ~Served(t)) =>
          effects[t].created = 0
    /\ op[t] \in BeforeFinalize \/ (op[t] = "finalize" /\ ~Served(t)) =>
          effects[t].finalized = 0

EffectsInv == DOMAIN effects = Tasks /\ \A t \in Tasks : EffectsOf(t)

\* A request is sent by a task the CA has not answered, so that one more
\* order, or one more finalization, is the first (signed, up to transport).
LEMMA PostEffects ==
    ASSUME NonceInv, EffectsInv, NEW t \in Tasks, Post(t)
    PROVE  EffectsInv'
<1>1. PICK answer, n :
          /\ resp' = [resp EXCEPT ![t] = [result |-> answer.result, nonce |-> n]]
          /\ effects' = [effects EXCEPT ![t] = Counted(t, answer)]
          /\ at[t] = "post" /\ at' = [at EXCEPT ![t] = "reply"] /\ op' = op
  BY Zenon DEF Post
<1>2. /\ DOMAIN resp = Tasks /\ DOMAIN at = Tasks
      /\ DOMAIN effects = Tasks /\ EffectsOf(t)
  BY DEF NonceInv, NonceTypes, EffectsInv
<1>3. /\ resp'[t].result = answer.result /\ at'[t] = "reply" /\ op'[t] = op[t]
      /\ effects'[t] = Counted(t, answer)
      /\ \A u \in Tasks : u # t => /\ resp'[u] = resp[u] /\ at'[u] = at[u]
                                  /\ effects'[u] = effects[u] /\ op'[u] = op[u]
  BY <1>1, <1>2
<1>4. EffectsOf(t)'
  <2>1. CASE answer.result # "ok"
    BY <1>1, <1>2, <1>3, <2>1 DEF EffectsOf, Served, Counted
  <2>2. CASE answer.result = "ok" /\ op[t] = "new_order"
    <3>1. /\ effects[t] \in [created : 0..1, finalized : 0..1]
          /\ effects[t].created = 0 /\ effects[t].finalized = 0
      BY <1>1, <1>2, <2>2 DEF EffectsOf, Served, BeforeFinalize
    <3>2. effects'[t] = [effects[t] EXCEPT !.created = @ + 1]
      BY <1>3, <2>2 DEF Counted
    <3> QED
      BY <1>3, <2>2, <3>1, <3>2 DEF EffectsOf, Served, BeforeFinalize
  <2>3. CASE answer.result = "ok" /\ op[t] = "finalize"
    <3>1. /\ effects[t] \in [created : 0..1, finalized : 0..1]
          /\ effects[t].finalized = 0
      BY <1>1, <1>2, <2>3 DEF EffectsOf, Served
    <3>2. effects'[t] = [effects[t] EXCEPT !.finalized = @ + 1]
      BY <1>3, <2>3 DEF Counted
    <3> QED
      BY <1>3, <2>3, <3>1, <3>2 DEF EffectsOf, Served, BeforeFinalize
  <2>4. CASE answer.result = "ok" /\ op[t] \notin {"new_order", "finalize"}
    <3>1. effects'[t] = effects[t]
      BY <1>3, <2>4 DEF Counted
    <3> QED
      BY <1>2, <1>3, <2>4, <3>1 DEF EffectsOf
  <2> QED
    BY <2>1, <2>2, <2>3, <2>4
<1>5. \A u \in Tasks : u # t => EffectsOf(u)'
  BY <1>3 DEF EffectsInv, EffectsOf, Served
<1> QED
  BY <1>1, <1>2, <1>4, <1>5 DEF EffectsInv

\* A step of the client changes no effect and brings a task to no method the
\* CA may have acted on already: what is sent again was answered badNonce
\* (signed), the next method follows an answer (new_order, finalize).
LEMMA ClientEffects ==
    ASSUME NonceInv, EffectsInv, NEW t \in Tasks, Task(t), ~Post(t)
    PROVE  EffectsInv'
<1>1. effects' = effects
  BY Zenon DEF Task, Signed, Method, TakeNonce, AskNonce, AskNonceFails, Retry, Lost, Refused,
         RegisterAccount, Accepted, Http01Challenge, PollOrder, DownloadCertificate,
         Answered, ca
<1>2. \A u \in Tasks : u # t => op'[u] = op[u] /\ at'[u] = at[u] /\ resp'[u] = resp[u]
  BY Zenon DEF NonceInv, NonceTypes, Task, Signed, Method, TakeNonce, AskNonce, AskNonceFails,
         Retry, Lost, Refused, RegisterAccount, Accepted, Http01Challenge, PollOrder,
         DownloadCertificate, Answered, Fail, Proceed
<1>3. EffectsOf(t)
  BY DEF EffectsInv
<1>4. EffectsOf(t)'
  <2>1. CASE TakeNonce(t) \/ AskNonce(t)
    <3>1. op' = op /\ at[t] = "nonce" /\ at'[t] = "post"
      BY <2>1 DEF TakeNonce, AskNonce, NonceInv, NonceTypes
    <3> QED
      BY <1>1, <1>3, <3>1, Zenon DEF EffectsOf, Served
  <2>2. CASE op'[t] = "failed"
    BY <1>1, <1>3, <2>2, Zenon DEF EffectsOf, BeforeFinalize
  <2>3. CASE Retry(t)
    <3>1. op' = op /\ resp[t].result = "badNonce" /\ at'[t] = "nonce"
      BY <2>3 DEF Retry, NonceInv, NonceTypes
    <3> QED
      BY <1>1, <1>3, <3>1, Zenon DEF EffectsOf, Served
  <2>4. CASE Answered(t) /\ op'[t] = op[t] /\ op[t] \in {"poll_ready", "poll_valid"}
    BY <1>1, <1>3, <2>4 DEF EffectsOf, BeforeFinalize
  <2>5. CASE Answered(t) /\ op'[t] = After[op[t]] /\ op[t] \in Methods
    <3>1. /\ op'[t] # "register_account"
          /\ op'[t] = "new_order" => op[t] = "register_account"
          /\ op'[t] \in BeforeFinalize \cup {"finalize"} => op[t] \in BeforeFinalize
      BY <2>5 DEF BeforeFinalize, After, Methods
    <3>2. op'[t] = "finalize" => op'[t] \notin BeforeFinalize
      BY DEF BeforeFinalize
    <3> QED
      BY <1>1, <1>3, <3>1, <3>2 DEF EffectsOf
  <2>6. Method(t) => /\ Answered(t) /\ op[t] \in Methods
                     /\ \/ op'[t] = "failed" \/ op'[t] = After[op[t]]
                        \/ op'[t] = op[t] /\ op[t] \in {"poll_ready", "poll_valid"}
    BY Zenon DEF NonceInv, NonceTypes, Method, Refused, RegisterAccount, Accepted,
           Http01Challenge, PollOrder, DownloadCertificate, Answered, Fail, Proceed
  <2>7. AskNonceFails(t) \/ Lost(t) => op'[t] = "failed"
    BY DEF NonceInv, NonceTypes, AskNonceFails, Lost, Fail
  <2> QED
    BY <2>1, <2>2, <2>3, <2>4, <2>5, <2>6, <2>7, Zenon DEF Task, Signed
<1>5. ASSUME NEW u \in Tasks, u # t PROVE EffectsOf(u)'
  <2>1. /\ op'[u] = op[u] /\ at'[u] = at[u] /\ resp'[u] = resp[u]
        /\ effects'[u] = effects[u] /\ EffectsOf(u)
    BY <1>1, <1>2, <1>5 DEF EffectsInv
  <2> QED
    BY <2>1 DEF EffectsOf, Served
<1> QED
  BY <1>1, <1>4, <1>5, Zenon DEF EffectsInv

\* However responses are lost and nonces forgotten, a task has at most one
\* order and finalizes it at most once: signed() sends again only what the
\* CA refused to look at.
THEOREM EffectsTheorem == AcmeSpec => []EffectsHappenOnce
<1>1. AcmeInit => EffectsInv
  BY DEF AcmeInit, EffectsInv, EffectsOf, Served
<1>2. NonceInv /\ EffectsInv /\ [AcmeNext]_acmeVars => EffectsInv'
  <2>1. CA \/ UNCHANGED acmeVars => UNCHANGED <<op, at, resp, effects>>
    BY DEF CA, ForgetNonces, Validate, Invalidate, Issue, client, ca, acmeVars
  <2>2. EffectsInv /\ UNCHANGED <<op, at, resp, effects>> => EffectsInv'
    BY Zenon DEF EffectsInv, EffectsOf, Served
  <2> QED
    BY <2>1, <2>2, PostEffects, ClientEffects DEF AcmeNext
<1>3. EffectsInv => EffectsHappenOnce
  BY DEF EffectsInv, EffectsOf, EffectsHappenOnce
<1> QED
  BY <1>1, <1>2, <1>3, NoncePlaces, PTL DEF AcmeSpec

-----------------------------------------------------------------------------
(* Shutdown *)

PCs == {"acquire", "select", "polled", "drain", "returned", "failed"}

(* TypeOK without the upper bound of the permits, which follows from their  *)
(* conservation.                                                            *)
Types == /\ lifecycle \in {"Running", "Draining"}
         /\ available \in [Listeners -> Nat]
         /\ pc \in [Listeners -> PCs]
         /\ home \in [Conns -> Listeners \cup {None}]
         /\ grace \in [Listeners -> 0..Grace]
         /\ serving \in SUBSET Endpoints
         /\ exited \in BOOLEAN
         /\ late \in [Listeners -> Nat]

(* A loop with a late connection has not polled the lifecycle since. *)
LateOnce ==
    \A l \in Listeners :
        late[l] = 0 \/ (late[l] = 1 /\ lifecycle = "Draining" /\ pc[l] # "polled")

SInv == Types /\ SlotsConserved /\ LateOnce

-----------------------------------------------------------------------------
(* Each step keeps the types: a permit is taken only when there is one. *)
LEMMA TypesStep == Types /\ [ShutdownNext]_shutdownVars => Types'
<1> SUFFICES ASSUME Types, [ShutdownNext]_shutdownVars PROVE Types'
  OBVIOUS
<1> USE ShutdownAssumption DEF Types, PCs, Goto
<1>1. ASSUME NEW l \in Listeners, LoopStep(l)
      PROVE  Types'
  <2>1. CASE Acquire(l)
    BY <2>1 DEF Acquire
  <2>2. CASE ObserveDraining(l) \/ PollAccept(l) \/ Sleep(l) \/ AcceptFails(l)
    BY <2>2 DEF ObserveDraining, PollAccept, Sleep, AcceptFails
  <2>3. ASSUME NEW c \in Conns, Accept(l, c)
        PROVE  Types'
    BY <2>3 DEF Accept
  <2>4. CASE Drained(l) \/ DrainExpires(l)
    BY <2>4 DEF Drained, DrainExpires
  <2>5. CASE DrainTick(l)
    BY <2>5 DEF DrainTick
  <2> QED
    BY <1>1, <2>1, <2>2, <2>3, <2>4, <2>5, Zenon DEF LoopStep
<1>2. ASSUME NEW c \in Conns, ConnectionEnds(c)
      PROVE  Types'
  BY <1>2 DEF ConnectionEnds
<1>3. CASE Signal \/ Exit \/ Stopped \/ UNCHANGED shutdownVars
  BY <1>3, Zenon DEF Signal, Exit, Stopped, shutdownVars
<1>4. ASSUME NEW e \in Endpoints, EndpointStops(e)
      PROVE  Types'
  BY <1>4 DEF EndpointStops
<1> QED
  BY <1>1, <1>2, <1>3, <1>4 DEF ShutdownNext

(* The open connections of a listener are finitely many. *)
LEMMA OpenFinite ==
  ASSUME NEW l \in Listeners
  PROVE  IsFiniteSet(Open(l)) /\ Cardinality(Open(l)) \in Nat
  BY ShutdownAssumption, FS_Subset, FS_CardinalityType DEF Open

(* Slots are conserved by every step: what one holder gives up another one  *)
(* gets (serve moves the permit into the handler's task; drop returns it).  *)
LEMMA SlotsStep == Types /\ SlotsConserved /\ [ShutdownNext]_shutdownVars => SlotsConserved'
<1> SUFFICES ASSUME Types, SlotsConserved, [ShutdownNext]_shutdownVars, NEW k \in Listeners
             PROVE  (available[k] + Cardinality(Open(k)) + Held(k) = MaxConnections)'
  BY Zenon DEF SlotsConserved
<1>0. /\ available[k] + Cardinality(Open(k)) + Held(k) = MaxConnections
      /\ available[k] \in Nat /\ Cardinality(Open(k)) \in Nat /\ IsFiniteSet(Open(k))
  BY OpenFinite DEF SlotsConserved, Types
<1>1. ASSUME NEW l \in Listeners, Acquire(l) \/ ObserveDraining(l) \/ PollAccept(l) \/ Sleep(l)
                \/ AcceptFails(l) \/ Drained(l) \/ DrainTick(l) \/ DrainExpires(l)
      PROVE  (available[k] + Cardinality(Open(k)) + Held(k) = MaxConnections)'
  <2>1. Open(k)' = Open(k)
    BY <1>1, Zenon DEF Acquire, ObserveDraining, PollAccept, Sleep, AcceptFails, Drained, DrainTick,
                DrainExpires, Open
  <2>2. available'[k] + Held(k)' = available[k] + Held(k)
    <3>1. CASE Acquire(l)
      BY <1>0, <3>1 DEF Acquire, Held, Goto, Types
    <3>2. CASE ObserveDraining(l) \/ PollAccept(l) \/ Sleep(l)
      BY <1>0, <3>2 DEF ObserveDraining, PollAccept, Sleep, Held, Goto, Types
    <3>3. CASE AcceptFails(l)
      BY <1>0, <3>3 DEF AcceptFails, Held, Goto, Types
    <3>4. CASE Drained(l) \/ DrainTick(l) \/ DrainExpires(l)
      BY <1>0, <3>4 DEF Drained, DrainTick, DrainExpires, Held, Goto, Types
    <3> QED
      BY <1>1, <3>1, <3>2, <3>3, <3>4, Zenon
  <2>3. Held(k) \in Nat /\ Held(k)' \in Nat /\ available'[k] \in Nat
    BY TypesStep DEF Held, Types
  <2>4. available'[k] + Cardinality(Open(k)) + Held(k)' = MaxConnections
    BY <1>0, <2>2, <2>3
  <2> QED
    BY <2>1, <2>4, Zenon
<1>2. ASSUME NEW l \in Listeners, NEW c \in Conns, Accept(l, c)
      PROVE  (available[k] + Cardinality(Open(k)) + Held(k) = MaxConnections)'
  <2>1. CASE k = l
    <3>1. Open(k)' = Open(k) \cup {c} /\ c \notin Open(k)
      BY <1>2, <2>1, ShutdownAssumption DEF Accept, Open, Types
    <3>2. Cardinality(Open(k)') = Cardinality(Open(k)) + 1
      BY <1>0, <3>1, FS_AddElement
    <3>3. available'[k] = available[k] /\ Held(k) = 1 /\ Held(k)' = 0
      BY <1>2, <2>1 DEF Accept, Held, Goto, Types
    <3>4. available[k] + (Cardinality(Open(k)) + 1) + 0 = MaxConnections
      BY <1>0, <3>3
    <3> QED
      BY <3>2, <3>3, <3>4, Zenon
  <2>2. CASE k # l
    BY <1>0, <1>2, <2>2, ShutdownAssumption, Zenon DEF Accept, Open, Held, Goto, Types
  <2> QED
    BY <2>1, <2>2
<1>3. ASSUME NEW c \in Conns, ConnectionEnds(c)
      PROVE  (available[k] + Cardinality(Open(k)) + Held(k) = MaxConnections)'
  <2>0. Held(k)' = Held(k) /\ Held(k) \in Nat
    BY <1>3 DEF ConnectionEnds, Held
  <2>1. CASE home[c] = k
    <3>1. Open(k)' = Open(k) \ {c} /\ c \in Open(k)
      BY <1>3, <2>1, ShutdownAssumption DEF ConnectionEnds, Open, Types
    <3>2. Cardinality(Open(k)') = Cardinality(Open(k)) - 1
      BY <1>0, <3>1, FS_RemoveElement, Zenon
    <3>3. available'[k] = available[k] + 1
      BY <1>3, <2>1 DEF ConnectionEnds, Types
    <3>4. (available[k] + 1) + (Cardinality(Open(k)) - 1) + Held(k) = MaxConnections
      BY <1>0, <2>0
    <3> QED
      BY <2>0, <3>2, <3>3, <3>4, Zenon
  <2>2. CASE home[c] # k
    <3>1. Open(k)' = Open(k)
      BY <1>3, <2>2, ShutdownAssumption DEF ConnectionEnds, Open, Types
    <3>2. available'[k] = available[k]
      BY <1>3, <2>2 DEF ConnectionEnds, Types
    <3> QED
      BY <1>0, <2>0, <3>1, <3>2
  <2> QED
    BY <2>1, <2>2, Zenon
<1>4. CASE UNCHANGED <<available, home, pc>>
  BY <1>0, <1>4, Zenon DEF Open, Held
<1>5. Signal \/ Exit \/ Stopped \/ UNCHANGED shutdownVars \/ (\E e \in Endpoints : EndpointStops(e))
         => UNCHANGED <<available, home, pc>>
  BY DEF Signal, Exit, Stopped, shutdownVars, EndpointStops
<1> QED
  BY <1>1, <1>2, <1>3, <1>4, <1>5 DEF ShutdownNext, LoopStep

(* A loop accepts at most one connection between two polls. *)
LEMMA LateStep == Types /\ LateOnce /\ [ShutdownNext]_shutdownVars => LateOnce'
<1> SUFFICES ASSUME Types, LateOnce, [ShutdownNext]_shutdownVars PROVE LateOnce'
  OBVIOUS
<1> USE DEF Types, LateOnce, Goto
<1>1. ASSUME NEW l \in Listeners, LoopStep(l)
      PROVE  LateOnce'
  <2>1. CASE Acquire(l) \/ ObserveDraining(l) \/ Sleep(l) \/ AcceptFails(l) \/ Drained(l)
               \/ DrainTick(l) \/ DrainExpires(l)
    BY <2>1, Zenon DEF Acquire, ObserveDraining, Sleep, AcceptFails, Drained, DrainTick, DrainExpires
  <2>2. CASE PollAccept(l)
    BY <2>2 DEF PollAccept
  <2>3. ASSUME NEW c \in Conns, Accept(l, c)
        PROVE  LateOnce'
    BY <2>3 DEF Accept
  <2> QED
    BY <1>1, <2>1, <2>2, <2>3, Zenon DEF LoopStep
<1>2. CASE Signal
  BY <1>2 DEF Signal
<1>3. CASE UNCHANGED <<lifecycle, pc, late>>
  BY <1>3
<1>4. Exit \/ Stopped \/ UNCHANGED shutdownVars \/ (\E e \in Endpoints : EndpointStops(e))
         \/ (\E c \in Conns : ConnectionEnds(c))
      => UNCHANGED <<lifecycle, pc, late>>
  BY DEF Exit, Stopped, shutdownVars, EndpointStops, ConnectionEnds
<1> QED
  BY <1>1, <1>2, <1>3, <1>4 DEF ShutdownNext

(* The invariant holds at the start: every permit is in its semaphore. *)
LEMMA ShutdownInvInit == ShutdownInit => SInv
<1> SUFFICES ASSUME ShutdownInit PROVE SInv
  OBVIOUS
<1>1. Types /\ LateOnce
  <2>1. grace \in [Listeners -> 0..Grace] /\ available \in [Listeners -> Nat]
    BY ShutdownAssumption DEF ShutdownInit
  <2>2. home \in [Conns -> Listeners \cup {None}] /\ pc \in [Listeners -> PCs]
    BY DEF ShutdownInit, PCs
  <2> QED
    BY <2>1, <2>2, Zenon DEF ShutdownInit, Types, LateOnce
<1>2. ASSUME NEW l \in Listeners
      PROVE  available[l] + Cardinality(Open(l)) + Held(l) = MaxConnections
  <2>1. Open(l) = {}
    BY ShutdownAssumption DEF ShutdownInit, Open
  <2>2. Cardinality(Open(l)) = 0
    BY <2>1, FS_EmptySet
  <2> QED
    BY <2>2, ShutdownAssumption DEF ShutdownInit, Held
<1> QED
  BY <1>1, <1>2 DEF SInv, SlotsConserved

(* The inductive invariant of the accept loops. *)
THEOREM ShutdownInvariant == ShutdownSpec => []SInv
<1>1. SInv /\ [ShutdownNext]_shutdownVars => SInv'
  BY TypesStep, SlotsStep, LateStep DEF SInv
<1> QED
  BY <1>1, ShutdownInvInit, PTL DEF ShutdownSpec

(* Slots are conserved (serve, drain) for any limit: never more than        *)
(* max_connections are open at a listener.                                  *)
THEOREM SlotsTheorem == ShutdownSpec => []SlotsConserved
<1>1. SInv => SlotsConserved
  BY DEF SInv
<1> QED
  BY <1>1, ShutdownInvariant, PTL

(* At most one connection per listener is accepted after the signal (the    *)
(* biased select of serve).                                                 *)
THEOREM LateTheorem == ShutdownSpec => []AtMostOneLateAccept
<1>1. SInv => AtMostOneLateAccept
  BY DEF SInv, LateOnce, AtMostOneLateAccept
<1> QED
  BY <1>1, ShutdownInvariant, PTL

(* The types of the model, the bound of the permits included. *)
THEOREM ShutdownTypes == ShutdownSpec => []TypeOK
<1>1. SInv => TypeOK
  <2> SUFFICES ASSUME SInv PROVE TypeOK
    OBVIOUS
  <2>1. ASSUME NEW l \in Listeners PROVE available[l] \in 0..MaxConnections
    <3>1. /\ available[l] + Cardinality(Open(l)) + Held(l) = MaxConnections
          /\ available[l] \in Nat /\ Held(l) \in Nat
      BY DEF SInv, SlotsConserved, Types, Held
    <3> QED
      BY <3>1, OpenFinite
  <2> QED
    BY <2>1 DEF SInv, Types, TypeOK, PCs
<1> QED
  BY <1>1, ShutdownInvariant, PTL

(* drain returns before its deadline only when every connection has ended:  *)
(* acquiring max_connections permits means that nobody holds one.           *)
THEOREM EarlyReturnTheorem == ShutdownSpec => NoEarlyReturn
<1> DEFINE Quiet == \A l \in Listeners :
              pc[l] = "drain" /\ pc'[l] = "returned" /\ grace[l] > 0 => Open(l) = {}
<1>1. SInv /\ [ShutdownNext]_shutdownVars => [Quiet]_shutdownVars
  <2> SUFFICES ASSUME SInv, ShutdownNext, NEW k \in Listeners,
                      pc[k] = "drain", pc'[k] = "returned", grace[k] > 0
               PROVE  Open(k) = {}
    BY DEF shutdownVars
  <2>1. Drained(k) \/ DrainExpires(k)
    BY Zenon DEF ShutdownNext, LoopStep, Signal, Exit, Stopped, shutdownVars, EndpointStops,
           ConnectionEnds, Acquire, ObserveDraining, PollAccept, Sleep, Accept, AcceptFails,
           Drained, DrainTick, DrainExpires, Goto, SInv, Types
  <2>2. available[k] = MaxConnections
    BY <2>1 DEF Drained, DrainExpires, SInv, Types
  <2>3. Cardinality(Open(k)) = 0
    <3>1. /\ available[k] + Cardinality(Open(k)) + Held(k) = MaxConnections
          /\ Held(k) \in Nat
      BY Zenon DEF SInv, SlotsConserved, Held
    <3>2. Cardinality(Open(k)) \in Nat /\ MaxConnections \in Nat
      BY OpenFinite, ShutdownAssumption, Zenon
    <3> QED
      BY <2>2, <3>1, <3>2
  <2> QED
    BY <2>3, OpenFinite, FS_EmptySet
<1> QED
  BY <1>1, ShutdownInvariant, PTL DEF ShutdownSpec, NoEarlyReturn
=============================================================================
