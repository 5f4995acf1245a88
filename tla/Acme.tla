-------------------------------- MODULE Acme --------------------------------
(***************************************************************************)
(* The ACME client of pulsate-acme: several issuance tasks share one       *)
(* AcmeClient, its LIFO pool of replay nonces and its account URL, and the *)
(* challenge and certificate stores of the data plane.                     *)
(*                                                                         *)
(* Every method of the client is one signed request, and every signed      *)
(* request is the same loop: take a nonce, POST, stash the nonce of the    *)
(* response, retry once on badNonce.  Op[t] says which method the task is  *)
(* in; the tasks interleave at every await.  The CA and the caller that    *)
(* strings the methods together are outside the crate.  The CA answers     *)
(* with a nonce every time, may forget the ones outstanding (MaxExpiries   *)
(* times), and its response may be lost after it acted on the request.  A  *)
(* task's token, order and private key are named after the task.           *)
(***************************************************************************)
EXTENDS Naturals, Sequences, FiniteSets

CONSTANTS
    Tasks,        \* issuance tasks, one order each
    Lead,         \* the task that registers the account for all of them
    Host(_),      \* the name a task orders a certificate for
    MaxAttempts,  \* poll_order's max_attempts
    Names,        \* names for nonces, positive numbers
    MaxExpiries   \* how often the CA forgets its outstanding nonces

ASSUME AcmeAssumption ==
    /\ Lead \in Tasks
    /\ MaxAttempts \in Nat \ {0}
    /\ MaxExpiries \in Nat
    /\ Names \subseteq Nat \ {0}

VARIABLES
    nonces,       \* AcmeClient.nonces
    account,      \* AcmeClient.account_url is set
    op,           \* the method each task is in, or "done" / "failed"
    at,           \* where in signed(): "nonce", "post" or "reply"
    attempt,      \* the loop variable of signed()
    held,         \* the nonce a task has taken and not yet sent
    resp,         \* the response on its way to a task
    polls,        \* polls made by the current poll_order call
    http01,       \* Http01Store: tokens with a key authorization
    certs,        \* DynamicCertStore: host -> [cert, key], by task
    good,         \* CA: outstanding nonces
    order,        \* CA: status of each task's order
    effects,      \* CA: how often it created / finalized a task's order
    sent,         \* history: nonces put on the wire since they were issued
    expiries

client == <<nonces, account, op, at, attempt, held, resp, polls>>
stores == <<http01, certs>>
ca == <<good, order, effects, expiries>>
acmeVars == <<client, stores, ca, sent>>

NoNonce == 0
NoReply == [result |-> "ok", nonce |-> NoNonce]

\* The nonces some part of the system still has.  The CA never repeats a
\* nonce; the name of one that is gone stands for a new one.
NoncesInUse ==
    good \cup {nonces[i] : i \in DOMAIN nonces} \cup {held[t] : t \in Tasks}
         \cup {resp[t].nonce : t \in Tasks}
IsFresh(n) == n \notin NoncesInUse /\ \A m \in 1..(n - 1) : m \in NoncesInUse

\* The methods in the order a caller needs them: the account first, the
\* challenge response in the store before submit_challenge, one poll_order
\* for the validation and one for the issuance.
After ==
    [register_account |-> "new_order", new_order |-> "http01_challenge",
     http01_challenge |-> "submit_challenge", submit_challenge |-> "poll_ready",
     poll_ready |-> "finalize", finalize |-> "poll_valid",
     poll_valid |-> "download_certificate", download_certificate |-> "done"]

Methods == DOMAIN After

OrderStatuses ==
    {"none", "pending", "submitted", "ready", "processing", "valid", "invalid"}
Results == OrderStatuses \cup {"ok", "badNonce", "rejected"}

AcmeInit ==
    /\ nonces = <<>> /\ account = FALSE
    /\ op = [t \in Tasks |-> IF t = Lead THEN "register_account"
                                         ELSE "new_order"]
    /\ at = [t \in Tasks |-> "nonce"]
    /\ attempt = [t \in Tasks |-> 0]
    /\ held = [t \in Tasks |-> NoNonce]
    /\ resp = [t \in Tasks |-> NoReply]
    /\ polls = [t \in Tasks |-> 0]
    /\ http01 = {} /\ certs = <<>>
    /\ good = {} /\ expiries = 0
    /\ order = [t \in Tasks |-> "none"]
    /\ effects = [t \in Tasks |-> [created |-> 0, finalized |-> 0]]
    /\ sent = {}

-----------------------------------------------------------------------------
(* The stores of the data plane.                                           *)

Http01Set(token) == http01' = http01 \cup {token}

Http01Remove(token) == http01' = http01 \ {token}
Http01Get(token) == token \in http01

\* install_pem replaces the host's entry in one step.
InstallPem(host, cert, key) ==
    certs' = [h \in DOMAIN certs \cup {host} |->
                 IF h = host THEN [cert |-> cert, key |-> key] ELSE certs[h]]

-----------------------------------------------------------------------------
(* The CA.                                                                 *)

\* What the CA does with a request it accepts: the status it answers with
\* and the order it leaves.  newAccount is signed with the key, everything
\* else with the account URL.
Serves(t, kid) ==
    CASE op[t] = "register_account" /\ ~kid -> [result |-> "ok", order |-> order[t]]
      [] op[t] = "new_order" /\ kid -> [result |-> "ok", order |-> "pending"]
      [] op[t] = "http01_challenge" /\ kid -> [result |-> "ok", order |-> order[t]]
      [] op[t] = "submit_challenge" /\ kid /\ order[t] = "pending" ->
            [result |-> "ok", order |-> "submitted"]
      [] op[t] \in {"poll_ready", "poll_valid"} /\ kid ->
            [result |-> order[t], order |-> order[t]]
      [] op[t] = "finalize" /\ kid /\ order[t] = "ready" ->
            [result |-> "ok", order |-> "processing"]
      [] op[t] = "download_certificate" /\ kid /\ order[t] = "valid" ->
            [result |-> "ok", order |-> order[t]]
      [] OTHER -> [result |-> "rejected", order |-> order[t]]

Counted(t, answer) ==
    IF answer.result # "ok" THEN effects[t]
    ELSE CASE op[t] = "new_order" -> [effects[t] EXCEPT !.created = @ + 1]
           [] op[t] = "finalize" -> [effects[t] EXCEPT !.finalized = @ + 1]
           [] OTHER -> effects[t]

\* The CA validates a submitted order by fetching the challenge path.
Validate(t) ==
    /\ order[t] = "submitted" /\ Http01Get(t)
    /\ order' = [order EXCEPT ![t] = "ready"]
    /\ UNCHANGED <<client, stores, good, effects, expiries, sent>>

\* The validation, or the issuance, comes to nothing.
Invalidate(t) ==
    /\ order[t] \in {"submitted", "processing"}
    /\ order' = [order EXCEPT ![t] = "invalid"]
    /\ UNCHANGED <<client, stores, good, effects, expiries, sent>>

Issue(t) ==
    /\ order[t] = "processing"
    /\ order' = [order EXCEPT ![t] = "valid"]
    /\ UNCHANGED <<client, stores, good, effects, expiries, sent>>

ForgetNonces ==
    /\ good # {} /\ expiries < MaxExpiries
    /\ good' = {}
    /\ expiries' = expiries + 1
    /\ UNCHANGED <<client, stores, order, effects, sent>>

-----------------------------------------------------------------------------
(* signed(): nonce, post, reply.                                           *)

Fail(t) == op' = [op EXCEPT ![t] = "failed"]

Started(t) == t = Lead \/ account

(* Fault: the nonce stays in the pool. *)
TakeNonceKept(t) ==
    /\ op[t] \in Methods /\ at[t] = "nonce" /\ Started(t) /\ nonces # <<>>
    /\ held' = [held EXCEPT ![t] = nonces[Len(nonces)]]
    /\ at' = [at EXCEPT ![t] = "post"]
    /\ UNCHANGED <<nonces, account, op, attempt, resp, polls, stores, ca, sent>>

\* nonce() with a pool that is not empty: the newest one.
TakeNonce(t) ==
    /\ op[t] \in Methods /\ at[t] = "nonce" /\ Started(t) /\ nonces # <<>>
    /\ held' = [held EXCEPT ![t] = nonces[Len(nonces)]]
    /\ nonces' = SubSeq(nonces, 1, Len(nonces) - 1)
    /\ at' = [at EXCEPT ![t] = "post"]
    /\ UNCHANGED <<account, op, attempt, resp, polls, stores, ca, sent>>

\* nonce() with an empty pool: HEAD newNonce, whose nonce is not pooled.
AskNonce(t) ==
    /\ op[t] \in Methods /\ at[t] = "nonce" /\ Started(t) /\ nonces = <<>>
    /\ \E n \in Names : IsFresh(n) /\
          /\ good' = good \cup {n}
          /\ held' = [held EXCEPT ![t] = n]
          /\ sent' = sent \ {n}
    /\ at' = [at EXCEPT ![t] = "post"]
    /\ UNCHANGED <<nonces, account, op, attempt, resp, polls, stores, order,
                   effects, expiries>>

\* HEAD fails, or its response has no Replay-Nonce: the method returns Err.
AskNonceFails(t) ==
    /\ op[t] \in Methods /\ at[t] = "nonce" /\ Started(t) /\ nonces = <<>>
    /\ Fail(t)
    /\ UNCHANGED <<nonces, account, at, attempt, held, resp, polls, stores, ca,
                   sent>>

\* The account URL is read after the nonce arrived, the request is signed
\* and sent; the CA consumes the nonce, or answers badNonce.  Either answer
\* brings a new nonce.
Post(t) ==
    LET answer == IF held[t] \in good THEN Serves(t, account)
                  ELSE [result |-> "badNonce", order |-> order[t]]
    IN  /\ op[t] \in Methods /\ at[t] = "post"
        /\ \E n \in Names : IsFresh(n) /\
              /\ sent' = (sent \cup {held[t]}) \ {n}
              /\ good' = (good \ {held[t]}) \cup {n}
              /\ resp' = [resp EXCEPT ![t] = [result |-> answer.result,
                                              nonce |-> n]]
        /\ held' = [held EXCEPT ![t] = NoNonce]
        /\ order' = [order EXCEPT ![t] = answer.order]
        /\ effects' = [effects EXCEPT ![t] = Counted(t, answer)]
        /\ at' = [at EXCEPT ![t] = "reply"]
        /\ UNCHANGED <<nonces, account, op, attempt, polls, stores, expiries>>

StoreNonce(t) == nonces' = Append(nonces, resp[t].nonce)

\* badNonce on the first attempt: once more round the loop.
Retry(t) ==
    /\ op[t] \in Methods /\ at[t] = "reply"
    /\ resp[t].result = "badNonce" /\ attempt[t] = 0
    /\ StoreNonce(t)
    /\ attempt' = [attempt EXCEPT ![t] = 1]
    /\ at' = [at EXCEPT ![t] = "nonce"]
    /\ resp' = [resp EXCEPT ![t] = NoReply]
    /\ UNCHANGED <<account, op, held, polls, stores, ca, sent>>

(* Fault: a transport error is retried like badNonce. *)
LostRetries(t) ==
    /\ op[t] \in Methods /\ at[t] = "reply"
    /\ IF attempt[t] = 0
       THEN /\ attempt' = [attempt EXCEPT ![t] = 1]
            /\ at' = [at EXCEPT ![t] = "nonce"]
            /\ UNCHANGED op
       ELSE Fail(t) /\ UNCHANGED <<attempt, at>>
    /\ resp' = [resp EXCEPT ![t] = NoReply]
    /\ UNCHANGED <<nonces, account, held, polls, stores, ca, sent>>

\* The transport reports an error: signed() returns it, the nonce of the
\* response never reaches the pool.
Lost(t) ==
    /\ op[t] \in Methods /\ at[t] = "reply"
    /\ Fail(t)
    /\ resp' = [resp EXCEPT ![t] = NoReply]
    /\ UNCHANGED <<nonces, account, at, attempt, held, polls, stores, ca, sent>>

-----------------------------------------------------------------------------
(* What each method does with the response signed() returned.              *)

Answered(t) ==
    /\ op[t] \in Methods /\ at[t] = "reply"
    /\ ~(resp[t].result = "badNonce" /\ attempt[t] = 0)
    /\ StoreNonce(t)
    /\ attempt' = [attempt EXCEPT ![t] = 0]
    /\ at' = [at EXCEPT ![t] = "nonce"]
    /\ resp' = [resp EXCEPT ![t] = NoReply]
    /\ UNCHANGED <<held, ca, sent>>

\* The next method of the caller.
Proceed(t) == op' = [op EXCEPT ![t] = After[op[t]]]

\* A method whose response is not a success returns Err.
Refused(t) ==
    /\ Answered(t)
    /\ resp[t].result \in {"badNonce", "rejected"}
    /\ Fail(t)
    /\ UNCHANGED <<account, polls, stores>>

RegisterAccount(t) ==
    /\ op[t] = "register_account" /\ Answered(t) /\ resp[t].result = "ok"
    /\ account' = TRUE
    /\ Proceed(t)
    /\ UNCHANGED <<polls, stores>>

\* new_order and finalize keep what the CA answered; the task's names are
\* the order's.
Accepted(t) ==
    /\ op[t] \in {"new_order", "submit_challenge", "finalize"}
    /\ Answered(t) /\ resp[t].result = "ok"
    /\ Proceed(t)
    /\ polls' = [polls EXCEPT ![t] = 0]
    /\ UNCHANGED <<account, stores>>

\* http01_challenge computes the key authorization, which the caller
\* registers before it submits.
Http01Challenge(t) ==
    /\ op[t] = "http01_challenge" /\ Answered(t) /\ resp[t].result = "ok"
    /\ Http01Set(t)
    /\ Proceed(t)
    /\ UNCHANGED <<account, polls, certs>>

\* poll_order: ready and valid end it, invalid is an error, everything else
\* polls again within the budget, with no pause.
PollOrder(t) ==
    /\ op[t] \in {"poll_ready", "poll_valid"}
    /\ Answered(t) /\ resp[t].result \in OrderStatuses
    /\ polls' = [polls EXCEPT ![t] = @ + 1]
    /\ IF resp[t].result \in {"ready", "valid"} THEN Proceed(t)
       ELSE IF resp[t].result = "invalid" \/ polls'[t] = MaxAttempts THEN Fail(t)
       ELSE UNCHANGED op
    /\ UNCHANGED <<account, stores>>

\* The chain and the key of finalize are installed, the challenge removed.
DownloadCertificate(t) ==
    /\ op[t] = "download_certificate" /\ Answered(t) /\ resp[t].result = "ok"
    /\ InstallPem(Host(t), t, t)
    /\ Http01Remove(t)
    /\ Proceed(t)
    /\ UNCHANGED <<account, polls>>

Signed(t) ==
    \/ TakeNonce(t) \/ AskNonce(t) \/ AskNonceFails(t) \/ Post(t)
    \/ Retry(t) \/ Lost(t)

Method(t) ==
    \/ Refused(t) \/ RegisterAccount(t) \/ Accepted(t) \/ Http01Challenge(t)
    \/ PollOrder(t) \/ DownloadCertificate(t)

Task(t) == Signed(t) \/ Method(t)
CA == ForgetNonces \/ \E t \in Tasks : Validate(t) \/ Invalidate(t) \/ Issue(t)
AcmeNext == CA \/ \E t \in Tasks : Task(t)

AcmeSpec == AcmeInit /\ [][AcmeNext]_acmeVars

-----------------------------------------------------------------------------
\* No request repeats a nonce: what a task is about to send has never been
\* on the wire and no other task holds it, however the tasks share the pool
\* and whatever is retried or lost (nonce, store_nonce, signed).
NonceUsedOnce ==
    \A t \in Tasks : at[t] = "post" =>
        /\ held[t] \notin sent
        /\ \A u \in Tasks \ {t} : at[u] = "post" => held[u] # held[t]

\* Only a request the CA did not act on is sent again: a task has at most
\* one order, finalized at most once, with a response lost at any point
\* (signed retries badNonce and nothing else).
EffectsHappenOnce ==
    \A t \in Tasks : effects[t].created <= 1 /\ effects[t].finalized <= 1
=============================================================================
