-------------------------- MODULE AtomicConfigStore --------------------------
(***************************************************************************)
(* What the configuration store promises one control-plane client at a     *)
(* time: `reload` publishes a validated text under the next generation     *)
(* number and demotes the generation it replaces, a rejected text only     *)
(* consumes a number, and `rollback` exchanges the running generation with *)
(* the demoted one.  Each operation is one step.                           *)
(***************************************************************************)
EXTENDS Integers

CONSTANTS ValidTexts, InitText, NoGeneration

VARIABLES running,   \* the generation data-plane readers load
          demoted,   \* the generation one rollback restores, or NoGeneration
          issued     \* the number the next reload takes

vars == <<running, demoted, issued>>

Init == /\ running = [gen |-> 0, text |-> InitText]
        /\ demoted = NoGeneration
        /\ issued = 1

Publish(t) == /\ running' = [gen |-> issued, text |-> t]
              /\ demoted' = running
              /\ issued' = issued + 1

Reject == /\ issued' = issued + 1
          /\ UNCHANGED <<running, demoted>>

Rollback == /\ demoted # NoGeneration
            /\ running' = demoted
            /\ demoted' = running
            /\ UNCHANGED issued

Next == \/ \E t \in ValidTexts : Publish(t)
        \/ Reject
        \/ Rollback

Spec == Init /\ [][Next]_vars
=============================================================================
