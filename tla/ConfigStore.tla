---------------------------- MODULE ConfigStore ----------------------------
(***************************************************************************)
(* The generation store of pulsate-config (store.rs): one ArcSwap for the  *)
(* running generation, one for the previous generation, and an atomic      *)
(* counter of generation numbers.  `reload` and `rollback` are sequences   *)
(* of single atomic accesses, so control-plane callers (the REST and gRPC  *)
(* admin handlers, the Kubernetes controller) interleave between them: one *)
(* action per shared access, `pc` the next access of a caller.             *)
(***************************************************************************)
EXTENDS Integers

CONSTANTS Callers,       \* tasks that may call reload or rollback
          Texts,         \* configuration texts offered to reload
          ValidTexts,    \* the texts compile() accepts
          InitText,      \* the text the store was loaded with
          NoGeneration,  \* `None` in the previous slot
          MaxGeneration  \* bound: numbers handed out by one behaviour

ASSUME ConfigAssumption ==
    /\ ValidTexts \subseteq Texts
    /\ InitText \in ValidTexts
    /\ MaxGeneration \in Nat
    /\ NoGeneration \notin [gen : Nat, text : Texts]

VARIABLES current,          \* ArcSwap<Generation>
          previous,         \* ArcSwap<Option<Arc<Generation>>>
          next_generation,  \* AtomicU64
          pc,               \* the next step of each caller
          built,            \* the generation a caller is about to publish
          outgoing,         \* the generation a caller loaded as outgoing
          displaced         \* history: what the latest store to current replaced

vars == <<current, previous, next_generation, pc, built, outgoing, displaced>>

Generations == [gen : Nat, text : Texts]

PC == {"idle", "compile", "demote", "swap", "rb_load", "rb_swap", "rb_demote"}

(* ConfigStore::load: the first text compiles as generation 0. *)
Init == /\ current = [gen |-> 0, text |-> InitText]
        /\ previous = NoGeneration
        /\ next_generation = 1
        /\ pc = [c \in Callers |-> "idle"]
        /\ built = [c \in Callers |-> current]
        /\ outgoing = [c \in Callers |-> current]
        /\ displaced = NoGeneration

Goto(c, from, to) == pc[c] = from /\ pc' = [pc EXCEPT ![c] = to]

----------------------------------------------------------------------------
(* reload *)

(* Fault: the number is derived from the running generation. *)
ReloadNumberFromCurrent(c, t) ==
    /\ Goto(c, "idle", "compile")
    /\ next_generation <= MaxGeneration
    /\ built' = [built EXCEPT ![c] = [gen |-> current.gen + 1, text |-> t]]
    /\ next_generation' = next_generation + 1
    /\ UNCHANGED <<current, previous, outgoing, displaced>>

(* fetch_add of the generation number; the text is compiled under it. *)
ReloadBegin(c, t) ==
    /\ Goto(c, "idle", "compile")
    /\ next_generation <= MaxGeneration
    /\ built' = [built EXCEPT ![c] = [gen |-> next_generation, text |-> t]]
    /\ next_generation' = next_generation + 1
    /\ UNCHANGED <<current, previous, outgoing, displaced>>

(* `compile(..)?` returns the diagnostics: nothing is published, the number *)
(* taken is not given back.                                                 *)
ReloadRejected(c) ==
    /\ Goto(c, "compile", "idle")
    /\ built[c].text \notin ValidTexts
    /\ UNCHANGED <<current, previous, next_generation, built, outgoing, displaced>>

(* Fault: the outcome of compile() is not looked at. *)
ReloadUnchecked(c) ==
    /\ Goto(c, "compile", "demote")
    /\ outgoing' = [outgoing EXCEPT ![c] = current]
    /\ UNCHANGED <<current, previous, next_generation, built, displaced>>

(* compile() succeeded: load the generation about to be replaced. *)
ReloadCompiled(c) ==
    /\ Goto(c, "compile", "demote")
    /\ built[c].text \in ValidTexts
    /\ outgoing' = [outgoing EXCEPT ![c] = current]
    /\ UNCHANGED <<current, previous, next_generation, built, displaced>>

(* Store it in the previous slot. *)
ReloadDemote(c) ==
    /\ Goto(c, "demote", "swap")
    /\ previous' = outgoing[c]
    /\ UNCHANGED <<current, next_generation, built, outgoing, displaced>>

(* Publish the new generation. *)
ReloadSwap(c) ==
    /\ Goto(c, "swap", "idle")
    /\ current' = built[c]
    /\ displaced' = current
    /\ UNCHANGED <<previous, next_generation, built, outgoing>>

----------------------------------------------------------------------------
(* rollback *)

(* Load the previous slot; `None` returns without effect. *)
RollbackBegin(c) ==
    /\ Goto(c, "idle", "rb_load")
    /\ previous # NoGeneration
    /\ built' = [built EXCEPT ![c] = previous]
    /\ UNCHANGED <<current, previous, next_generation, outgoing, displaced>>

RollbackLoad(c) ==
    /\ Goto(c, "rb_load", "rb_swap")
    /\ outgoing' = [outgoing EXCEPT ![c] = current]
    /\ UNCHANGED <<current, previous, next_generation, built, displaced>>

RollbackSwap(c) ==
    /\ Goto(c, "rb_swap", "rb_demote")
    /\ current' = built[c]
    /\ displaced' = current
    /\ UNCHANGED <<previous, next_generation, built, outgoing>>

RollbackDemote(c) ==
    /\ Goto(c, "rb_demote", "idle")
    /\ previous' = outgoing[c]
    /\ UNCHANGED <<current, next_generation, built, outgoing, displaced>>

----------------------------------------------------------------------------
Step(c) == \/ \E t \in Texts : ReloadBegin(c, t)
           \/ ReloadRejected(c)
           \/ ReloadCompiled(c)
           \/ ReloadDemote(c)
           \/ ReloadSwap(c)
           \/ RollbackBegin(c)
           \/ RollbackLoad(c)
           \/ RollbackSwap(c)
           \/ RollbackDemote(c)

Next == \E c \in Callers : Step(c)

Spec == Init /\ [][Next]_vars

----------------------------------------------------------------------------
(* Type invariant of the store and of the callers' locals. *)
TypeOK == /\ current \in Generations
          /\ previous \in Generations \cup {NoGeneration}
          /\ displaced \in Generations \cup {NoGeneration}
          /\ next_generation \in Nat
          /\ pc \in [Callers -> PC]
          /\ built \in [Callers -> Generations]
          /\ outgoing \in [Callers -> Generations]

(* Every generation a reader or a later rollback can still obtain: the two  *)
(* slots and what callers in the middle of an operation are about to store. *)
Reachable == {current} \cup ({previous} \ {NoGeneration})
               \cup {built[c] : c \in {d \in Callers : pc[d] \in {"compile", "demote", "swap", "rb_load", "rb_swap"}}}
               \cup {outgoing[c] : c \in {d \in Callers : pc[d] \in {"demote", "rb_swap", "rb_demote"}}}

(* A generation number names one configuration, however reloads and         *)
(* rollbacks interleave: the number is taken by one fetch_add (store.rs     *)
(* reload), so no two texts ever share it and an operator who reads the     *)
(* number knows which text runs.                                            *)
GenerationNamesOneConfig ==
    \A g, h \in Reachable : g.gen = h.gen => g = h

(* Validation is total before publish (store.rs reload): no interleaving    *)
(* makes a rejected text the running one or leaves it where a rollback      *)
(* would restore it.                                                        *)
OnlyValidatedRuns ==
    /\ current.text \in ValidTexts
    /\ previous # NoGeneration => previous.text \in ValidTexts

(* The generation one rollback restores, as seen by a single caller: while  *)
(* an operation has stored one slot and not yet the other, it is what the   *)
(* latest publication replaced.                                             *)
RestoreTarget ==
    IF \E c \in Callers : pc[c] \in {"swap", "rb_demote"} THEN displaced ELSE previous

(* The numbers whose reload has finished. *)
Issued == IF \E c \in Callers : pc[c] \in {"compile", "demote", "swap"}
          THEN next_generation - 1
          ELSE next_generation

Atomic == INSTANCE AtomicConfigStore
              WITH running <- current, demoted <- RestoreTarget, issued <- Issued

(* With one caller at a time, reload and rollback are atomic: the store     *)
(* implements AtomicConfigStore, whatever the accesses they are made of.    *)
ImplementsAtomicStore == Atomic!Spec
=============================================================================
