----------------------------- MODULE GroupPromise -----------------------------
(***************************************************************************)
(* What group messaging promises, without processes, statements, queues or *)
(* a database: a group message is accepted as a whole, for the recipients  *)
(* of a snapshot that never changes, once per key of its sender; for each  *)
(* recipient it is decided on its own, a failure may be tried again, and a *)
(* delivery is for good.                                                   *)
(***************************************************************************)
EXTENDS Naturals, Sequences, FiniteSets

CONSTANTS
  NoKey,           \* a message without idempotency key
  MaxGroupFanout

VARIABLES
  sent,    \* the group messages: [from, key, snapshot]
  fate     \* what has become of them, by message and recipient

promiseVars == <<sent, fate>>

PromiseInit == sent = <<>> /\ DOMAIN fate = {}

Recipients(m) == m.snapshot \ {m.from}

\* Only the key of a message that was accepted before stands in the way.
New(m) ==
  m.key # NoKey => \A n \in DOMAIN sent : sent[n].from # m.from \/ sent[n].key # m.key

\* All recipients at once; one at least, and not too many.
Accept ==
  /\ Len(sent') = Len(sent) + 1
  /\ LET m == sent'[Len(sent')] IN
       /\ sent' = Append(sent, m)
       /\ New(m)
       /\ Recipients(m) # {} /\ Cardinality(Recipients(m)) <= MaxGroupFanout
       /\ fate' = [n \in DOMAIN sent' |->
            IF n \in DOMAIN sent THEN fate[n] ELSE [a \in Recipients(m) |-> "unfinished"]]

Decide(m, a) ==
  /\ fate[m][a] = "unfinished"
  /\ \E o \in {"completed", "failed"} : fate' = [fate EXCEPT ![m][a] = o]
  /\ UNCHANGED sent

\* Some of the recipients it has failed for, together.
Again(m, failed) ==
  /\ \A a \in failed : fate[m][a] = "failed"
  /\ fate' = [fate EXCEPT ![m] = [a \in DOMAIN @ |-> IF a \in failed THEN "unfinished" ELSE @[a]]]
  /\ UNCHANGED sent

PromiseNext ==
  \/ Accept
  \/ \E m \in DOMAIN sent : \/ \E a \in DOMAIN fate[m] : Decide(m, a)
                            \/ \E failed \in SUBSET DOMAIN fate[m] : Again(m, failed)

PromiseSpec == PromiseInit /\ [][PromiseNext]_promiseVars
===============================================================================
