--------------------------- MODULE DeliveryPromise ---------------------------
(***************************************************************************)
(* What the bridge promises about messages, without processes, leases,     *)
(* retries or a database: an accepted message joins the mailbox of one     *)
(* recipient thread, turns are started in mailbox order, the outcome is    *)
(* decided once, and "completed" is only said of a message that was        *)
(* delivered.  Delivery is once, except for a request the bridge had given *)
(* up and the app-server served late.                                      *)
(***************************************************************************)
EXTENDS Naturals

CONSTANTS
  Message,
  Mailbox,
  Precedes     \* pairs of messages whose order is settled: by creation time

VARIABLES outcome, mailbox, copies, late

promiseVars == <<outcome, mailbox, copies, late>>

Outcome == {"none", "pending", "completed", "failed", "dead_letter"}

PromiseInit ==
  /\ outcome = [m \in Message |-> "none"]
  /\ mailbox \in [Message -> Mailbox]
  /\ copies = [m \in Message |-> 0]
  /\ late = [m \in Message |-> 0]

Accept(m) ==
  /\ outcome[m] = "none"
  /\ outcome' = [outcome EXCEPT ![m] = "pending"]
  /\ \E box \in Mailbox : mailbox' = [mailbox EXCEPT ![m] = box]
  /\ UNCHANGED <<copies, late>>

\* Every older message of the mailbox is decided.
Turn(m) == \A n \in Message :
  <<n, m>> \in Precedes /\ mailbox[n] = mailbox[m] => outcome[n] # "pending"

Deliver(m) ==
  /\ outcome[m] # "none"
  /\ Turn(m)
  /\ copies[m] <= late[m]
  /\ copies' = [copies EXCEPT ![m] = @ + 1]
  /\ UNCHANGED <<outcome, mailbox, late>>

DeliverLate(m) ==
  /\ outcome[m] # "none"
  /\ Turn(m)
  /\ copies' = [copies EXCEPT ![m] = @ + 1]
  /\ late' = [late EXCEPT ![m] = @ + 1]
  /\ UNCHANGED <<outcome, mailbox>>

Conclude(m) ==
  /\ outcome[m] = "pending"
  /\ \E o \in {"completed", "failed", "dead_letter"} :
       /\ o = "completed" => copies[m] > 0
       /\ outcome' = [outcome EXCEPT ![m] = o]
  /\ UNCHANGED <<mailbox, copies, late>>

PromiseNext ==
  \E m \in Message : Accept(m) \/ Deliver(m) \/ DeliverLate(m) \/ Conclude(m)

PromiseSpec == PromiseInit /\ [][PromiseNext]_promiseVars
=============================================================================
