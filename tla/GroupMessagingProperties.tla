------------------------- MODULE GroupMessagingProperties -------------------------
(* What group messaging guarantees while calls and commands interleave.       *)
EXTENDS GroupMessaging, AgentRegistryProperties

GroupsTypeOK ==
  /\ RegistryTypeOK
  /\ Created \subseteq Group
  /\ groups \in [Created -> [owner : Agent, status : GroupStatus]]
  /\ members \in [Created -> [Agent -> Membership]]
  /\ \A c \in Operator : groupIntent[c] # Nothing => groupIntent[c].group \in Created
  /\ DOMAIN deliveries = DOMAIN groupMessages
  /\ pc \in [Proc -> {"idle", "group", "member", "key", "members", "recipient", "queue", "retry"}]
  /\ \A p \in Proc : pc[p] = "idle" => draft[p] = Nothing
  /\ stale \subseteq {p \in Proc : pc[p] # "idle"}

\* A sender has at most one group message with a key, however many of its
\* processes send it at the same time (group_messages_sender_idempotency).
OneGroupMessagePerKey ==
  \A m, n \in DOMAIN groupMessages :
    /\ groupMessages[m].key # NoKey
    /\ groupMessages[m].from = groupMessages[n].from
    /\ groupMessages[m].key = groupMessages[n].key
    => m = n

\* "A delivered recipient is never redelivered by group retry": whatever retries
\* race, a recipient has one delivery that is unfinished or delivered at most,
\* and it is the last one.  The recipients are the snapshot without the sender.
DeliveredOnce ==
  \A m \in DOMAIN groupMessages :
    /\ DOMAIN deliveries[m] = groupMessages[m].snapshot \ {groupMessages[m].from}
    /\ \A a \in DOMAIN deliveries[m] :
         \A k \in 1 .. Len(deliveries[m][a]) - 1 : deliveries[m][a][k] = "failed"

\* A group message is created by an active member, in an active group, for
\* exactly its active members, unless the group was changed during the call.
SentToMembers ==
  [][\A p \in Proc \ stale :
       LET g == draft[p].call.group IN
       pc[p] = "recipient" /\ groupMessages' # groupMessages /\ pc'[p] = "idle" =>
         /\ groups[g].status = "active"
         /\ Sender[p] \in Members(g)
         /\ Last(groupMessages').snapshot = Members(g)]_vars

\* A deleted group stays deleted, but for a command that has read its status
\* before it was deleted.
DeletedStays ==
  [][\A g \in Created : groups[g].status = "deleted" =>
       \/ groups'[g].status = "deleted"
       \/ \E c \in Operator : /\ groupIntent[c] # Nothing
                              /\ groupIntent[c].group = g
                              /\ groupIntent[c].read # "deleted"]_vars

\* The processes that have found room in the queue of a and will insert.
Places(a) ==
  {p \in Proc : /\ pc[p] \in {"recipient", "queue"}
                /\ a \in Recipients(p, draft[p].snapshot) \ draft[p].unchecked}

\* The queue of a recipient exceeds its limit only by the processes that have
\* looked at it at the same time: one less than there are.
GroupQueueBounded ==
  \A a \in Agent : QueueDepth(a) + Cardinality(Places(a)) <= MaxQueueDepth + Cardinality(Proc) - 1

\* Group messages, their retries and the commands implement the promise that a
\* message is accepted for all recipients or none, once per key, and that each
\* recipient's last delivery is decided on its own and for good once delivered.
Fate(row) == [a \in DOMAIN row |-> Last(row[a])]

Promised == INSTANCE GroupPromise WITH
  sent <- groupMessages,
  fate <- [m \in DOMAIN deliveries |-> Fate(deliveries[m])]

KeepsGroupPromise == Promised!PromiseSpec

\* Deliveries are message rows without an edge: they are inserted unfinished, many
\* at a time, and all that happens to one is that the scheduler finishes it once.
DeliveriesIn(states) ==
  UNION {UNION {{m} \X {a} \X {k \in DOMAIN deliveries[m][a] : deliveries[m][a][k] \in states} :
                  a \in DOMAIN deliveries[m]} : m \in DOMAIN deliveries}

Rows == INSTANCE MessageRows WITH
  unfinished <- DeliveriesIn({"unfinished"}),
  finished <- DeliveriesIn({"completed", "failed"}),
  waiting <- {}

KeepsRows == Rows!RowsSpec
===================================================================================
