----------------------------- MODULE GroupMessaging -----------------------------
(***************************************************************************)
(* Groups, their members, and the fan-out of group messages:               *)
(* GroupMessagingService of several MCP processes, the group commands of   *)
(* operators, and GroupRepository on one database.                         *)
(*                                                                         *)
(* send reads what it needs statement by statement, and the others run in  *)
(* between; what it inserts is one transaction, and so is a retry.  What   *)
(* becomes of a delivery is the scheduler's business (Settle): "failed"    *)
(* stands for failed and dead_letter, and a message that expires is failed *)
(* too, whatever status is reported.                                       *)
(***************************************************************************)
EXTENDS AgentRegistry, FiniteSets

CONSTANTS
  Group,             \* groups
  FirstOwner,        \* the groups there are at the start, and their owners
  FirstMembers,      \* the other members they have
  Proc, Sender,      \* MCP processes and their agents
  GroupCall,         \* calls of send_group_message: [from, group, key]
  NoKey,             \* a call without idempotency key
  MaxGroupFanout, MaxQueueDepth,   \* config.messaging
  MaxGroupMessages,  \* bound: group messages that are created
  MaxSequence        \* bound: deliveries of a group message to one recipient

ASSUME GroupAssumption ==
  /\ FirstOwner \in [DOMAIN FirstOwner -> Founded] /\ DOMAIN FirstOwner \subseteq Group
  /\ FirstMembers \in [DOMAIN FirstOwner -> SUBSET Founded]
  /\ Sender \in [Proc -> Founded]
  /\ IsFiniteSet(Proc) /\ IsFiniteSet(Agent)
  /\ \A c \in GroupCall : c.from \in Agent /\ c.group \in Group
  /\ {MaxGroupFanout, MaxQueueDepth, MaxGroupMessages, MaxSequence} \subseteq Nat \ {0}

VARIABLES
  groups,          \* the rows of groups: [owner, status]
  members,         \* the rows of group_members: role and activity of an agent
  groupIntent,     \* what a command on a group has read and is about to do
  groupMessages,   \* the rows of group_messages, in the order of their creation
  deliveries,      \* by group message and recipient: the row states, by sequence
  pc, draft,       \* where a process is in its call, and what it has read
  stale            \* history: processes whose group was changed during their call

groupVars == <<groups, members, groupIntent, groupMessages, deliveries, pc, draft, stale>>
messageVars == <<groupMessages, deliveries>>
adminVars == <<groups, members, groupIntent>>
vars == <<registryVars, groupVars>>

GroupStatus == {"active", "paused", "deleted"}
Membership == {"none", "owner", "member", "removed"}

Members(g) == {a \in Agent : members[g][a] \in {"owner", "member"}}

MembersOf(owner, others) ==
  [a \in Agent |-> IF a = owner THEN "owner" ELSE IF a \in others THEN "member" ELSE "none"]

GroupInit ==
  /\ groups = [g \in DOMAIN FirstOwner |-> [owner |-> FirstOwner[g], status |-> "active"]]
  /\ members = [g \in DOMAIN FirstOwner |-> MembersOf(FirstOwner[g], FirstMembers[g])]
  /\ groupIntent = [c \in Operator |-> Nothing]
  /\ groupMessages = <<>>
  /\ deliveries = <<>>
  /\ pc = [p \in Proc |-> "idle"]
  /\ draft = [p \in Proc |-> Nothing]
  /\ stale = {}

Init == RegistryInit /\ GroupInit

Created == DOMAIN groups

\* The calls of send that are under way in a group do not know what changes now.
Unaware(g) == {p \in Proc : pc[p] # "idle" /\ draft[p].call.group = g}

-----------------------------------------------------------------------------
(* Commands of operators.                                                  *)

CreateGroup(g, a) ==
  /\ Begin
  /\ g \notin Created
  /\ a \in Registered
  /\ groups' = [h \in Created \cup {g} |->
                  IF h = g THEN [owner |-> a, status |-> "active"] ELSE groups[h]]
  /\ members' = [h \in Created \cup {g} |-> IF h = g THEN MembersOf(a, {}) ELSE members[h]]
  /\ UNCHANGED <<groupIntent, stale>>

\* The row is inserted or updated, also the row of the owner.
AddMember(g, a) ==
  /\ Begin
  /\ g \in Created
  /\ a \in Registered
  /\ members' = [members EXCEPT ![g][a] = "member"]
  /\ stale' = stale \cup Unaware(g)
  /\ UNCHANGED <<groups, groupIntent>>

RemoveMember(g, a) ==
  /\ Begin
  /\ g \in Created
  /\ members[g][a] = "member"
  /\ members' = [members EXCEPT ![g][a] = "removed"]
  /\ stale' = stale \cup Unaware(g)
  /\ UNCHANGED <<groups, groupIntent>>

\* Mutant of MayMove: any group may be resumed.
MayMoveAnyway(g, s) == TRUE

MayMove(g, s) == groups[g].status = "deleted" => s = "deleted"

\* setStatus reads the group ...
ReadGroupStatus(c, g, s) ==
  /\ Begin
  /\ g \in Created
  /\ groupIntent[c] = Nothing
  /\ MayMove(g, s)
  /\ groupIntent' = [groupIntent EXCEPT ![c] =
       [group |-> g, status |-> s, read |-> groups[g].status]]
  /\ UNCHANGED <<groups, members, stale>>

\* ... and updates it in a statement of its own.
WriteGroupStatus(c) ==
  /\ groupIntent[c] # Nothing
  /\ groups' = [groups EXCEPT ![groupIntent[c].group].status = groupIntent[c].status]
  /\ groupIntent' = [groupIntent EXCEPT ![c] = Nothing]
  /\ stale' = stale \cup Unaware(groupIntent[c].group)
  /\ UNCHANGED <<members, operations>>

-----------------------------------------------------------------------------
(* send.                                                                   *)

Available(a) == a \in Registered /\ agents[a].status = "active"

\* The unfinished messages for an agent, as far as they come from groups.
Unfinished(a) ==
  UNION {{m} \X {k \in DOMAIN deliveries[m][a] : deliveries[m][a][k] = "unfinished"} :
           m \in {n \in DOMAIN deliveries : a \in DOMAIN deliveries[n]}}

QueueDepth(a) == Cardinality(Unfinished(a))

To(p, place) == pc' = [pc EXCEPT ![p] = place]

\* Mutant of Done: what the call has read is kept.
DoneKeepingDraft(p) ==
  /\ To(p, "idle")
  /\ stale' = stale \ {p}
  /\ UNCHANGED draft

\* The call of a process ends, with an answer or an error.
Done(p) ==
  /\ To(p, "idle")
  /\ draft' = [draft EXCEPT ![p] = Nothing]
  /\ stale' = stale \ {p}

Keep(p, place) == To(p, place) /\ UNCHANGED <<draft, stale>>

Send(p, c) ==
  /\ Begin
  /\ pc[p] = "idle"
  /\ c.from = Sender[p]
  /\ Available(Sender[p])
  /\ To(p, "group")
  /\ draft' = [draft EXCEPT ![p] = [call |-> c, snapshot |-> {}, unchecked |-> {}]]
  /\ UNCHANGED <<messageVars, stale>>

\* The status is compared after the next statement, but as it was read here.
ReadGroup(p) ==
  /\ pc[p] = "group"
  /\ IF draft[p].call.group \in Created /\ groups[draft[p].call.group].status = "active"
     THEN Keep(p, "member") ELSE Done(p)
  /\ UNCHANGED messageVars

ReadCaller(p) ==
  /\ pc[p] = "member"
  /\ IF Sender[p] \in Members(draft[p].call.group) THEN Keep(p, "key") ELSE Done(p)
  /\ UNCHANGED messageVars

SameKey(c) ==
  {m \in DOMAIN groupMessages : /\ c.key # NoKey
                                /\ groupMessages[m].from = c.from
                                /\ groupMessages[m].key = c.key}

\* A message with the key answers the call, or refuses it.
FindDuplicate(p) ==
  /\ pc[p] = "key"
  /\ IF SameKey(draft[p].call) = {} THEN Keep(p, "members") ELSE Done(p)
  /\ UNCHANGED messageVars

\* group_service.ts:90: the members but the sender.
Recipients(p, snapshot) == snapshot \ {Sender[p]}

\* Mutant of ReadMembers: removed members are members.
ReadAllMembers(p) ==
  /\ pc[p] = "members"
  /\ LET snapshot == {a \in Agent : members[draft[p].call.group][a] # "none"} IN
       /\ To(p, "recipient")
       /\ draft' = [draft EXCEPT ![p].snapshot = snapshot,
                                ![p].unchecked = Recipients(p, snapshot)]
       /\ UNCHANGED stale
  /\ UNCHANGED messageVars

\* The members are the snapshot; at least one recipient and not too many.
ReadMembers(p) ==
  /\ pc[p] = "members"
  /\ LET snapshot == Members(draft[p].call.group)
         recipients == Recipients(p, snapshot) IN
     IF recipients # {} /\ Cardinality(recipients) <= MaxGroupFanout
     THEN /\ To(p, "recipient")
          /\ draft' = [draft EXCEPT ![p].snapshot = snapshot, ![p].unchecked = recipients]
          /\ UNCHANGED stale
     ELSE Done(p)
  /\ UNCHANGED messageVars

\* The recipients one by one: the agent first, then its queue.
CheckRecipient(p) ==
  /\ pc[p] = "recipient"
  /\ draft[p].unchecked # {}
  /\ IF Available(CHOOSE a \in draft[p].unchecked : TRUE) THEN Keep(p, "queue") ELSE Done(p)
  /\ UNCHANGED messageVars

\* Mutant of QueueFull: one message too many.
QueueOverfull(a) == QueueDepth(a) > MaxQueueDepth

\* QUEUE_FULL.
QueueFull(a) == QueueDepth(a) >= MaxQueueDepth

CheckQueue(p) ==
  /\ pc[p] = "queue"
  /\ LET a == CHOOSE a \in draft[p].unchecked : TRUE IN
     IF QueueFull(a)
     THEN Done(p)
     ELSE /\ To(p, "recipient")
          /\ draft' = [draft EXCEPT ![p].unchecked = @ \ {a}]
          /\ UNCHANGED stale
  /\ UNCHANGED messageVars

\* Mutant of Create: no unique index.
CreateAgain(p) ==
  /\ pc[p] = "recipient"
  /\ draft[p].unchecked = {}
  /\ Len(groupMessages) < MaxGroupMessages
  /\ groupMessages' = Append(groupMessages,
       [group |-> draft[p].call.group, from |-> draft[p].call.from, key |-> draft[p].call.key,
        snapshot |-> draft[p].snapshot])
  /\ deliveries' = Append(deliveries, [a \in Recipients(p, draft[p].snapshot) |-> <<"unfinished">>])
  /\ Done(p)

\* The message and a delivery for each recipient, or an error of the unique index.
Create(p) ==
  /\ pc[p] = "recipient"
  /\ draft[p].unchecked = {}
  /\ LET c == draft[p].call IN
     IF SameKey(c) = {}
     THEN /\ Len(groupMessages) < MaxGroupMessages
          /\ groupMessages' = Append(groupMessages,
               [group |-> c.group, from |-> c.from, key |-> c.key,
                snapshot |-> draft[p].snapshot])
          /\ deliveries' = Append(deliveries,
               [a \in Recipients(p, draft[p].snapshot) |-> <<"unfinished">>])
     ELSE UNCHANGED messageVars
  /\ Done(p)

-----------------------------------------------------------------------------
(* retry.                                                                  *)

\* Mutant of Retryable: the recipients of whose deliveries any failed.
RetryableEver(m) ==
  {a \in DOMAIN deliveries[m] : \E n \in DOMAIN deliveries[m][a] : deliveries[m][a][n] = "failed"}

\* Mutant of Retryable: all recipients.
RetryableAny(m) == DOMAIN deliveries[m]

\* latestDeliveries, filtered: the recipients of whose deliveries the last failed.
Retryable(m) == {a \in DOMAIN deliveries[m] : Last(deliveries[m][a]) = "failed"}

Retry(p, m, requested) ==
  /\ Begin
  /\ pc[p] = "idle"
  /\ Available(Sender[p])
  /\ groupMessages[m].from = Sender[p]
  /\ To(p, "retry")
  /\ draft' = [draft EXCEPT ![p] = [call |-> groupMessages[m], message |-> m,
                                    requested |-> requested]]
  /\ UNCHANGED <<messageVars, stale>>

\* One transaction: all the requested recipients that failed, or none.
RetryDeliveries(p) ==
  /\ pc[p] = "retry"
  /\ LET m == draft[p].message
         again == draft[p].requested \cap Retryable(m) IN
     /\ \A a \in again : Len(deliveries[m][a]) < MaxSequence
     /\ IF \A a \in again : Available(a) /\ ~QueueFull(a)
        THEN deliveries' = [deliveries EXCEPT ![m] =
               [a \in DOMAIN @ |-> IF a \in again THEN Append(@[a], "unfinished") ELSE @[a]]]
        ELSE UNCHANGED deliveries
  /\ Done(p)
  /\ UNCHANGED groupMessages

Crash(p) ==
  /\ pc[p] # "idle"
  /\ Done(p)
  /\ UNCHANGED messageVars

-----------------------------------------------------------------------------
\* The scheduler ends a delivery.
Settle(m, a, k, outcome) ==
  /\ deliveries[m][a][k] = "unfinished"
  /\ deliveries' = [deliveries EXCEPT ![m][a][k] = outcome]
  /\ UNCHANGED <<groupMessages, pc, draft, stale>>

CommandStep ==
  \/ \E g \in Group, a \in Agent : CreateGroup(g, a) \/ AddMember(g, a) \/ RemoveMember(g, a)
  \/ \E c \in Operator : \/ \E g \in Group, s \in GroupStatus : ReadGroupStatus(c, g, s)
                         \/ WriteGroupStatus(c)

BeginCall(p) ==
  \/ \E c \in GroupCall : Send(p, c)
  \/ \E m \in DOMAIN groupMessages : \E r \in SUBSET DOMAIN deliveries[m] : Retry(p, m, r)

CallStep(p) ==
  \/ ReadGroup(p) \/ ReadCaller(p) \/ FindDuplicate(p) \/ ReadMembers(p)
  \/ CheckRecipient(p) \/ CheckQueue(p) \/ Create(p)
  \/ RetryDeliveries(p) \/ Crash(p)

SettleStep ==
  \E m \in DOMAIN deliveries : \E a \in DOMAIN deliveries[m] :
    \E k \in DOMAIN deliveries[m][a], outcome \in {"completed", "failed"} :
      Settle(m, a, k, outcome)

Next ==
  \/ RegistryNext /\ UNCHANGED groupVars
  \/ CommandStep /\ UNCHANGED <<agents, generations, intent, raced, messageVars, pc, draft>>
  \/ (\E p \in Proc : BeginCall(p)) /\ UNCHANGED <<agents, generations, intent, raced, adminVars>>
  \/ (SettleStep \/ \E p \in Proc : CallStep(p)) /\ UNCHANGED <<registryVars, adminVars>>

Spec == Init /\ [][Next]_vars
=============================================================================
