-------------------------- MODULE GroupMessagingProofs --------------------------
(* Proofs about groups, for every number of processes, groups, agents,        *)
(* commands and messages.                                                     *)
EXTENDS GroupMessagingProperties, AgentRegistryProofs, FiniteSetTheorems, TLAPS

SendPlaces == {"group", "member", "key", "members", "recipient", "queue"}
State == {"unfinished", "completed", "failed"}
Fanout == UNION {[R -> Seq(State) \ {<<>>}] : R \in SUBSET Agent}

MessageRow ==
  [group : Group, from : Agent, key : {c.key : c \in GroupCall}, snapshot : SUBSET Agent]

(* The tables of groups, and what commands on them have read.                *)
GroupIntentOK(i) ==
  /\ i \in [group : Group, status : GroupStatus, read : GroupStatus]
  /\ i.group \in Created
  /\ i.read = "deleted" => i.status = "deleted"

AdminOK ==
  /\ Created \subseteq Group
  /\ groups \in [Created -> [owner : Agent, status : GroupStatus]]
  /\ members \in [Created -> [Agent -> Membership]]
  /\ DOMAIN groupIntent = Operator
  /\ \A c \in Operator : groupIntent[c] # Nothing => GroupIntentOK(groupIntent[c])

(* The tables of group messages.                                             *)
MessagesOK ==
  /\ groupMessages \in Seq(MessageRow)
  /\ deliveries \in Seq(Fanout)
  /\ Len(deliveries) = Len(groupMessages)

(* What a process at a place of its call has read.                           *)
DraftFits(p, place, d) ==
  /\ place = "idle" => d = Nothing
  /\ place \in SendPlaces => d \in [call : {c \in GroupCall : c.from = Sender[p]},
                                    snapshot : SUBSET Agent, unchecked : SUBSET Agent]
  /\ place = "retry" => d.message \in DOMAIN groupMessages

CallsOK ==
  /\ pc \in [Proc -> SendPlaces \cup {"idle", "retry"}]
  /\ draft = [p \in Proc |-> draft[p]]
  /\ \A p \in Proc : DraftFits(p, pc[p], draft[p])
  /\ stale \subseteq {p \in Proc : pc[p] # "idle"}

(* What it has read of its group is still so.                                *)
StillSo(p, place, d) ==
  /\ place \in {"member", "key", "members", "recipient", "queue"} =>
       d.call.group \in Created /\ groups[d.call.group].status = "active"
  /\ place \in {"key", "members", "recipient", "queue"} => Sender[p] \in Members(d.call.group)
  /\ place \in {"recipient", "queue"} => d.snapshot = Members(d.call.group)

Fresh == \A p \in Proc \ stale : StillSo(p, pc[p], draft[p])

(* The queues, which are finite.                                             *)
QueuesOK == GroupQueueBounded /\ \A a \in Agent : IsFiniteSet(Unfinished(a))

GroupInvariant ==
  /\ RegistryInvariant /\ AdminOK /\ MessagesOK /\ OneGroupMessagePerKey /\ DeliveredOnce
  /\ CallsOK /\ Fresh /\ QueuesOK

LEMMA FanoutElement ==
  ASSUME NEW f
  PROVE  f \in Fanout <=> /\ DOMAIN f \subseteq Agent
                          /\ f \in [DOMAIN f -> Seq(State) \ {<<>>}]
<1>1. ASSUME f \in Fanout
      PROVE  DOMAIN f \subseteq Agent /\ f \in [DOMAIN f -> Seq(State) \ {<<>>}]
  <2>1. PICK R \in SUBSET Agent : f \in [R -> Seq(State) \ {<<>>}]
    BY <1>1 DEF Fanout
  <2>2. QED
    BY <2>1
<1>2. ASSUME DOMAIN f \subseteq Agent, f \in [DOMAIN f -> Seq(State) \ {<<>>}]
      PROVE  f \in Fanout
  BY <1>2 DEF Fanout
<1>3. QED
  BY <1>1, <1>2

(* What a recipient's deliveries hold when one is added.                     *)
LEMMA LastOrBefore ==
  ASSUME NEW s \in Seq(State), NEW k \in DOMAIN Append(s, "unfinished")
  PROVE  \/ k = Len(s) + 1
         \/ k \in DOMAIN s /\ Append(s, "unfinished")[k] = s[k]
BY DEF State

(* A place in the queue of a.                                                *)
LEMMA UnfinishedElement ==
  ASSUME NEW a, NEW x
  PROVE  x \in Unfinished(a) <=>
           \E m \in DOMAIN deliveries :
             /\ a \in DOMAIN deliveries[m]
             /\ \E k \in DOMAIN deliveries[m][a] : x = <<m, k>> /\ deliveries[m][a][k] = "unfinished"
BY DEF Unfinished

LEMMA PlacesFinite ==
  ASSUME NEW a
  PROVE  /\ IsFiniteSet(Places(a)) /\ Cardinality(Places(a)) \in Nat
         /\ Cardinality(Proc) \in Nat /\ Cardinality(Places(a)) <= Cardinality(Proc)
<1>1. Places(a) \in SUBSET Proc
  BY DEF Places
<1>2. QED
  BY <1>1, GroupAssumption, FS_Subset, FS_CardinalityType

LEMMA GroupsStart == Init => GroupInvariant
<1> SUFFICES ASSUME Init PROVE GroupInvariant
  OBVIOUS
<1> USE GroupAssumption
<1>1. RegistryInvariant
  BY RegistryStarts DEF Init
<1>2. AdminOK
  <2>1. Founded \subseteq Agent
    BY RegistryAssumption
  <2>2. \A o \in Agent, R \in SUBSET Agent : MembersOf(o, R) \in [Agent -> Membership]
    BY DEF MembersOf, Membership
  <2>3. \A g \in DOMAIN FirstOwner : FirstOwner[g] \in Agent /\ FirstMembers[g] \in SUBSET Agent
    BY <2>1
  <2>4. QED
    BY <2>2, <2>3 DEF Init, GroupInit, AdminOK, Created, GroupStatus
<1>3. MessagesOK /\ OneGroupMessagePerKey /\ DeliveredOnce
  BY DEF Init, GroupInit, MessagesOK, OneGroupMessagePerKey, DeliveredOnce
<1>4. CallsOK /\ Fresh
  BY DEF Init, GroupInit, CallsOK, DraftFits, SendPlaces, Fresh, StillSo
<1>5. QueuesOK
  <2>1. ASSUME NEW a \in Agent
        PROVE  Unfinished(a) = {} /\ Places(a) = {}
    BY DEF Init, GroupInit, Unfinished, Places
  <2>2. ASSUME NEW a \in Agent
        PROVE  QueueDepth(a) + Cardinality(Places(a)) <= MaxQueueDepth + Cardinality(Proc) - 1
    <3>1. QueueDepth(a) = 0 /\ Cardinality(Places(a)) = 0
      BY <2>1, FS_EmptySet DEF QueueDepth
    <3>2. QED
      BY <3>1, FS_CardinalityType
  <2>3. QED
    BY <2>1, <2>2, FS_EmptySet DEF QueuesOK, GroupQueueBounded
<1>6. QED
  BY <1>1, <1>2, <1>3, <1>4, <1>5 DEF GroupInvariant

(* Commands on groups.                                                       *)
LEMMA CommandAdmin ==
  ASSUME GroupInvariant, CommandStep
  PROVE  AdminOK'
<1> USE DEF GroupInvariant
<1>1. Registered \subseteq Agent
  BY DEF RegistryInvariant, RegistryTypeOK
<1>2. ASSUME NEW g \in Group, NEW a \in Agent, CreateGroup(g, a)
      PROVE  AdminOK'
  <2>1. MembersOf(a, {}) \in [Agent -> Membership]
    BY DEF MembersOf, Membership
  <2>2. Created' = Created \cup {g} /\ groupIntent' = groupIntent
    BY <1>2 DEF CreateGroup, Created
  <2>3. /\ groups' \in [Created' -> [owner : Agent, status : GroupStatus]]
        /\ members' \in [Created' -> [Agent -> Membership]]
    BY <1>2, <2>1, <2>2 DEF CreateGroup, AdminOK, GroupStatus
  <2>4. QED
    BY <2>2, <2>3 DEF AdminOK, GroupIntentOK
<1>3. ASSUME NEW g \in Group, NEW a \in Agent, AddMember(g, a) \/ RemoveMember(g, a)
      PROVE  AdminOK'
  <2>1. /\ groups' = groups /\ groupIntent' = groupIntent /\ Created' = Created
        /\ members' \in [Created -> [Agent -> Membership]]
    BY <1>3 DEF AddMember, RemoveMember, AdminOK, Created, Membership
  <2>2. QED
    BY <2>1 DEF AdminOK, GroupIntentOK
<1>4. ASSUME NEW c \in Operator, NEW g \in Group, NEW s \in GroupStatus, ReadGroupStatus(c, g, s)
      PROVE  AdminOK'
  <2> DEFINE i == [group |-> g, status |-> s, read |-> groups[g].status]
  <2>1. /\ groups' = groups /\ members' = members /\ Created' = Created
        /\ groupIntent' = [groupIntent EXCEPT ![c] = i] /\ g \in Created /\ MayMove(g, s)
    BY <1>4 DEF ReadGroupStatus, Created
  <2>2. GroupIntentOK(i)'
    BY <2>1 DEF GroupIntentOK, MayMove, AdminOK
  <2>3. \A d \in Operator : groupIntent'[d] # Nothing => GroupIntentOK(groupIntent[d])'
    BY <2>1, <2>2 DEF AdminOK, GroupIntentOK
  <2>4. QED
    BY <2>1, <2>3 DEF AdminOK
<1>5. ASSUME NEW c \in Operator, WriteGroupStatus(c)
      PROVE  AdminOK'
  <2> DEFINE i == groupIntent[c]
  <2>1. /\ GroupIntentOK(i) /\ members' = members
        /\ groups' = [groups EXCEPT ![i.group].status = i.status]
        /\ groupIntent' = [groupIntent EXCEPT ![c] = Nothing]
    BY <1>5 DEF WriteGroupStatus, AdminOK
  <2>2. [groups[i.group] EXCEPT !.status = i.status] \in [owner : Agent, status : GroupStatus]
    BY <2>1 DEF GroupIntentOK, AdminOK
  <2>3. Created' = Created /\ groups' \in [Created -> [owner : Agent, status : GroupStatus]]
    BY <2>1, <2>2 DEF AdminOK, Created
  <2>4. \A d \in Operator : groupIntent'[d] # Nothing => GroupIntentOK(groupIntent[d])'
    BY <2>1, <2>3 DEF AdminOK, GroupIntentOK
  <2>5. QED
    BY <2>1, <2>3, <2>4 DEF AdminOK
<1>6. QED
  BY <1>2, <1>3, <1>4, <1>5 DEF CommandStep

(* A command that changes a group makes the calls in it stale.               *)
LEMMA CommandCalls ==
  ASSUME GroupInvariant, CommandStep, pc' = pc, draft' = draft, groupMessages' = groupMessages
  PROVE  CallsOK' /\ Fresh'
<1> USE DEF GroupInvariant
<1>1. stale' \subseteq {p \in Proc : pc[p] # "idle"}
  BY DEF CommandStep, CreateGroup, AddMember, RemoveMember, ReadGroupStatus, WriteGroupStatus,
         Unaware, CallsOK
<1>2. CallsOK'
  BY <1>1 DEF CallsOK, DraftFits
<1>3. PICK g \in Group :
        /\ \/ g \notin Created
           \/ stale' = stale \cup Unaware(g)
           \/ groups' = groups /\ members' = members /\ stale' = stale
        /\ \A h \in Created \ {g} : /\ h \in Created' /\ groups'[h] = groups[h]
                                    /\ members'[h] = members[h]
        /\ stale \subseteq stale'
  <2>1. ASSUME NEW g \in Group, NEW a \in Agent,
               CreateGroup(g, a) \/ AddMember(g, a) \/ RemoveMember(g, a)
        PROVE  /\ g \notin Created \/ stale' = stale \cup Unaware(g)
               /\ \A h \in Created \ {g} : /\ h \in Created' /\ groups'[h] = groups[h]
                                           /\ members'[h] = members[h]
               /\ stale \subseteq stale'
    BY <2>1 DEF CreateGroup, AddMember, RemoveMember, AdminOK, Created
  <2>2. ASSUME NEW c \in Operator, NEW g \in Group, NEW s \in GroupStatus, ReadGroupStatus(c, g, s)
        PROVE  groups' = groups /\ members' = members /\ stale' = stale
    BY <2>2 DEF ReadGroupStatus
  <2>3. ASSUME NEW c \in Operator, WriteGroupStatus(c)
        PROVE  \E g \in Group :
                 /\ stale' = stale \cup Unaware(g)
                 /\ \A h \in Created \ {g} : /\ h \in Created' /\ groups'[h] = groups[h]
                                             /\ members'[h] = members[h]
    <3>1. groupIntent[c].group \in Group
      BY <2>3 DEF WriteGroupStatus, AdminOK, GroupIntentOK
    <3>2. QED
      BY <2>3, <3>1 DEF WriteGroupStatus, AdminOK, Created
  <2>4. QED
    BY <2>1, <2>2, <2>3 DEF CommandStep, Created
<1>4. ASSUME NEW p \in Proc \ stale'
      PROVE  StillSo(p, pc[p], draft[p])'
  <2>1. p \notin stale /\ StillSo(p, pc[p], draft[p])
    BY <1>3, <1>4 DEF Fresh
  <2>2. CASE pc[p] \notin {"member", "key", "members", "recipient", "queue"}
    BY <2>2 DEF StillSo
  <2>3. CASE pc[p] \in {"member", "key", "members", "recipient", "queue"}
    <3> DEFINE h == draft[p].call.group
    <3>1. h \in Created
      BY <2>1, <2>3 DEF StillSo
    <3>2. CASE groups' = groups /\ members' = members
      BY <2>1, <3>2 DEF StillSo, Created, Members
    <3>3. CASE ~(groups' = groups /\ members' = members)
      <4>1. h # g
        BY <1>3, <1>4, <2>3, <3>1, <3>3 DEF Unaware
      <4>2. h \in Created' /\ groups'[h] = groups[h] /\ members'[h] = members[h]
        BY <1>3, <3>1, <4>1
      <4>3. QED
        BY <2>1, <4>2 DEF StillSo, Members
    <3>4. QED
      BY <3>2, <3>3
  <2>4. QED
    BY <2>2, <2>3
<1>5. QED
  BY <1>2, <1>4 DEF Fresh

(* A step of a call takes its process from one place to the next.            *)
LEMMA CallGoes ==
  ASSUME GroupInvariant, NEW p \in Proc, NEW place \in SendPlaces \cup {"idle", "retry"}, NEW d,
         pc' = [pc EXCEPT ![p] = place], draft' = [draft EXCEPT ![p] = d],
         stale' = stale \/ stale' = stale \ {p}, place = "idle" => p \notin stale',
         DOMAIN groupMessages \subseteq DOMAIN groupMessages',
         UNCHANGED <<groups, members>>,
         DraftFits(p, place, d), p \in stale' \/ StillSo(p, place, d)
  PROVE  CallsOK' /\ Fresh'

<1> USE DEF GroupInvariant
<1>1. /\ pc'[p] = place /\ draft'[p] = d
      /\ \A q \in Proc \ {p} : pc'[q] = pc[q] /\ draft'[q] = draft[q]
  BY DEF CallsOK
<1>2. \A q \in Proc : DraftFits(q, pc[q], draft[q])'
  BY <1>1 DEF CallsOK, DraftFits
<1>3. CallsOK'
  BY <1>1, <1>2 DEF CallsOK
<1>4. \A q \in Proc \ stale' : StillSo(q, pc[q], draft[q])'
  <2>1. ASSUME NEW q \in Proc, q # p, q \notin stale'
        PROVE  StillSo(q, pc[q], draft[q])'
    <3>1. StillSo(q, pc[q], draft[q])
      BY <2>1 DEF Fresh
    <3>2. pc'[q] = pc[q] /\ draft'[q] = draft[q]
      BY <1>1, <2>1
    <3>3. QED
      BY <3>1, <3>2 DEF StillSo, Created, Members
  <2>2. ASSUME p \notin stale'
        PROVE  StillSo(p, pc[p], draft[p])'
    BY <1>1, <2>2 DEF StillSo, Created, Members
  <2>3. QED
    BY <2>1, <2>2
<1>5. QED
  BY <1>3, <1>4 DEF Fresh

LEMMA CallEnds ==
  ASSUME GroupInvariant, NEW p \in Proc, Done(p),
         DOMAIN groupMessages \subseteq DOMAIN groupMessages', UNCHANGED <<groups, members>>
  PROVE  CallsOK' /\ Fresh'
BY CallGoes DEF Done, To, DraftFits, StillSo, SendPlaces

LEMMA CallKeeps ==
  ASSUME GroupInvariant, NEW p \in Proc, NEW place \in SendPlaces, Keep(p, place),
         pc[p] \in SendPlaces, p \in stale \/ StillSo(p, place, draft[p]),
         UNCHANGED <<groups, members, groupMessages>>
  PROVE  CallsOK' /\ Fresh'
<1>1. draft' = [draft EXCEPT ![p] = draft[p]]
  BY DEF Keep, GroupInvariant, CallsOK
<1>2. DraftFits(p, place, draft[p])
  BY DEF GroupInvariant, CallsOK, DraftFits, SendPlaces
<1>3. QED
  BY <1>1, <1>2, CallGoes DEF Keep, To, SendPlaces

LEMMA CallsStep ==
  ASSUME GroupInvariant, NEW p \in Proc, BeginCall(p) \/ CallStep(p), UNCHANGED <<groups, members>>
  PROVE  CallsOK' /\ Fresh'
<1> USE DEF GroupInvariant
<1>0. /\ DraftFits(p, pc[p], draft[p])
      /\ p \in stale \/ StillSo(p, pc[p], draft[p])
  BY DEF CallsOK, Fresh
<1>1. ASSUME NEW c \in GroupCall, Send(p, c)
      PROVE  CallsOK' /\ Fresh'
  <2> DEFINE d == [call |-> c, snapshot |-> {}, unchecked |-> {}]
  <2>1. DraftFits(p, "group", d) /\ StillSo(p, "group", d)
    BY <1>1 DEF Send, DraftFits, StillSo, SendPlaces
  <2>2. QED
    BY <1>1, <2>1, CallGoes DEF Send, To, messageVars, SendPlaces
<1>2. ASSUME NEW m \in DOMAIN groupMessages, NEW r \in SUBSET DOMAIN deliveries[m], Retry(p, m, r)
      PROVE  CallsOK' /\ Fresh'
  <2> DEFINE d == [call |-> groupMessages[m], message |-> m, requested |-> r]
  <2>1. DraftFits(p, "retry", d) /\ StillSo(p, "retry", d)
    BY DEF DraftFits, StillSo, SendPlaces
  <2>2. QED
    BY <1>2, <2>1, CallGoes DEF Retry, To, messageVars, SendPlaces
<1>3. CASE ReadGroup(p)
  BY <1>0, <1>3, CallEnds, CallKeeps DEF ReadGroup, messageVars, StillSo, SendPlaces
<1>4. CASE ReadCaller(p)
  BY <1>0, <1>4, CallEnds, CallKeeps DEF ReadCaller, messageVars, StillSo, SendPlaces
<1>5. CASE FindDuplicate(p)
  BY <1>0, <1>5, CallEnds, CallKeeps DEF FindDuplicate, messageVars, StillSo, SendPlaces
<1>6. CASE ReadMembers(p)
  <2> DEFINE S == Members(draft[p].call.group)
             d == [draft[p] EXCEPT !.snapshot = S, !.unchecked = Recipients(p, S)]
  <2>1. S \in SUBSET Agent /\ Recipients(p, S) \in SUBSET Agent
    BY DEF Members, Recipients
  <2>2. DraftFits(p, "recipient", d) /\ d.call = draft[p].call /\ d.snapshot = S
    BY <1>0, <1>6, <2>1 DEF ReadMembers, DraftFits, SendPlaces
  <2>3. p \in stale \/ StillSo(p, "recipient", d)
    BY <1>0, <1>6, <2>2 DEF ReadMembers, StillSo
  <2>4. CASE Done(p)
    BY <1>6, <2>4, CallEnds DEF ReadMembers, messageVars
  <2>5. CASE ~Done(p)
    <3>1. pc' = [pc EXCEPT ![p] = "recipient"] /\ draft' = [draft EXCEPT ![p] = d]
          /\ stale' = stale /\ groupMessages' = groupMessages
      BY <1>6, <2>5 DEF ReadMembers, To, messageVars
    <3>2. QED
      BY <2>2, <2>3, <3>1, CallGoes DEF SendPlaces
  <2>6. QED
    BY <2>4, <2>5
<1>7. CASE CheckRecipient(p)
  BY <1>0, <1>7, CallEnds, CallKeeps DEF CheckRecipient, messageVars, StillSo, SendPlaces
<1>8. CASE CheckQueue(p)
  <2> DEFINE a == CHOOSE b \in draft[p].unchecked : TRUE
             d == [draft[p] EXCEPT !.unchecked = @ \ {a}]
  <2>1. DraftFits(p, "recipient", d) /\ d.call = draft[p].call /\ d.snapshot = draft[p].snapshot
    BY <1>0, <1>8 DEF CheckQueue, DraftFits, SendPlaces
  <2>2. p \in stale \/ StillSo(p, "recipient", d)
    BY <1>0, <1>8, <2>1 DEF CheckQueue, StillSo
  <2>3. CASE Done(p)
    BY <1>8, <2>3, CallEnds DEF CheckQueue, messageVars
  <2>4. CASE ~Done(p)
    <3>1. pc' = [pc EXCEPT ![p] = "recipient"] /\ draft' = [draft EXCEPT ![p] = d]
          /\ stale' = stale /\ groupMessages' = groupMessages
      BY <1>8, <2>4 DEF CheckQueue, To, messageVars
    <3>2. QED
      BY <2>1, <2>2, <3>1, CallGoes DEF SendPlaces
  <2>5. QED
    BY <2>3, <2>4
<1>9. CASE Create(p)
  <2>1. Done(p) /\ DOMAIN groupMessages \subseteq DOMAIN groupMessages'
    BY <1>9 DEF Create, messageVars, MessagesOK
  <2>2. QED
    BY <2>1, CallEnds
<1>10. CASE RetryDeliveries(p) \/ Crash(p)
  BY <1>10, CallEnds DEF RetryDeliveries, Crash, messageVars
<1>11. QED
  BY <1>1, <1>2, <1>3, <1>4, <1>5, <1>6, <1>7, <1>8, <1>9, <1>10 DEF BeginCall, CallStep

(* The row and the deliveries that Create inserts.                           *)
LEMMA Inserted ==
  ASSUME GroupInvariant, NEW p \in Proc, Create(p), groupMessages' # groupMessages \/ deliveries' # deliveries
  PROVE  \E row \in MessageRow, f \in Fanout :
           /\ groupMessages' = Append(groupMessages, row)
           /\ deliveries' = Append(deliveries, f)
           /\ row.from = Sender[p] /\ row.snapshot = draft[p].snapshot
           /\ row.group = draft[p].call.group
           /\ f = [a \in draft[p].snapshot \ {Sender[p]} |-> <<"unfinished">>]
           /\ \A m \in DOMAIN groupMessages :
                row.key = NoKey \/ groupMessages[m].from # row.from \/ groupMessages[m].key # row.key
<1> DEFINE c == draft[p].call
           row == [group |-> c.group, from |-> c.from, key |-> c.key, snapshot |-> draft[p].snapshot]
           f == [a \in draft[p].snapshot \ {Sender[p]} |-> <<"unfinished">>]
<1>1. /\ SameKey(c) = {}
      /\ groupMessages' = Append(groupMessages, row)
      /\ deliveries' = Append(deliveries, f)
  BY DEF Create, messageVars, Recipients
<1>2. c \in GroupCall /\ c.from = Sender[p] /\ draft[p].snapshot \in SUBSET Agent
  BY DEF GroupInvariant, CallsOK, DraftFits, Create, SendPlaces
<1>3. row \in MessageRow
  BY <1>2, GroupAssumption DEF MessageRow
<1>4. f \in Fanout
  <2>1. DOMAIN f \subseteq Agent /\ f \in [DOMAIN f -> Seq(State) \ {<<>>}]
    BY <1>2 DEF State
  <2>2. QED
    BY <2>1, FanoutElement
<1>5. \A m \in DOMAIN groupMessages :
        row.key = NoKey \/ groupMessages[m].from # row.from \/ groupMessages[m].key # row.key
  BY <1>1 DEF SameKey
<1>6. QED
  BY <1>1, <1>2, <1>3, <1>4, <1>5

LEMMA CreateStep ==
  ASSUME GroupInvariant, NEW p \in Proc, Create(p)
  PROVE  MessagesOK' /\ OneGroupMessagePerKey' /\ DeliveredOnce'
<1> USE DEF GroupInvariant
<1>1. CASE groupMessages' = groupMessages /\ deliveries' = deliveries
  BY <1>1 DEF MessagesOK, OneGroupMessagePerKey, DeliveredOnce
<1>2. CASE ~(groupMessages' = groupMessages /\ deliveries' = deliveries)
  <2>1. PICK row \in MessageRow, f \in Fanout :
          /\ groupMessages' = Append(groupMessages, row)
          /\ deliveries' = Append(deliveries, f)
          /\ row.from = Sender[p] /\ row.snapshot = draft[p].snapshot
          /\ f = [a \in draft[p].snapshot \ {Sender[p]} |-> <<"unfinished">>]
          /\ \A m \in DOMAIN groupMessages :
               row.key = NoKey \/ groupMessages[m].from # row.from \/ groupMessages[m].key # row.key
    BY <1>2, Inserted
  <2> DEFINE n == Len(groupMessages) + 1
  <2>2. /\ DOMAIN groupMessages = 1 .. n - 1 /\ DOMAIN deliveries = 1 .. n - 1
        /\ n \in Nat /\ Len(deliveries) = n - 1
    BY DEF MessagesOK
  <2>3. /\ DOMAIN groupMessages' = 1 .. n /\ groupMessages'[n] = row
        /\ \A m \in 1 .. n - 1 : groupMessages'[m] = groupMessages[m]
    BY <2>1 DEF MessagesOK
  <2>4. /\ DOMAIN deliveries' = 1 .. n /\ deliveries'[n] = f
        /\ \A m \in 1 .. n - 1 : deliveries'[m] = deliveries[m]
    BY <2>1, <2>2 DEF MessagesOK
  <2>5. MessagesOK'
    BY <2>1 DEF MessagesOK
  <2>6. \A m \in 1 .. n : m = n \/ m \in 1 .. n - 1
    BY <2>2
  <2>7. OneGroupMessagePerKey'
    BY <2>1, <2>2, <2>3, <2>6 DEF OneGroupMessagePerKey
  <2>8. ASSUME NEW m \in 1 .. n
        PROVE  /\ DOMAIN deliveries'[m] = groupMessages'[m].snapshot \ {groupMessages'[m].from}
               /\ \A a \in DOMAIN deliveries'[m] :
                    \A k \in 1 .. Len(deliveries'[m][a]) - 1 : deliveries'[m][a][k] = "failed"
    <3>1. CASE m = n
      BY <2>1, <2>3, <2>4, <3>1
    <3>2. CASE m \in 1 .. n - 1
      BY <2>2, <2>3, <2>4, <3>2 DEF DeliveredOnce
    <3>3. QED
      BY <2>6, <3>1, <3>2
  <2>9. QED
    BY <2>3, <2>5, <2>7, <2>8 DEF DeliveredOnce
<1>3. QED
  BY <1>1, <1>2

(* One row of deliveries is replaced; its recipients stay.                   *)
LEMMA RowReplaced ==
  ASSUME GroupInvariant, NEW m \in DOMAIN deliveries, NEW f, DOMAIN f = DOMAIN deliveries[m],
         deliveries' = [deliveries EXCEPT ![m] = f], groupMessages' = groupMessages,
         \A a \in DOMAIN f : f[a] \in Seq(State) \ {<<>>},
         f = [a \in DOMAIN f |-> f[a]],
         \A a \in DOMAIN f : \A k \in 1 .. Len(f[a]) - 1 : f[a][k] = "failed"
  PROVE  MessagesOK' /\ OneGroupMessagePerKey' /\ DeliveredOnce'
<1> USE DEF GroupInvariant
<1>1. deliveries[m] \in Fanout
  BY DEF MessagesOK
<1>2. f \in Fanout
  <2>1. DOMAIN f \subseteq Agent
    BY <1>1, FanoutElement
  <2>2. f \in [DOMAIN f -> Seq(State) \ {<<>>}]
    OBVIOUS
  <2>3. QED
    BY <2>1, <2>2, FanoutElement
<1>3. MessagesOK'
  BY <1>2 DEF MessagesOK
<1>4. OneGroupMessagePerKey'
  BY DEF OneGroupMessagePerKey
<1>5. DeliveredOnce'
  <2>1. DOMAIN groupMessages = DOMAIN deliveries
    BY DEF MessagesOK
  <2>2. \A n \in DOMAIN deliveries : deliveries'[n] = IF n = m THEN f ELSE deliveries[n]
    OBVIOUS
  <2>3. ASSUME NEW n \in DOMAIN groupMessages
        PROVE  /\ DOMAIN deliveries'[n] = groupMessages[n].snapshot \ {groupMessages[n].from}
               /\ \A a \in DOMAIN deliveries'[n] :
                    \A k \in 1 .. Len(deliveries'[n][a]) - 1 : deliveries'[n][a][k] = "failed"
    <3>1. CASE n = m
      <4>1. deliveries'[n] = f
        BY <3>1
      <4>2. DOMAIN f = groupMessages[n].snapshot \ {groupMessages[n].from}
        BY <2>1, <3>1 DEF DeliveredOnce
      <4>3. QED
        BY <4>1, <4>2
    <3>2. CASE n # m
      <4>1. deliveries'[n] = deliveries[n]
        BY <2>1, <3>2
      <4>2. QED
        BY <4>1 DEF DeliveredOnce
    <3>3. QED
      BY <3>1, <3>2
  <2>4. QED
    BY <2>3 DEF DeliveredOnce
<1>6. QED
  BY <1>3, <1>4, <1>5

LEMMA RowElement ==
  ASSUME MessagesOK, NEW m \in DOMAIN deliveries, NEW a \in DOMAIN deliveries[m]
  PROVE  /\ a \in Agent
         /\ deliveries[m][a] \in Seq(State) /\ deliveries[m][a] # <<>>
         /\ Len(deliveries[m][a]) \in DOMAIN deliveries[m][a]
         /\ DOMAIN deliveries[m][a] = 1 .. Len(deliveries[m][a])
<1>1. deliveries[m] \in Fanout
  BY DEF MessagesOK
<1>2. a \in Agent /\ deliveries[m][a] \in Seq(State) \ {<<>>}
  BY <1>1, FanoutElement
<1>3. QED
  BY <1>2

(* A failed delivery is followed by another, or the last one is settled.      *)
LEMMA OneMore ==
  ASSUME NEW s \in Seq(State) \ {<<>>}, \A k \in 1 .. Len(s) : s[k] = "failed"
  PROVE  /\ Append(s, "unfinished") \in Seq(State) \ {<<>>}
         /\ \A k \in 1 .. Len(Append(s, "unfinished")) - 1 : Append(s, "unfinished")[k] = "failed"
<1>1. Append(s, "unfinished") \in Seq(State) \ {<<>>}
  BY DEF State
<1>2. Len(s) \in Nat /\ Len(Append(s, "unfinished")) = Len(s) + 1
  OBVIOUS
<1>3. Len(Append(s, "unfinished")) - 1 = Len(s)
  BY <1>2
<1>4. \A k \in 1 .. Len(s) : Append(s, "unfinished")[k] = s[k]
  OBVIOUS
<1>5. QED
  BY <1>1, <1>3, <1>4

LEMMA LastSettled ==
  ASSUME NEW s \in Seq(State) \ {<<>>}, \A k \in 1 .. Len(s) - 1 : s[k] = "failed", NEW v \in State
  PROVE  /\ [s EXCEPT ![Len(s)] = v] \in Seq(State) \ {<<>>}
         /\ \A k \in 1 .. Len([s EXCEPT ![Len(s)] = v]) - 1 : [s EXCEPT ![Len(s)] = v][k] = "failed"
<1>1. [s EXCEPT ![Len(s)] = v] \in Seq(State) /\ Len([s EXCEPT ![Len(s)] = v]) = Len(s)
  OBVIOUS
<1>2. Len(s) \in Nat \ {0}
  OBVIOUS
<1>3. \A k \in 1 .. Len(s) - 1 : k \in DOMAIN s /\ k # Len(s)
  BY <1>2
<1>4. \A k \in 1 .. Len(s) - 1 : [s EXCEPT ![Len(s)] = v][k] = s[k]
  BY <1>3
<1>5. [s EXCEPT ![Len(s)] = v] # <<>>
  BY <1>1, <1>2
<1>6. QED
  BY <1>1, <1>4, <1>5

LEMMA RetryStep ==
  ASSUME GroupInvariant, NEW p \in Proc, RetryDeliveries(p)
  PROVE  MessagesOK' /\ OneGroupMessagePerKey' /\ DeliveredOnce'
<1> DEFINE m == draft[p].message
           again == draft[p].requested \cap Retryable(m)
           f == [a \in DOMAIN deliveries[m] |->
                   IF a \in again THEN Append(deliveries[m][a], "unfinished") ELSE deliveries[m][a]]
<1>1. CASE deliveries' = deliveries
  BY <1>1 DEF RetryDeliveries, GroupInvariant, MessagesOK, OneGroupMessagePerKey, DeliveredOnce
<1>2. CASE deliveries' # deliveries
  <2>1. deliveries' = [deliveries EXCEPT ![m] = f] /\ groupMessages' = groupMessages
    BY <1>2 DEF RetryDeliveries
  <2>2. m \in DOMAIN deliveries /\ DOMAIN groupMessages = DOMAIN deliveries
    BY DEF RetryDeliveries, GroupInvariant, CallsOK, DraftFits, MessagesOK
  <2>3. ASSUME NEW a \in DOMAIN deliveries[m]
        PROVE  /\ f[a] \in Seq(State) \ {<<>>}
               /\ \A k \in 1 .. Len(f[a]) - 1 : f[a][k] = "failed"
    <3> DEFINE s == deliveries[m][a]
    <3>1. s \in Seq(State) /\ s # <<>> /\ Len(s) \in DOMAIN s
      BY <2>2, RowElement DEF GroupInvariant
    <3>2. \A k \in 1 .. Len(s) - 1 : s[k] = "failed"
      BY <2>2 DEF GroupInvariant, DeliveredOnce
    <3>3. CASE a \notin again
      BY <3>1, <3>2, <3>3
    <3>4. CASE a \in again
      <4>1. s[Len(s)] = "failed"
        BY <3>4 DEF Retryable, Last
      <4>2. \A k \in 1 .. Len(s) : s[k] = "failed"
        BY <3>1, <3>2, <4>1
      <4>3. f[a] = Append(s, "unfinished")
        BY <3>4
      <4>4. QED
        BY <3>1, <4>2, <4>3, OneMore
    <3>5. QED
      BY <3>3, <3>4
  <2>4. DOMAIN f = DOMAIN deliveries[m] /\ f = [a \in DOMAIN f |-> f[a]]
    OBVIOUS
  <2>5. \A a \in DOMAIN f : /\ f[a] \in Seq(State) \ {<<>>}
                            /\ \A k \in 1 .. Len(f[a]) - 1 : f[a][k] = "failed"
    BY <2>3, <2>4
  <2> HIDE DEF f
  <2>6. QED
    BY <2>1, <2>2, <2>4, <2>5, RowReplaced
<1>3. QED
  BY <1>1, <1>2

LEMMA SettleOK ==
  ASSUME GroupInvariant, NEW m \in DOMAIN deliveries, NEW a \in DOMAIN deliveries[m],
         NEW k \in DOMAIN deliveries[m][a], NEW outcome \in {"completed", "failed"},
         Settle(m, a, k, outcome)
  PROVE  MessagesOK' /\ OneGroupMessagePerKey' /\ DeliveredOnce'
<1> DEFINE s == deliveries[m][a]
           f == [deliveries[m] EXCEPT ![a][k] = outcome]
<1>1. deliveries[m] = [b \in DOMAIN deliveries[m] |-> deliveries[m][b]]
  <2>1. deliveries[m] \in Fanout
    BY DEF GroupInvariant, MessagesOK
  <2>2. QED
    BY <2>1, FanoutElement
<1>2. /\ deliveries' = [deliveries EXCEPT ![m] = f] /\ groupMessages' = groupMessages
      /\ s[k] = "unfinished"
  BY DEF Settle
<1>3. /\ DOMAIN f = DOMAIN deliveries[m] /\ f = [b \in DOMAIN f |-> f[b]]
      /\ f[a] = [s EXCEPT ![k] = outcome]
      /\ \A b \in DOMAIN f \ {a} : f[b] = deliveries[m][b]
  BY <1>1
<1>4. \A b \in DOMAIN deliveries[m] :
        /\ deliveries[m][b] \in Seq(State) /\ deliveries[m][b] # <<>>
        /\ \A j \in 1 .. Len(deliveries[m][b]) - 1 : deliveries[m][b][j] = "failed"
  <2>1. m \in DOMAIN groupMessages
    BY DEF GroupInvariant, MessagesOK
  <2>2. QED
    BY <2>1, RowElement DEF GroupInvariant, DeliveredOnce
<1>5. k = Len(s)
  <2>1. s \in Seq(State) /\ \A j \in 1 .. Len(s) - 1 : s[j] # "unfinished"
    BY <1>4
  <2>2. s[k] = "unfinished" /\ k \in DOMAIN s
    BY <1>2
  <2> HIDE DEF s
  <2>3. QED
    BY <2>1, <2>2
<1>6. f[a] \in Seq(State) /\ f[a] # <<>> /\ \A j \in 1 .. Len(f[a]) - 1 : f[a][j] = "failed"
  <2>1. s \in Seq(State) \ {<<>>} /\ \A j \in 1 .. Len(s) - 1 : s[j] = "failed"
    BY <1>4
  <2>2. f[a] = [s EXCEPT ![Len(s)] = outcome] /\ outcome \in State
    BY <1>3, <1>5 DEF State
  <2> HIDE DEF s, f
  <2>3. QED
    BY <2>1, <2>2, LastSettled
<1>7. \A b \in DOMAIN f : /\ f[b] \in Seq(State) \ {<<>>}
                         /\ \A j \in 1 .. Len(f[b]) - 1 : f[b][j] = "failed"
  BY <1>3, <1>4, <1>6
<1>8. QED
  <2> HIDE DEF f
  <2>1. DOMAIN f = DOMAIN deliveries[m]
    BY <1>3
  <2>2. f = [b \in DOMAIN f |-> f[b]]
    BY <1>3
  <2>3. deliveries' = [deliveries EXCEPT ![m] = f]
    BY <1>2
  <2>4. groupMessages' = groupMessages
    BY <1>2
  <2>5. \A b \in DOMAIN f : f[b] \in Seq(State) \ {<<>>}
    BY <1>7
  <2>6. \A b \in DOMAIN f : \A j \in 1 .. Len(f[b]) - 1 : f[b][j] = "failed"
    BY <1>7
  <2>7. QED
    BY <2>1, <2>2, <2>3, <2>4, <2>5, <2>6, RowReplaced

(* A queue and the places taken in it, before and after.                     *)
LEMMA QueueNumbers ==
  ASSUME GroupInvariant, NEW a \in Agent
  PROVE  /\ IsFiniteSet(Unfinished(a)) /\ QueueDepth(a) \in Nat
         /\ QueueDepth(a) + Cardinality(Places(a)) <= MaxQueueDepth + Cardinality(Proc) - 1
         /\ MaxQueueDepth \in Nat
<1>1. IsFiniteSet(Unfinished(a))
  BY DEF GroupInvariant, QueuesOK
<1>2. QED
  BY <1>1, FS_CardinalityType, GroupAssumption
     DEF GroupInvariant, QueuesOK, GroupQueueBounded, QueueDepth

(* No queue grows, and no process finds room.                                *)
LEMMA QueuesShrink ==
  ASSUME GroupInvariant,
         \A a \in Agent : Unfinished(a)' \subseteq Unfinished(a),
         \A a \in Agent : Places(a)' \subseteq Places(a)
  PROVE  QueuesOK'
<1>1. ASSUME NEW a \in Agent
      PROVE  /\ IsFiniteSet(Unfinished(a))'
             /\ QueueDepth(a)' + Cardinality(Places(a)') <= MaxQueueDepth + Cardinality(Proc) - 1
  <2>1. /\ IsFiniteSet(Unfinished(a)')
        /\ Cardinality(Unfinished(a)') <= Cardinality(Unfinished(a))
        /\ Cardinality(Unfinished(a)') \in Nat
    BY QueueNumbers, FS_Subset, FS_CardinalityType
  <2>2. /\ Cardinality(Places(a)') <= Cardinality(Places(a))
        /\ Cardinality(Places(a)') \in Nat /\ Cardinality(Places(a)) \in Nat
        /\ Cardinality(Proc) \in Nat
    BY PlacesFinite, FS_Subset, FS_CardinalityType
  <2>3. QED
    BY <2>1, <2>2, QueueNumbers DEF QueueDepth
<1>2. QED
  BY <1>1 DEF QueuesOK, GroupQueueBounded

(* What becomes of the places when one process goes on.                      *)
LEMMA PlacesMove ==
  ASSUME GroupInvariant, NEW p \in Proc, NEW place, NEW d, NEW a,
         pc' = [pc EXCEPT ![p] = place], draft' = [draft EXCEPT ![p] = d],
         place \in {"recipient", "queue"} /\ a \in Recipients(p, d.snapshot) \ d.unchecked =>
           p \in Places(a)
  PROVE  Places(a)' \subseteq Places(a)
<1>1. pc'[p] = place /\ draft'[p] = d
  BY DEF GroupInvariant, CallsOK
<1>2. \A q \in Proc \ {p} : pc'[q] = pc[q] /\ draft'[q] = draft[q]
  BY DEF GroupInvariant, CallsOK
<1>3. QED
  BY <1>1, <1>2 DEF Places, Recipients

LEMMA QueuesEnd ==
  ASSUME GroupInvariant, NEW p \in Proc, Done(p), deliveries' = deliveries
  PROVE  QueuesOK'
<1>1. \A a \in Agent : Unfinished(a)' \subseteq Unfinished(a)
  BY DEF Unfinished
<1>2. \A a \in Agent : Places(a)' \subseteq Places(a)
  BY PlacesMove DEF Done, To
<1>3. QED
  BY <1>1, <1>2, QueuesShrink

LEMMA QueuesKeep ==
  ASSUME GroupInvariant, NEW p \in Proc, NEW place, Keep(p, place), deliveries' = deliveries,
         place \in {"recipient", "queue"} => pc[p] \in {"recipient", "queue"}
  PROVE  QueuesOK'
<1>1. \A a \in Agent : Unfinished(a)' \subseteq Unfinished(a)
  BY DEF Unfinished
<1>2. ASSUME NEW a \in Agent
      PROVE  Places(a)' \subseteq Places(a)
  BY DEF Keep, To, Places, Recipients, GroupInvariant, CallsOK
<1>3. QED
  BY <1>1, <1>2, QueuesShrink

LEMMA QueuesCheck ==
  ASSUME GroupInvariant, NEW p \in Proc, CheckQueue(p)
  PROVE  QueuesOK'
<1> DEFINE b == CHOOSE c \in draft[p].unchecked : TRUE
           d == [draft[p] EXCEPT !.unchecked = @ \ {b}]
<1>1. deliveries' = deliveries
  BY DEF CheckQueue, messageVars
<1>2. CASE Done(p)
  BY <1>1, <1>2, QueuesEnd
<1>3. CASE ~Done(p)
  <2>1. /\ pc[p] = "queue" /\ ~QueueFull(b)
        /\ pc' = [pc EXCEPT ![p] = "recipient"] /\ draft' = [draft EXCEPT ![p] = d]
    BY <1>3 DEF CheckQueue, To
  <2>2. /\ d.snapshot = draft[p].snapshot /\ d.unchecked = draft[p].unchecked \ {b}
    BY <2>1 DEF GroupInvariant, CallsOK, DraftFits, SendPlaces
  <2>3. ASSUME NEW a \in Agent
        PROVE  /\ IsFiniteSet(Unfinished(a))'
               /\ QueueDepth(a)' + Cardinality(Places(a)') <= MaxQueueDepth + Cardinality(Proc) - 1
    <3>1. Unfinished(a)' = Unfinished(a) /\ QueueDepth(a)' = QueueDepth(a)
      BY <1>1 DEF Unfinished, QueueDepth
    <3>2. CASE a = b
      <4>1. QueueDepth(a) < MaxQueueDepth
        BY <2>1, <3>2, QueueNumbers DEF QueueFull
      <4>2. /\ Cardinality(Places(a)') \in Nat /\ Cardinality(Proc) \in Nat
            /\ Cardinality(Places(a)') <= Cardinality(Proc)
        <5>1. Places(a)' \in SUBSET Proc
          BY DEF Places
        <5>2. QED
          BY <5>1, GroupAssumption, FS_Subset, FS_CardinalityType
      <4>3. QED
        BY <3>1, <4>1, <4>2, QueueNumbers
    <3>3. CASE a # b
      <4>1. Places(a)' \subseteq Places(a)
        <5>1. a \in Recipients(p, d.snapshot) \ d.unchecked => p \in Places(a)
          BY <2>1, <2>2, <3>3 DEF Places, Recipients
        <5> HIDE DEF d, b
        <5>2. QED
          BY <2>1, <5>1, PlacesMove
      <4>2. /\ Cardinality(Places(a)') <= Cardinality(Places(a))
            /\ Cardinality(Places(a)') \in Nat /\ Cardinality(Places(a)) \in Nat
            /\ Cardinality(Proc) \in Nat
        BY <4>1, PlacesFinite, FS_Subset, FS_CardinalityType
      <4>3. QED
        BY <3>1, <4>2, QueueNumbers
    <3>4. QED
      BY <3>2, <3>3
  <2>4. QED
    BY <2>3 DEF QueuesOK, GroupQueueBounded
<1>4. QED
  BY <1>2, <1>3

LEMMA OneMorePlace ==
  ASSUME NEW S, NEW x, NEW T, IsFiniteSet(S), T \subseteq S \cup {x}
  PROVE  /\ IsFiniteSet(T) /\ Cardinality(T) \in Nat /\ Cardinality(S) \in Nat
         /\ Cardinality(T) <= Cardinality(S) + 1
<1>1. IsFiniteSet(S \cup {x}) /\ Cardinality(S) \in Nat
  BY FS_AddElement, FS_CardinalityType
<1>2. Cardinality(S \cup {x}) = IF x \in S THEN Cardinality(S) ELSE Cardinality(S) + 1
  BY FS_AddElement
<1>3. Cardinality(S \cup {x}) <= Cardinality(S) + 1
  BY <1>1, <1>2
<1>4. IsFiniteSet(T) /\ Cardinality(T) <= Cardinality(S \cup {x}) /\ Cardinality(T) \in Nat
  BY <1>1, FS_Subset, FS_CardinalityType
<1>5. QED
  BY <1>1, <1>2, <1>3, <1>4, FS_CardinalityType

(* Each delivery that Create inserts has its place in the queue.             *)
LEMMA QueuesCreate ==
  ASSUME GroupInvariant, NEW p \in Proc, Create(p)
  PROVE  QueuesOK'
<1>0. Done(p) /\ pc[p] = "recipient" /\ draft[p].unchecked = {}
  BY DEF Create
<1>1. CASE deliveries' = deliveries
  BY <1>0, <1>1, QueuesEnd
<1>2. CASE deliveries' # deliveries
  <2>1. PICK f \in Fanout :
          /\ deliveries' = Append(deliveries, f)
          /\ f = [a \in draft[p].snapshot \ {Sender[p]} |-> <<"unfinished">>]
    BY <1>2, Inserted
  <2> DEFINE n == Len(deliveries) + 1
  <2>2. /\ DOMAIN deliveries = 1 .. n - 1 /\ DOMAIN deliveries' = 1 .. n
        /\ deliveries'[n] = f /\ \A m \in 1 .. n - 1 : deliveries'[m] = deliveries[m]
        /\ \A m \in 1 .. n : m = n \/ m \in 1 .. n - 1
    BY <2>1 DEF GroupInvariant, MessagesOK
  <2>3. ASSUME NEW a \in Agent
        PROVE  /\ IsFiniteSet(Unfinished(a))'
               /\ QueueDepth(a)' + Cardinality(Places(a)') <= MaxQueueDepth + Cardinality(Proc) - 1
    <3>1. ASSUME NEW x \in Unfinished(a)'
          PROVE  x \in Unfinished(a) \/ (a \in DOMAIN f /\ x = <<n, 1>>)
      <4>1. PICK m \in 1 .. n : /\ a \in DOMAIN deliveries'[m]
                                /\ \E k \in DOMAIN deliveries'[m][a] :
                                     x = <<m, k>> /\ deliveries'[m][a][k] = "unfinished"
        BY <2>2, <3>1 DEF Unfinished
      <4>2. CASE m = n
        <5>1. a \in DOMAIN f /\ f[a] = <<"unfinished">>
          BY <2>1, <2>2, <4>1, <4>2
        <5>2. DOMAIN f[a] = {1}
          BY <5>1
        <5>3. QED
          BY <2>2, <4>1, <4>2, <5>1, <5>2
      <4>3. CASE m \in 1 .. n - 1
        BY <2>2, <4>1, <4>3, UnfinishedElement
      <4>4. QED
        BY <2>2, <4>2, <4>3
    <3>2. CASE a \in DOMAIN f
      <4>1. p \in Places(a) /\ p \notin Places(a)'
        <5>1. a \in Recipients(p, draft[p].snapshot)
          BY <2>1, <3>2 DEF Recipients
        <5>2. pc'[p] = "idle"
          BY <1>0 DEF Done, To, GroupInvariant, CallsOK
        <5>3. QED
          BY <1>0, <5>1, <5>2 DEF Places
      <4>2. Places(a)' \subseteq Places(a) \ {p}
        <5>1. Places(a)' \subseteq Places(a)
          BY <1>0, PlacesMove DEF Done, To
        <5>2. QED
          BY <4>1, <5>1
      <4>3. Unfinished(a)' \subseteq Unfinished(a) \cup {<<n, 1>>}
        BY <3>1
      <4>4. /\ IsFiniteSet(Unfinished(a)')
            /\ Cardinality(Unfinished(a)') \in Nat
            /\ Cardinality(Unfinished(a)') <= Cardinality(Unfinished(a)) + 1
        BY <4>3, QueueNumbers, OneMorePlace
      <4>5. /\ Cardinality(Places(a)') \in Nat /\ Cardinality(Places(a)) \in Nat
            /\ Cardinality(Places(a)') <= Cardinality(Places(a)) - 1
            /\ Cardinality(Proc) \in Nat
        <5>1. /\ IsFiniteSet(Places(a) \ {p})
              /\ Cardinality(Places(a) \ {p}) = Cardinality(Places(a)) - 1
          BY <4>1, PlacesFinite, FS_RemoveElement
        <5>2. QED
          BY <4>2, <5>1, PlacesFinite, FS_Subset, FS_CardinalityType
      <4>6. QED
        BY <4>4, <4>5, QueueNumbers DEF QueueDepth
    <3>3. CASE a \notin DOMAIN f
      <4>1. Unfinished(a)' \subseteq Unfinished(a)
        BY <3>1, <3>3
      <4>2. Places(a)' \subseteq Places(a)
        BY <1>0, PlacesMove DEF Done, To
      <4>3. /\ IsFiniteSet(Unfinished(a)')
            /\ Cardinality(Unfinished(a)') <= Cardinality(Unfinished(a))
            /\ Cardinality(Unfinished(a)') \in Nat
        BY <4>1, QueueNumbers, FS_Subset, FS_CardinalityType
      <4>4. /\ Cardinality(Places(a)') <= Cardinality(Places(a))
            /\ Cardinality(Places(a)') \in Nat /\ Cardinality(Places(a)) \in Nat
            /\ Cardinality(Proc) \in Nat
        BY <4>2, PlacesFinite, FS_Subset, FS_CardinalityType
      <4>5. QED
        BY <4>3, <4>4, QueueNumbers DEF QueueDepth
    <3>4. QED
      BY <3>2, <3>3
  <2>4. QED
    BY <2>3 DEF QueuesOK, GroupQueueBounded
<1>3. QED
  BY <1>1, <1>2

(* A retry looks at the queues in the transaction that inserts.              *)
LEMMA QueuesRetry ==
  ASSUME GroupInvariant, NEW p \in Proc, RetryDeliveries(p)
  PROVE  QueuesOK'
<1> DEFINE m == draft[p].message
           again == draft[p].requested \cap Retryable(m)
           f == [a \in DOMAIN deliveries[m] |->
                   IF a \in again THEN Append(deliveries[m][a], "unfinished") ELSE deliveries[m][a]]
<1>0. Done(p) /\ pc[p] = "retry"
  BY DEF RetryDeliveries
<1>1. CASE deliveries' = deliveries
  BY <1>0, <1>1, QueuesEnd
<1>2. CASE deliveries' # deliveries
  <2>1. /\ deliveries' = [deliveries EXCEPT ![m] = f]
        /\ \A a \in again : ~QueueFull(a)
    BY <1>2 DEF RetryDeliveries
  <2>2. m \in DOMAIN deliveries
    BY <1>0 DEF GroupInvariant, CallsOK, DraftFits, MessagesOK
  <2>3. /\ deliveries'[m] = f /\ DOMAIN deliveries' = DOMAIN deliveries
        /\ \A j \in DOMAIN deliveries \ {m} : deliveries'[j] = deliveries[j]
    BY <2>1, <2>2
  <2>4. ASSUME NEW a \in Agent
        PROVE  /\ IsFiniteSet(Unfinished(a))'
               /\ QueueDepth(a)' + Cardinality(Places(a)') <= MaxQueueDepth + Cardinality(Proc) - 1
    <3> DEFINE s == deliveries[m][a]
    <3>1. ASSUME NEW x \in Unfinished(a)'
          PROVE  x \in Unfinished(a) \/ (a \in again /\ x = <<m, Len(s) + 1>>)
      <4>1. PICK j \in DOMAIN deliveries : /\ a \in DOMAIN deliveries'[j]
                                           /\ \E k \in DOMAIN deliveries'[j][a] :
                                                x = <<j, k>> /\ deliveries'[j][a][k] = "unfinished"
        BY <2>3, <3>1 DEF Unfinished
      <4>2. CASE j # m
        BY <2>3, <4>1, <4>2, UnfinishedElement
      <4>3. CASE j = m
        <5>1. /\ a \in DOMAIN deliveries[m]
              /\ f[a] = IF a \in again THEN Append(s, "unfinished") ELSE s
          BY <2>3, <4>1, <4>3
        <5>2. s \in Seq(State) /\ DOMAIN s = 1 .. Len(s) /\ Len(s) \in Nat
          BY <2>2, <5>1, RowElement DEF GroupInvariant
        <5>3. PICK k \in DOMAIN f[a] : x = <<m, k>> /\ f[a][k] = "unfinished"
          BY <2>3, <4>1, <4>3
        <5>4. (k \in DOMAIN s /\ s[k] = "unfinished") \/ (a \in again /\ k = Len(s) + 1)
          <6>1. CASE a \notin again
            BY <5>1, <5>3, <6>1
          <6>2. CASE a \in again
            <7>1. f[a] = Append(s, "unfinished")
              BY <5>1, <6>2
            <7> HIDE DEF f, s
            <7>2. k \in DOMAIN Append(s, "unfinished") /\ Append(s, "unfinished")[k] = "unfinished"
              BY <5>3, <7>1
            <7>3. QED
              BY <5>2, <6>2, <7>2, LastOrBefore
          <6>3. QED
            BY <6>1, <6>2
        <5>5. QED
          BY <2>2, <5>1, <5>3, <5>4, UnfinishedElement
      <4>4. QED
        BY <4>2, <4>3
    <3>2. CASE a \in again
      <4>1. QueueDepth(a) <= MaxQueueDepth - 1
        BY <2>1, <3>2, QueueNumbers DEF QueueFull
      <4>2. /\ IsFiniteSet(Unfinished(a)')
            /\ Cardinality(Unfinished(a)') \in Nat
            /\ Cardinality(Unfinished(a)') <= Cardinality(Unfinished(a)) + 1
        <5>1. Unfinished(a)' \subseteq Unfinished(a) \cup {<<m, Len(s) + 1>>}
          BY <3>1
        <5>2. QED
          BY <5>1, QueueNumbers, OneMorePlace
      <4>3. /\ Cardinality(Places(a)') \in Nat /\ Cardinality(Proc) \in Nat
            /\ Cardinality(Places(a)') <= Cardinality(Proc) - 1
        <5>1. Places(a)' \subseteq Proc \ {p}
          <6>1. pc'[p] = "idle"
            BY <1>0 DEF Done, To, GroupInvariant, CallsOK
          <6>2. QED
            BY <6>1 DEF Places
        <5>2. /\ IsFiniteSet(Proc \ {p}) /\ Cardinality(Proc \ {p}) = Cardinality(Proc) - 1
              /\ Cardinality(Proc) \in Nat
          BY GroupAssumption, FS_RemoveElement, FS_CardinalityType
        <5>3. QED
          BY <5>1, <5>2, FS_Subset, FS_CardinalityType
      <4>4. QED
        BY <4>1, <4>2, <4>3, QueueNumbers DEF QueueDepth
    <3>3. CASE a \notin again
      <4>1. Unfinished(a)' \subseteq Unfinished(a)
        BY <3>1, <3>3
      <4>2. Places(a)' \subseteq Places(a)
        BY <1>0, PlacesMove DEF Done, To
      <4>3. /\ IsFiniteSet(Unfinished(a)')
            /\ Cardinality(Unfinished(a)') <= Cardinality(Unfinished(a))
            /\ Cardinality(Unfinished(a)') \in Nat
        BY <4>1, QueueNumbers, FS_Subset, FS_CardinalityType
      <4>4. /\ Cardinality(Places(a)') <= Cardinality(Places(a))
            /\ Cardinality(Places(a)') \in Nat /\ Cardinality(Places(a)) \in Nat
            /\ Cardinality(Proc) \in Nat
        BY <4>2, PlacesFinite, FS_Subset, FS_CardinalityType
      <4>5. QED
        BY <4>3, <4>4, QueueNumbers DEF QueueDepth
    <3>4. QED
      BY <3>2, <3>3
  <2>5. QED
    BY <2>4 DEF QueuesOK, GroupQueueBounded
<1>3. QED
  BY <1>1, <1>2

LEMMA QueuesSettle ==
  ASSUME GroupInvariant, NEW m \in DOMAIN deliveries, NEW a \in DOMAIN deliveries[m],
         NEW k \in DOMAIN deliveries[m][a], NEW outcome \in {"completed", "failed"},
         Settle(m, a, k, outcome)
  PROVE  QueuesOK'
<1>1. ASSUME NEW b \in Agent, NEW x \in Unfinished(b)'
      PROVE  x \in Unfinished(b)
  <2>1. PICK n \in DOMAIN deliveries : /\ b \in DOMAIN deliveries'[n]
                                       /\ \E j \in DOMAIN deliveries'[n][b] :
                                            x = <<n, j>> /\ deliveries'[n][b][j] = "unfinished"
    BY <1>1 DEF Unfinished, Settle
  <2>2. PICK j \in DOMAIN deliveries'[n][b] : x = <<n, j>> /\ deliveries'[n][b][j] = "unfinished"
    BY <2>1
  <2>3. /\ b \in DOMAIN deliveries[n] /\ j \in DOMAIN deliveries[n][b]
        /\ deliveries[n][b][j] = "unfinished"
    <3>1. CASE n # m
      BY <2>1, <2>2, <3>1 DEF Settle
    <3>2. CASE n = m /\ b # a
      BY <2>1, <2>2, <3>2 DEF Settle
    <3>3. CASE n = m /\ b = a
      <4>1. deliveries'[n][b] = [deliveries[m][a] EXCEPT ![k] = outcome]
        BY <3>3 DEF Settle
      <4>2. QED
        BY <2>2, <3>3, <4>1
    <3>4. QED
      BY <3>1, <3>2, <3>3
  <2>4. QED
    BY <2>2, <2>3, UnfinishedElement
<1>2. \A b \in Agent : Places(b)' \subseteq Places(b)
  BY DEF Settle, Places
<1>3. QED
  BY <1>1, <1>2, QueuesShrink

(* The other steps of a call leave the messages alone.                       *)
LEMMA QueuesStep ==
  ASSUME GroupInvariant, NEW p \in Proc, BeginCall(p) \/ CallStep(p)
  PROVE  QueuesOK'
<1>1. ASSUME NEW c \in GroupCall, Send(p, c)
      PROVE  QueuesOK'
  <2>1. \A a \in Agent : Unfinished(a)' \subseteq Unfinished(a)
    BY <1>1 DEF Send, messageVars, Unfinished
  <2>2. \A a \in Agent : Places(a)' \subseteq Places(a)
    BY <1>1, PlacesMove DEF Send, To
  <2>3. QED
    BY <2>1, <2>2, QueuesShrink
<1>2. ASSUME NEW m \in DOMAIN groupMessages, NEW r \in SUBSET DOMAIN deliveries[m], Retry(p, m, r)
      PROVE  QueuesOK'
  <2>1. \A a \in Agent : Unfinished(a)' \subseteq Unfinished(a)
    BY <1>2 DEF Retry, messageVars, Unfinished
  <2>2. \A a \in Agent : Places(a)' \subseteq Places(a)
    BY <1>2, PlacesMove DEF Retry, To
  <2>3. QED
    BY <2>1, <2>2, QueuesShrink
<1>3. CASE ReadGroup(p) \/ ReadCaller(p) \/ FindDuplicate(p) \/ CheckRecipient(p) \/ Crash(p)
  BY <1>3, QueuesEnd, QueuesKeep
     DEF ReadGroup, ReadCaller, FindDuplicate, CheckRecipient, Crash, messageVars
<1>4. CASE ReadMembers(p)
  <2>1. CASE Done(p)
    BY <1>4, <2>1, QueuesEnd DEF ReadMembers, messageVars
  <2>2. CASE ~Done(p)
    <3> DEFINE S == Members(draft[p].call.group)
               d == [draft[p] EXCEPT !.snapshot = S, !.unchecked = Recipients(p, S)]
    <3>1. /\ pc' = [pc EXCEPT ![p] = "recipient"] /\ draft' = [draft EXCEPT ![p] = d]
          /\ deliveries' = deliveries /\ pc[p] = "members"
      BY <1>4, <2>2 DEF ReadMembers, To, messageVars
    <3>2. d.snapshot = S /\ d.unchecked = Recipients(p, S)
      BY <3>1 DEF GroupInvariant, CallsOK, DraftFits, SendPlaces
    <3>3. \A a \in Agent : Unfinished(a)' \subseteq Unfinished(a)
      BY <3>1 DEF Unfinished
    <3> HIDE DEF d
    <3>4. \A a \in Agent : Places(a)' \subseteq Places(a)
      BY <3>1, <3>2, PlacesMove
    <3>5. QED
      BY <3>3, <3>4, QueuesShrink
  <2>3. QED
    BY <2>1, <2>2
<1>5. QED
  BY <1>1, <1>2, <1>3, <1>4, QueuesCheck, QueuesCreate, QueuesRetry DEF BeginCall, CallStep

LEMMA MessagesStep ==
  ASSUME GroupInvariant, NEW p \in Proc, BeginCall(p) \/ CallStep(p)
  PROVE  MessagesOK' /\ OneGroupMessagePerKey' /\ DeliveredOnce'
<1>1. CASE UNCHANGED messageVars
  BY <1>1 DEF messageVars, GroupInvariant, MessagesOK, OneGroupMessagePerKey, DeliveredOnce
<1>2. CASE ~UNCHANGED messageVars
  <2>1. Create(p) \/ RetryDeliveries(p)
    BY <1>2 DEF BeginCall, Send, Retry, CallStep, ReadGroup, ReadCaller, FindDuplicate, ReadMembers,
                CheckRecipient, CheckQueue, Crash
  <2>2. QED
    BY <2>1, CreateStep, RetryStep
<1>3. QED
  BY <1>1, <1>2

LEMMA AdminStays ==
  ASSUME GroupInvariant, UNCHANGED adminVars
  PROVE  AdminOK'
BY DEF adminVars, GroupInvariant, AdminOK, GroupIntentOK, Created

LEMMA CallsStay ==
  ASSUME GroupInvariant, UNCHANGED <<groups, members, messageVars, pc, draft, stale>>
  PROVE  /\ MessagesOK' /\ OneGroupMessagePerKey' /\ DeliveredOnce'
         /\ CallsOK' /\ Fresh' /\ QueuesOK'
<1>1. MessagesOK' /\ OneGroupMessagePerKey' /\ DeliveredOnce'
  BY DEF messageVars, GroupInvariant, MessagesOK, OneGroupMessagePerKey, DeliveredOnce
<1>2. CallsOK' /\ Fresh'
  BY DEF messageVars, GroupInvariant, CallsOK, DraftFits, Fresh, StillSo, Created, Members
<1>3. QueuesOK'
  BY QueuesShrink DEF messageVars, Unfinished, Places
<1>4. QED
  BY <1>1, <1>2, <1>3

LEMMA GroupStep ==
  ASSUME GroupInvariant, [Next]_vars
  PROVE  GroupInvariant'
<1>1. RegistryInvariant
  BY DEF GroupInvariant
<1>2. CASE RegistryNext /\ UNCHANGED groupVars
  BY <1>1, <1>2, RegistryStep, AdminStays, CallsStay DEF groupVars, adminVars, messageVars, GroupInvariant
<1>3. CASE CommandStep /\ UNCHANGED <<agents, generations, intent, raced, messageVars, pc, draft>>
  <2>1. RegistryInvariant'
    BY <1>1, <1>3, RegistryStutters DEF registered
  <2>2. AdminOK' /\ CallsOK' /\ Fresh'
    BY <1>3, CommandAdmin, CommandCalls DEF messageVars
  <2>3. MessagesOK' /\ OneGroupMessagePerKey' /\ DeliveredOnce'
    BY <1>3 DEF messageVars, GroupInvariant, MessagesOK, OneGroupMessagePerKey, DeliveredOnce
  <2>4. QueuesOK'
    BY <1>3, QueuesShrink DEF messageVars, Unfinished, Places
  <2>5. QED
    BY <2>1, <2>2, <2>3, <2>4 DEF GroupInvariant
<1>4. ASSUME NEW p \in Proc, BeginCall(p) \/ CallStep(p),
             UNCHANGED <<agents, generations, intent, raced, adminVars>>
      PROVE  GroupInvariant'
  <2>1. RegistryInvariant'
    BY <1>1, <1>4, RegistryStutters DEF registered
  <2>2. AdminOK' /\ CallsOK' /\ Fresh'
    BY <1>4, AdminStays, CallsStep DEF adminVars
  <2>3. QED
    BY <1>4, <2>1, <2>2, MessagesStep, QueuesStep DEF GroupInvariant
<1>5. CASE SettleStep /\ UNCHANGED <<registryVars, adminVars>>
  <2>1. PICK m \in DOMAIN deliveries : \E a \in DOMAIN deliveries[m] :
          \E k \in DOMAIN deliveries[m][a], outcome \in {"completed", "failed"} : Settle(m, a, k, outcome)
    BY <1>5 DEF SettleStep
  <2>2. RegistryInvariant'
    BY <1>1, <1>5, RegistryStutters DEF registered, registryVars
  <2>3. AdminOK'
    BY <1>5, AdminStays
  <2>4. CallsOK' /\ Fresh'
    BY <1>5, <2>1 DEF Settle, adminVars, GroupInvariant, CallsOK, DraftFits, Fresh, StillSo, Created, Members
  <2>5. QED
    BY <2>1, <2>2, <2>3, <2>4, SettleOK, QueuesSettle DEF GroupInvariant
<1>6. CASE UNCHANGED vars
  BY <1>1, <1>6, RegistryStutters, AdminStays, CallsStay
     DEF vars, registryVars, registered, groupVars, adminVars, messageVars, GroupInvariant
<1>7. QED
  BY <1>2, <1>3, <1>4, <1>5, <1>6 DEF Next, registryVars

\* The invariant of groups and registry together holds in every reachable state.
THEOREM GroupInvariantCorrect == Spec => []GroupInvariant
BY GroupsStart, GroupStep, PTL DEF Spec

LEMMA GroupsAreTyped == GroupInvariant => GroupsTypeOK
<1> SUFFICES ASSUME GroupInvariant PROVE GroupsTypeOK
  OBVIOUS
<1>1. DOMAIN deliveries = DOMAIN groupMessages
  BY DEF GroupInvariant, MessagesOK
<1>2. \A c \in Operator : groupIntent[c] # Nothing => groupIntent[c].group \in Created
  BY DEF GroupInvariant, AdminOK, GroupIntentOK
<1>3. /\ pc \in [Proc -> {"idle", "group", "member", "key", "members", "recipient", "queue", "retry"}]
      /\ \A p \in Proc : pc[p] = "idle" => draft[p] = Nothing
      /\ stale \subseteq {p \in Proc : pc[p] # "idle"}
  BY DEF GroupInvariant, CallsOK, DraftFits, SendPlaces
<1>4. QED
  BY <1>1, <1>2, <1>3 DEF GroupsTypeOK, GroupInvariant, AdminOK, RegistryInvariant

\* Every variable of groups and registry keeps its type.
THEOREM GroupsTypeCorrect == Spec => []GroupsTypeOK
BY GroupInvariantCorrect, GroupsAreTyped, PTL

\* The tables of the registry agree also while groups are used and changed.
THEOREM GroupTablesAgree == Spec => []GenerationsAgree
BY GroupInvariantCorrect, PTL DEF GroupInvariant, RegistryInvariant

\* And so do the status of an agent and of its latest generation.
THEOREM GroupStatusAgrees == Spec => []RowFollowsAgent
BY GroupInvariantCorrect, PTL DEF GroupInvariant, RegistryInvariant

\* An idempotency key of a sender stands for one group message.
THEOREM OneGroupMessage == Spec => []OneGroupMessagePerKey
BY GroupInvariantCorrect, PTL DEF GroupInvariant

\* A recipient that has got a group message never gets another delivery of it.
THEOREM NeverRedelivered == Spec => []DeliveredOnce
BY GroupInvariantCorrect, PTL DEF GroupInvariant

\* The queue of a recipient exceeds its limit by less than the number of processes.
THEOREM GroupQueues == Spec => []GroupQueueBounded
BY GroupInvariantCorrect, PTL DEF GroupInvariant, QueuesOK

LEMMA SentStep ==
  ASSUME GroupInvariant, [Next]_vars, NEW p \in Proc \ stale,
         pc[p] = "recipient", groupMessages' # groupMessages, pc'[p] = "idle"
  PROVE  LET g == draft[p].call.group IN
           /\ groups[g].status = "active"
           /\ Sender[p] \in Members(g)
           /\ Last(groupMessages').snapshot = Members(g)
<1>1. PICK q \in Proc : Create(q)
  BY DEF Next, vars, groupVars, messageVars, CommandStep, SettleStep, Settle, BeginCall, Send, Retry,
         CallStep, ReadGroup, ReadCaller, FindDuplicate, ReadMembers, CheckRecipient, CheckQueue,
         RetryDeliveries, Crash
<1>2. q = p
  <2>1. pc' = [pc EXCEPT ![q] = "idle"]
    BY <1>1 DEF Create, Done, To
  <2>2. QED
    BY <2>1 DEF GroupInvariant, CallsOK
<1>3. PICK row \in MessageRow : /\ groupMessages' = Append(groupMessages, row)
                                /\ row.snapshot = draft[p].snapshot
  BY <1>1, <1>2, Inserted
<1>4. Last(groupMessages') = row
  <2>1. groupMessages \in Seq(MessageRow)
    BY DEF GroupInvariant, MessagesOK
  <2>2. QED
    BY <1>3, <2>1 DEF Last
<1>5. StillSo(p, "recipient", draft[p])
  BY DEF GroupInvariant, Fresh
<1>6. QED
  BY <1>3, <1>4, <1>5 DEF StillSo

\* A group message goes to exactly the members that its group has when it is
\* created, from one of them, unless the group was changed during the call.
THEOREM SentToItsMembers == Spec => SentToMembers
<1>1. GroupInvariant /\ [Next]_vars =>
        [\A p \in Proc \ stale :
           LET g == draft[p].call.group IN
           pc[p] = "recipient" /\ groupMessages' # groupMessages /\ pc'[p] = "idle" =>
             /\ groups[g].status = "active"
             /\ Sender[p] \in Members(g)
             /\ Last(groupMessages').snapshot = Members(g)]_vars
  BY SentStep
<1>2. QED
  BY <1>1, GroupInvariantCorrect, PTL DEF Spec, SentToMembers

LEMMA DeletedStep ==
  ASSUME GroupInvariant, [Next]_vars, NEW g \in Created, groups[g].status = "deleted"
  PROVE  \/ groups'[g].status = "deleted"
         \/ \E c \in Operator : /\ groupIntent[c] # Nothing
                                /\ groupIntent[c].group = g
                                /\ groupIntent[c].read # "deleted"
<1>1. CASE groups' = groups
  BY <1>1
<1>2. ASSUME NEW h \in Group, NEW a \in Agent, CreateGroup(h, a)
      PROVE  groups'[g].status = "deleted"
  BY <1>2 DEF CreateGroup, Created
<1>3. ASSUME NEW c \in Operator, WriteGroupStatus(c)
      PROVE  \/ groups'[g].status = "deleted"
             \/ /\ groupIntent[c] # Nothing /\ groupIntent[c].group = g
                /\ groupIntent[c].read # "deleted"
  <2>1. /\ groupIntent[c] # Nothing /\ GroupIntentOK(groupIntent[c])
        /\ groups' = [groups EXCEPT ![groupIntent[c].group].status = groupIntent[c].status]
    BY <1>3 DEF WriteGroupStatus, GroupInvariant, AdminOK
  <2>2. [groups[g] EXCEPT !.status = groupIntent[c].status].status = groupIntent[c].status
    BY DEF GroupInvariant, AdminOK
  <2>3. QED
    BY <2>1, <2>2 DEF GroupIntentOK, Created
<1>4. QED
  BY <1>1, <1>2, <1>3
     DEF Next, vars, groupVars, adminVars, CommandStep, AddMember, RemoveMember, ReadGroupStatus

\* A deleted group is never used again, but for a command that had read its
\* status before it was deleted.
THEOREM DeletedForGood == Spec => DeletedStays
<1>1. GroupInvariant /\ [Next]_vars =>
        [\A g \in Created : groups[g].status = "deleted" =>
           \/ groups'[g].status = "deleted"
           \/ \E c \in Operator : /\ groupIntent[c] # Nothing
                                  /\ groupIntent[c].group = g
                                  /\ groupIntent[c].read # "deleted"]_vars
  BY DeletedStep
<1>2. QED
  BY <1>1, GroupInvariantCorrect, PTL DEF Spec, DeletedStays

-----------------------------------------------------------------------------
(* The promise of group messages.                                            *)

(* A call that has got past the members has recipients, and not too many.    *)
FanoutFits(R) == R # {} /\ Cardinality(R) <= MaxGroupFanout
FanoutLimited ==
  \A p \in Proc : pc[p] \in {"recipient", "queue"} => FanoutFits(Recipients(p, draft[p].snapshot))

LEMMA FanoutGoes ==
  ASSUME GroupInvariant, FanoutLimited, NEW p \in Proc,
         \A q \in Proc \ {p} : pc'[q] = pc[q] /\ draft'[q] = draft[q],
         pc'[p] \in {"recipient", "queue"} => FanoutFits(Recipients(p, draft'[p].snapshot))
  PROVE  FanoutLimited'
BY DEF FanoutLimited, Recipients

LEMMA FanoutStep ==
  ASSUME GroupInvariant, FanoutLimited, [Next]_vars
  PROVE  FanoutLimited'
<1>1. ASSUME UNCHANGED <<pc, draft>>
      PROVE  FanoutLimited'
  BY <1>1 DEF FanoutLimited, Recipients
<1>2. ASSUME NEW p \in Proc, BeginCall(p) \/ CallStep(p)
      PROVE  FanoutLimited'
  <2>1. CASE ReadMembers(p) /\ ~Done(p)
    <3> DEFINE S == Members(draft[p].call.group)
    <3>1. /\ pc' = [pc EXCEPT ![p] = "recipient"]
          /\ draft' = [draft EXCEPT ![p].snapshot = S, ![p].unchecked = Recipients(p, S)]
          /\ FanoutFits(Recipients(p, S))
      BY <2>1 DEF ReadMembers, To, FanoutFits
    <3>2. DraftFits(p, pc[p], draft[p]) /\ pc[p] = "members"
      BY <2>1 DEF ReadMembers, GroupInvariant, CallsOK
    <3>3. draft'[p].snapshot = S
      BY <3>1, <3>2 DEF DraftFits, SendPlaces, GroupInvariant, CallsOK
    <3>4. \A q \in Proc \ {p} : pc'[q] = pc[q] /\ draft'[q] = draft[q]
      BY <3>1 DEF GroupInvariant, CallsOK
    <3>5. QED
      BY <3>1, <3>3, <3>4, FanoutGoes
  <2>2. CASE CheckQueue(p) /\ ~Done(p)
    <3>1. /\ pc[p] = "queue" /\ pc' = [pc EXCEPT ![p] = "recipient"]
          /\ \E S : draft' = [draft EXCEPT ![p].unchecked = S]
      BY <2>2 DEF CheckQueue, To
    <3>2. DraftFits(p, pc[p], draft[p])
      BY DEF GroupInvariant, CallsOK
    <3>3. draft'[p].snapshot = draft[p].snapshot
      BY <3>1, <3>2 DEF DraftFits, SendPlaces, GroupInvariant, CallsOK
    <3>4. \A q \in Proc \ {p} : pc'[q] = pc[q] /\ draft'[q] = draft[q]
      BY <3>1 DEF GroupInvariant, CallsOK
    <3>5. QED
      BY <3>1, <3>3, <3>4, FanoutGoes DEF FanoutLimited
  <2>3. CASE CheckRecipient(p) /\ ~Done(p)
    <3>1. pc[p] = "recipient" /\ pc' = [pc EXCEPT ![p] = "queue"] /\ draft' = draft
      BY <2>3 DEF CheckRecipient, Keep, To
    <3>2. \A q \in Proc \ {p} : pc'[q] = pc[q] /\ draft'[q] = draft[q]
      BY <3>1 DEF GroupInvariant, CallsOK
    <3>3. QED
      BY <3>1, <3>2, FanoutGoes DEF FanoutLimited
  <2>4. ASSUME NEW place \in {"idle", "group", "member", "key", "members", "retry"},
               pc' = [pc EXCEPT ![p] = place],
               draft' = draft \/ \E d : draft' = [draft EXCEPT ![p] = d]
        PROVE  FanoutLimited'
    <3>1. pc'[p] = place /\ \A q \in Proc \ {p} : pc'[q] = pc[q] /\ draft'[q] = draft[q]
      BY <2>4 DEF GroupInvariant, CallsOK
    <3>2. QED
      BY <3>1, FanoutGoes
  <2>5. CASE Done(p)
    BY <2>4, <2>5 DEF Done, To
  <2>6. QED
    BY <1>2, <2>1, <2>2, <2>3, <2>4, <2>5
       DEF BeginCall, Send, Retry, CallStep, ReadGroup, ReadCaller, FindDuplicate, Keep, To,
           ReadMembers, CheckRecipient, CheckQueue, Create, RetryDeliveries, Crash
<1>3. QED
  BY <1>1, <1>2 DEF Next, vars, groupVars, CommandStep, SettleStep, Settle

(* The promise counts with an instance of FiniteSets of its own.             *)
LEMMA SameCardinality ==
  ASSUME NEW S
  PROVE  Promised!Cardinality(S) = Cardinality(S)
  BY DEF Promised!Cardinality, Cardinality

LEMMA AcceptedWhole ==
  ASSUME GroupInvariant, FanoutLimited, NEW p \in Proc, Create(p), ~UNCHANGED messageVars
  PROVE  Promised!Accept
<1>1. PICK row \in MessageRow, f \in Fanout :
        /\ groupMessages' = Append(groupMessages, row)
        /\ deliveries' = Append(deliveries, f)
        /\ row.from = Sender[p] /\ row.snapshot = draft[p].snapshot
        /\ f = [a \in draft[p].snapshot \ {Sender[p]} |-> <<"unfinished">>]
        /\ \A m \in DOMAIN groupMessages :
             row.key = NoKey \/ groupMessages[m].from # row.from \/ groupMessages[m].key # row.key
  BY Inserted DEF messageVars
<1>2. /\ groupMessages \in Seq(MessageRow) /\ deliveries \in Seq(Fanout)
      /\ Len(deliveries) = Len(groupMessages)
  BY DEF GroupInvariant, MessagesOK
<1>3. /\ Len(groupMessages') = Len(groupMessages) + 1 /\ groupMessages'[Len(groupMessages')] = row
      /\ DOMAIN deliveries' = DOMAIN groupMessages' /\ DOMAIN deliveries = DOMAIN groupMessages
  BY <1>1, <1>2
<1>4. Promised!New(row)
  BY <1>1 DEF Promised!New
<1>5. /\ Promised!Recipients(row) = Recipients(p, draft[p].snapshot)
      /\ FanoutFits(Recipients(p, draft[p].snapshot))
  BY <1>1 DEF Promised!Recipients, Recipients, FanoutLimited, Create
<1>6. Fate(f) = [a \in Promised!Recipients(row) |-> "unfinished"]
  <2>1. Last(<<"unfinished">>) = "unfinished"
    BY DEF Last
  <2>2. f = [a \in Promised!Recipients(row) |-> <<"unfinished">>]
    BY <1>1 DEF Promised!Recipients
  <2>3. QED
    BY <2>1, <2>2 DEF Fate
<1>7. \A n \in DOMAIN groupMessages' :
        deliveries'[n] = IF n \in DOMAIN groupMessages THEN deliveries[n] ELSE f
  BY <1>1, <1>2
<1>8. [m \in DOMAIN deliveries' |-> Fate(deliveries'[m])] =
        [n \in DOMAIN groupMessages' |->
           IF n \in DOMAIN groupMessages
           THEN [m \in DOMAIN deliveries |-> Fate(deliveries[m])][n]
           ELSE [a \in Promised!Recipients(row) |-> "unfinished"]]
  <2> DEFINE whole == [a \in Promised!Recipients(row) |-> "unfinished"]
             before == [m \in DOMAIN deliveries |-> Fate(deliveries[m])]
  <2>1. \A n \in DOMAIN groupMessages : before[n] = Fate(deliveries[n])
    BY <1>3
  <2>2. \A n \in DOMAIN groupMessages' :
          Fate(deliveries'[n]) = IF n \in DOMAIN groupMessages THEN before[n] ELSE whole
    BY <1>6, <1>7, <2>1
  <2> HIDE DEF whole, before
  <2>3. [m \in DOMAIN deliveries' |-> Fate(deliveries'[m])] =
          [n \in DOMAIN groupMessages' |-> IF n \in DOMAIN groupMessages THEN before[n] ELSE whole]
    BY <1>3, <2>2
  <2>4. QED
    BY <2>3 DEF whole, before
<1>9. QED
  <2> DEFINE m == groupMessages'[Len(groupMessages')]
  <2>1. row = m
    BY <1>3
  <2> HIDE DEF m
  <2>2. groupMessages' = Append(groupMessages, m) /\ Promised!New(m)
    BY <1>1, <1>4, <2>1
  <2>3. /\ Promised!Recipients(m) # {}
        /\ Cardinality(Promised!Recipients(m)) <= MaxGroupFanout
    BY <1>5, <2>1 DEF FanoutFits
  <2>4. [n \in DOMAIN deliveries' |-> Fate(deliveries'[n])] =
          [n \in DOMAIN groupMessages' |->
             IF n \in DOMAIN groupMessages
             THEN [k \in DOMAIN deliveries |-> Fate(deliveries[k])][n]
             ELSE [a \in Promised!Recipients(m) |-> "unfinished"]]
    BY <1>8, <2>1
  <2>5. Len(groupMessages') = Len(groupMessages) + 1
    BY <1>3
  <2> USE DEF m
  <2>6. Promised!Cardinality(Promised!Recipients(m)) <= MaxGroupFanout
    BY <2>3, SameCardinality
  <2>7. QED
    BY <2>2, <2>3, <2>4, <2>5, <2>6 DEF Promised!Accept

LEMMA FateReplaced ==
  ASSUME NEW m \in DOMAIN deliveries, NEW f, deliveries' = [deliveries EXCEPT ![m] = f]
  PROVE  [n \in DOMAIN deliveries |-> Fate(deliveries[n])]' =
           [[n \in DOMAIN deliveries |-> Fate(deliveries[n])] EXCEPT ![m] = Fate(f)]
<1>1. DOMAIN deliveries' = DOMAIN deliveries
  OBVIOUS
<1>2. \A n \in DOMAIN deliveries : deliveries'[n] = IF n = m THEN f ELSE deliveries[n]
  OBVIOUS
<1>3. \A n \in DOMAIN deliveries : Fate(deliveries'[n]) = IF n = m THEN Fate(f) ELSE Fate(deliveries[n])
  BY <1>2
<1>4. QED
  BY <1>1, <1>3 DEF Fate

(* Only the last delivery of a recipient can be unfinished (DeliveredOnce).  *)
LEMMA DecidedOnce ==
  ASSUME GroupInvariant, NEW m \in DOMAIN deliveries, NEW a \in DOMAIN deliveries[m],
         NEW k \in DOMAIN deliveries[m][a], NEW outcome \in {"completed", "failed"},
         Settle(m, a, k, outcome)
  PROVE  Promised!Decide(m, a)
<1> DEFINE s == deliveries[m][a]
           f == [deliveries[m] EXCEPT ![a] = [s EXCEPT ![k] = outcome]]
<1>1. deliveries' = [deliveries EXCEPT ![m] = f] /\ groupMessages' = groupMessages /\ s[k] = "unfinished"
  BY DEF Settle
<1>2. s \in Seq(State) /\ \A j \in 1 .. Len(s) - 1 : s[j] = "failed"
  <2>1. m \in DOMAIN groupMessages
    BY DEF GroupInvariant, MessagesOK
  <2>2. QED
    BY <2>1, RowElement DEF GroupInvariant, DeliveredOnce
<1>3. k = Len(s)
  <2>1. s[k] = "unfinished" /\ k \in DOMAIN s
    BY <1>1
  <2> HIDE DEF s
  <2>2. QED
    BY <1>2, <2>1
<1>4. Last(s) = "unfinished" /\ Last([s EXCEPT ![k] = outcome]) = outcome
  <2>1. k \in DOMAIN s
    OBVIOUS
  <2>2. s[k] = "unfinished"
    BY <1>1
  <2> HIDE DEF s
  <2>3. Len([s EXCEPT ![k] = outcome]) = Len(s)
    BY <1>2, <2>1
  <2>4. QED
    BY <1>2, <1>3, <2>1, <2>2, <2>3 DEF Last
<1>5. Fate(f) = [Fate(deliveries[m]) EXCEPT ![a] = outcome] /\ Fate(deliveries[m])[a] = "unfinished"
  <2>1. /\ DOMAIN f = DOMAIN deliveries[m]
        /\ \A b \in DOMAIN deliveries[m] :
             Last(f[b]) = IF b = a THEN outcome ELSE Last(deliveries[m][b])
    BY <1>4
  <2>2. QED
    BY <1>4, <2>1 DEF Fate
<1>6. QED
  <2> HIDE DEF f
  <2>1. [n \in DOMAIN deliveries |-> Fate(deliveries[n])]' =
          [[n \in DOMAIN deliveries |-> Fate(deliveries[n])] EXCEPT ![m] = Fate(f)]
    BY <1>1, FateReplaced
  <2>2. QED
    BY <1>1, <1>5, <2>1 DEF Promised!Decide

LEMMA TriedAgain ==
  ASSUME GroupInvariant, NEW p \in Proc, RetryDeliveries(p), ~UNCHANGED messageVars
  PROVE  \E m \in DOMAIN groupMessages :
           \E failed \in SUBSET DOMAIN deliveries[m] : Promised!Again(m, failed)
<1> DEFINE m == draft[p].message
           again == draft[p].requested \cap Retryable(m)
           f == [a \in DOMAIN deliveries[m] |->
                   IF a \in again THEN Append(deliveries[m][a], "unfinished") ELSE deliveries[m][a]]
<1>1. deliveries' = [deliveries EXCEPT ![m] = f] /\ groupMessages' = groupMessages
  BY DEF RetryDeliveries, messageVars
<1>2. m \in DOMAIN deliveries /\ m \in DOMAIN groupMessages
  BY DEF RetryDeliveries, GroupInvariant, CallsOK, DraftFits, MessagesOK
<1>3. /\ again \in SUBSET DOMAIN deliveries[m]
      /\ \A a \in again : Last(deliveries[m][a]) = "failed"
  BY DEF Retryable
<1>4. \A a \in DOMAIN deliveries[m] :
        Last(f[a]) = IF a \in again THEN "unfinished" ELSE Last(deliveries[m][a])
  <2> SUFFICES ASSUME NEW a \in DOMAIN deliveries[m], a \in again
               PROVE  Last(f[a]) = "unfinished"
    OBVIOUS
  <2>1. f[a] = Append(deliveries[m][a], "unfinished")
    OBVIOUS
  <2>2. deliveries[m][a] \in Seq(State)
    BY <1>2, RowElement DEF GroupInvariant
  <2> HIDE DEF f, m
  <2>3. QED
    BY <2>1, <2>2 DEF Last
<1>5. DOMAIN f = DOMAIN deliveries[m]
  OBVIOUS
<1> HIDE DEF f, again, m
<1>6. Fate(f) = [a \in DOMAIN Fate(deliveries[m]) |->
                   IF a \in again THEN "unfinished" ELSE Fate(deliveries[m])[a]]
  BY <1>4, <1>5 DEF Fate
<1>7. \A a \in again : Fate(deliveries[m])[a] = "failed"
  BY <1>3 DEF Fate
<1>8. [n \in DOMAIN deliveries |-> Fate(deliveries[n])]' =
        [[n \in DOMAIN deliveries |-> Fate(deliveries[n])] EXCEPT ![m] = Fate(f)]
  BY <1>1, <1>2, FateReplaced
<1>9. Promised!Again(m, again)
  BY <1>1, <1>2, <1>6, <1>7, <1>8 DEF Promised!Again
<1>10. QED
  BY <1>2, <1>3, <1>9

LEMMA GroupPromiseStutters ==
  ASSUME UNCHANGED messageVars
  PROVE  UNCHANGED Promised!promiseVars
BY DEF messageVars, Promised!promiseVars, Fate

LEMMA GroupPromiseStep ==
  ASSUME GroupInvariant, FanoutLimited, [Next]_vars
  PROVE  [Promised!PromiseNext]_Promised!promiseVars
<1>1. DOMAIN deliveries = DOMAIN groupMessages
  BY DEF GroupInvariant, MessagesOK
<1>2. \A m \in DOMAIN deliveries :
        DOMAIN [n \in DOMAIN deliveries |-> Fate(deliveries[n])][m] = DOMAIN deliveries[m]
  BY DEF Fate
<1>3. CASE UNCHANGED messageVars
  BY <1>3, GroupPromiseStutters
<1>4. ASSUME NEW p \in Proc, BeginCall(p) \/ CallStep(p), ~UNCHANGED messageVars
      PROVE  Promised!PromiseNext
  <2>1. Create(p) \/ RetryDeliveries(p)
    BY <1>4 DEF BeginCall, Send, Retry, CallStep, ReadGroup, ReadCaller, FindDuplicate, ReadMembers,
                CheckRecipient, CheckQueue, Crash
  <2>2. QED
    BY <1>1, <1>2, <1>4, <2>1, AcceptedWhole, TriedAgain DEF Promised!PromiseNext
<1>5. CASE SettleStep
  <2>1. PICK m \in DOMAIN deliveries : \E a \in DOMAIN deliveries[m] :
          \E k \in DOMAIN deliveries[m][a], outcome \in {"completed", "failed"} : Settle(m, a, k, outcome)
    BY <1>5 DEF SettleStep
  <2>2. PICK a \in DOMAIN deliveries[m] : Promised!Decide(m, a)
    BY <2>1, DecidedOnce
  <2>3. QED
    BY <1>1, <1>2, <2>2 DEF Promised!PromiseNext
<1>6. QED
  BY <1>3, <1>4, <1>5 DEF Next, vars, groupVars, messageVars

\* Group messages keep their promise, however calls, retries, commands and
\* outcomes interleave and processes die (group_service.ts, GroupRepository).
THEOREM GroupPromiseKept == Spec => KeepsGroupPromise
<1>1. Init => FanoutLimited /\ Promised!PromiseInit
  BY DEF Init, GroupInit, FanoutLimited, Promised!PromiseInit
<1>2. GroupInvariant /\ FanoutLimited /\ [Next]_vars => FanoutLimited'
  BY FanoutStep
<1>3. GroupInvariant /\ FanoutLimited /\ [Next]_vars => [Promised!PromiseNext]_Promised!promiseVars
  BY GroupPromiseStep
<1>4. QED
  BY <1>1, <1>2, <1>3, GroupInvariantCorrect, PTL DEF Spec, KeepsGroupPromise, Promised!PromiseSpec

(* A delivery row.                                                           *)
LEMMA DeliveryElement ==
  ASSUME NEW states, NEW x
  PROVE  x \in DeliveriesIn(states) <=>
           \E m \in DOMAIN deliveries : \E a \in DOMAIN deliveries[m] : \E k \in DOMAIN deliveries[m][a] :
             x = <<m, a, k>> /\ deliveries[m][a][k] \in states
BY DEF DeliveriesIn

LEMMA DeliveryElementNext ==
  ASSUME NEW states, NEW x
  PROVE  x \in DeliveriesIn(states)' <=>
           \E m \in DOMAIN deliveries' : \E a \in DOMAIN deliveries'[m] : \E k \in DOMAIN deliveries'[m][a] :
             x = <<m, a, k>> /\ deliveries'[m][a][k] \in states
BY DEF DeliveriesIn

(* Rows are added to those there are.                                        *)
LEMMA RowsAdded ==
  ASSUME \A m \in DOMAIN deliveries : \A a \in DOMAIN deliveries[m] : \A k \in DOMAIN deliveries[m][a] :
           /\ m \in DOMAIN deliveries' /\ a \in DOMAIN deliveries'[m] /\ k \in DOMAIN deliveries'[m][a]
           /\ deliveries'[m][a][k] = deliveries[m][a][k],
         \A m \in DOMAIN deliveries' : \A a \in DOMAIN deliveries'[m] : \A k \in DOMAIN deliveries'[m][a] :
           \/ deliveries'[m][a][k] = "unfinished"
           \/ /\ m \in DOMAIN deliveries /\ a \in DOMAIN deliveries[m] /\ k \in DOMAIN deliveries[m][a]
              /\ deliveries'[m][a][k] = deliveries[m][a][k]
  PROVE  Rows!Insert
<1>1. DeliveriesIn({"unfinished"}) \subseteq DeliveriesIn({"unfinished"})'
  BY DeliveryElement, DeliveryElementNext
<1>2. DeliveriesIn({"completed", "failed"})' = DeliveriesIn({"completed", "failed"})
  <2>1. ASSUME NEW x \in DeliveriesIn({"completed", "failed"})
        PROVE  x \in DeliveriesIn({"completed", "failed"})'
    BY DeliveryElement, DeliveryElementNext
  <2>2. ASSUME NEW x \in DeliveriesIn({"completed", "failed"})'
        PROVE  x \in DeliveriesIn({"completed", "failed"})
    BY DeliveryElement, DeliveryElementNext
  <2>3. QED
    BY <2>1, <2>2
<1>3. DeliveriesIn({"unfinished"})' \cap DeliveriesIn({"completed", "failed"}) = {}
  <2> SUFFICES ASSUME NEW x \in DeliveriesIn({"completed", "failed"}), x \in DeliveriesIn({"unfinished"})'
               PROVE  FALSE
    OBVIOUS
  <2>1. x \in DeliveriesIn({"completed", "failed"})'
    BY <1>2
  <2>2. QED
    BY <2>1, DeliveryElementNext
<1>4. QED
  BY <1>1, <1>2, <1>3 DEF Rows!Insert

LEMMA CreationAddsRows ==
  ASSUME GroupInvariant, NEW p \in Proc, Create(p), ~UNCHANGED messageVars
  PROVE  Rows!Insert
<1>1. PICK row \in MessageRow, f \in Fanout :
        /\ deliveries' = Append(deliveries, f)
        /\ f = [a \in draft[p].snapshot \ {Sender[p]} |-> <<"unfinished">>]
  BY Inserted DEF messageVars
<1>2. deliveries \in Seq(Fanout)
  BY DEF GroupInvariant, MessagesOK
<1>3. /\ DOMAIN deliveries' = DOMAIN deliveries \cup {Len(deliveries) + 1}
      /\ Len(deliveries) + 1 \notin DOMAIN deliveries
      /\ deliveries'[Len(deliveries) + 1] = f
      /\ \A m \in DOMAIN deliveries : deliveries'[m] = deliveries[m]
  BY <1>1, <1>2
<1>4. \A a \in DOMAIN f : \A k \in DOMAIN f[a] : f[a][k] = "unfinished"
  BY <1>1
<1>5. QED
  BY <1>3, <1>4, RowsAdded

(* Of a recipient whose deliveries stay or get one more, all stay.           *)
LEMMA RowAppended ==
  ASSUME NEW s \in Seq(State), NEW r, r = s \/ r = Append(s, "unfinished")
  PROVE  /\ \A k \in DOMAIN s : k \in DOMAIN r /\ r[k] = s[k]
         /\ \A k \in DOMAIN r : \/ r[k] = "unfinished"
                                \/ k \in DOMAIN s /\ r[k] = s[k]
<1>1. CASE r = s
  BY <1>1
<1>2. CASE r = Append(s, "unfinished")
  <2>1. \A k \in DOMAIN s : k \in DOMAIN r /\ r[k] = s[k]
    BY <1>2
  <2>2. r[Len(s) + 1] = "unfinished"
    BY <1>2
  <2>3. \A k \in DOMAIN r : k = Len(s) + 1 \/ k \in DOMAIN s
    BY <1>2
  <2>4. QED
    BY <2>1, <2>2, <2>3
<1>3. QED
  BY <1>1, <1>2

LEMMA RetryAddsRows ==
  ASSUME GroupInvariant, NEW p \in Proc, RetryDeliveries(p), ~UNCHANGED messageVars
  PROVE  Rows!Insert
<1> DEFINE m == draft[p].message
           again == draft[p].requested \cap Retryable(m)
           f == [a \in DOMAIN deliveries[m] |->
                   IF a \in again THEN Append(deliveries[m][a], "unfinished") ELSE deliveries[m][a]]
<1>1. deliveries' = [deliveries EXCEPT ![m] = f]
  BY DEF RetryDeliveries, messageVars
<1>2. m \in DOMAIN deliveries
  BY DEF RetryDeliveries, GroupInvariant, CallsOK, DraftFits, MessagesOK
<1>3. DOMAIN f = DOMAIN deliveries[m]
  OBVIOUS
<1>4. ASSUME NEW a \in DOMAIN deliveries[m]
      PROVE  /\ \A k \in DOMAIN deliveries[m][a] : k \in DOMAIN f[a] /\ f[a][k] = deliveries[m][a][k]
             /\ \A k \in DOMAIN f[a] : \/ f[a][k] = "unfinished"
                                       \/ k \in DOMAIN deliveries[m][a] /\ f[a][k] = deliveries[m][a][k]
  <2> DEFINE s == deliveries[m][a]
  <2>1. s \in Seq(State)
    BY <1>2, RowElement DEF GroupInvariant
  <2>2. f[a] = s \/ f[a] = Append(s, "unfinished")
    OBVIOUS
  <2> HIDE DEF f, s
  <2>3. /\ \A k \in DOMAIN s : k \in DOMAIN f[a] /\ f[a][k] = s[k]
        /\ \A k \in DOMAIN f[a] : \/ f[a][k] = "unfinished"
                                  \/ k \in DOMAIN s /\ f[a][k] = s[k]
    BY <2>1, <2>2, RowAppended
  <2>4. QED
    BY <2>3 DEF s
<1> HIDE DEF f, again, m
<1>5. /\ DOMAIN deliveries' = DOMAIN deliveries
      /\ \A n \in DOMAIN deliveries : deliveries'[n] = IF n = m THEN f ELSE deliveries[n]
  BY <1>1
<1>6. QED
  BY <1>2, <1>3, <1>4, <1>5, RowsAdded

LEMMA OutcomeFinishesRow ==
  ASSUME GroupInvariant, NEW m \in DOMAIN deliveries, NEW a \in DOMAIN deliveries[m],
         NEW k \in DOMAIN deliveries[m][a], NEW outcome \in {"completed", "failed"},
         Settle(m, a, k, outcome)
  PROVE  <<m, a, k>> \in DeliveriesIn({"unfinished"}) /\ Rows!Finish(<<m, a, k>>)
<1>1. /\ deliveries' = [deliveries EXCEPT ![m][a][k] = outcome]
      /\ deliveries[m][a][k] = "unfinished"
  BY DEF Settle
<1>2. /\ DOMAIN deliveries' = DOMAIN deliveries
      /\ \A n \in DOMAIN deliveries :
           /\ DOMAIN deliveries'[n] = DOMAIN deliveries[n]
           /\ \A b \in DOMAIN deliveries[n] :
                /\ DOMAIN deliveries'[n][b] = DOMAIN deliveries[n][b]
                /\ \A j \in DOMAIN deliveries[n][b] :
                     deliveries'[n][b][j] =
                       IF <<n, b, j>> = <<m, a, k>> THEN outcome ELSE deliveries[n][b][j]
  BY <1>1
<1>3. <<m, a, k>> \in DeliveriesIn({"unfinished"})
  BY <1>1, DeliveryElement
<1>4. DeliveriesIn({"unfinished"})' = DeliveriesIn({"unfinished"}) \ {<<m, a, k>>}
  <2>1. ASSUME NEW x
        PROVE  x \in DeliveriesIn({"unfinished"})' <=>
                 x \in DeliveriesIn({"unfinished"}) /\ x # <<m, a, k>>
    BY <1>2, DeliveryElement, DeliveryElementNext
  <2>2. QED
    BY <2>1
<1>5. DeliveriesIn({"completed", "failed"})' = DeliveriesIn({"completed", "failed"}) \cup {<<m, a, k>>}
  <2>1. ASSUME NEW x
        PROVE  x \in DeliveriesIn({"completed", "failed"})' <=>
                 x \in DeliveriesIn({"completed", "failed"}) \/ x = <<m, a, k>>
    BY <1>1, <1>2, DeliveryElement, DeliveryElementNext
  <2>2. QED
    BY <2>1
<1>6. QED
  BY <1>3, <1>4, <1>5 DEF Rows!Finish

LEMMA DeliveryRowsStep ==
  ASSUME GroupInvariant, [Next]_vars
  PROVE  [Rows!RowsNext]_Rows!rows
<1>1. CASE UNCHANGED messageVars
  BY <1>1 DEF messageVars, Rows!rows, DeliveriesIn
<1>2. ASSUME NEW p \in Proc, BeginCall(p) \/ CallStep(p), ~UNCHANGED messageVars
      PROVE  Rows!RowsNext
  <2>1. Create(p) \/ RetryDeliveries(p)
    BY <1>2 DEF BeginCall, Send, Retry, CallStep, ReadGroup, ReadCaller, FindDuplicate, ReadMembers,
                CheckRecipient, CheckQueue, Crash
  <2>2. QED
    BY <1>2, <2>1, CreationAddsRows, RetryAddsRows DEF Rows!RowsNext
<1>3. CASE SettleStep
  BY <1>3, OutcomeFinishesRow DEF SettleStep, Rows!RowsNext
<1>4. QED
  BY <1>1, <1>2, <1>3 DEF Next, vars, groupVars, messageVars

\* The deliveries of group messages are rows like any other, as far as the
\* scheduler can tell (insertRecipientDeliveries, retryFailedRecipients).
THEOREM GroupsKeepRows == Spec => KeepsRows
<1>1. Init => Rows!RowsInit
  BY DEF Init, GroupInit, Rows!RowsInit, DeliveriesIn
<1>2. GroupInvariant /\ [Next]_vars => [Rows!RowsNext]_Rows!rows
  BY DeliveryRowsStep
<1>3. QED
  BY <1>1, <1>2, GroupInvariantCorrect, PTL DEF Spec, KeepsRows, Rows!RowsSpec
=============================================================================
