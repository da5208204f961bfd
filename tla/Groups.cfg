\* Two processes of the owner of a group of three, three operations of any kind.
CONSTANTS
  cfo = cfo
  legal = legal
  sales = sales
  tax = tax
  t1 = t1
  t2 = t2
  t3 = t3
  t4 = t4
  t5 = t5
  team = team
  board = board
  k = k
  cfo1 = cfo1
  cfo2 = cfo2
  own = own
  none = none
  Agent = {cfo, legal, sales, tax}
  Thread = {t1, t2, t3, t4, t5}
  Operator = {1, 2}
  Binding = {none, own}
  Unverified = none
  Founded = {cfo, legal, sales}
  FirstThread <- MCFirstThread
  Administered = {legal, tax}
  MaxOperations = 3
  Nothing = Nothing
  Group = {team, board}
  FirstOwner <- MCFirstOwner
  FirstMembers <- MCFirstMembers
  Proc = {cfo1, cfo2}
  Sender <- MCSender
  GroupCall <- MCGroupCall
  NoKey = NoKey
  MaxGroupFanout = 2
  MaxQueueDepth = 1
  MaxGroupMessages = 2
  MaxSequence = 3
SPECIFICATION Spec
SYMMETRY MCSymmetry
INVARIANTS
  GroupsTypeOK
  GenerationsAgree
  RowFollowsAgent
  OneGroupMessagePerKey
  DeliveredOnce
  GroupQueueBounded
PROPERTIES
  SentToMembers
  DeletedStays
  KeepsGroupPromise
\* All operations may be over.
CHECK_DEADLOCK FALSE
