\* Two processes of one agent and one of each of two others, three messages; cfo1 and cfo2 are interchangeable.
CONSTANTS
  cfo = cfo
  legal = legal
  sales = sales
  cfo1 = cfo1
  cfo2 = cfo2
  legal1 = legal1
  sales1 = sales1
  k = k
  x = x
  y = y
  Proc <- MCProc
  Agent <- MCAgent
  Sender <- MCSender
  Call <- MCCall
  NoKey = NoKey
  NoCall = NoCall
  MaxQueueDepth = 1
  MaxMessage = 3
SPECIFICATION Spec
SYMMETRY MCSymmetry
INVARIANTS
  TypeOK
  OneMessagePerKey
  AnswerIsOwnRequest
  QueueBounded
  NoRingInTurn
\* All calls may be made and all messages finished.
CHECK_DEADLOCK FALSE
