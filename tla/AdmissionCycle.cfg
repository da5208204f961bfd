\* The instance of Admission.cfg, for the claim of docs/THREAT_MODEL.md:24.
CONSTANTS
  cfo = cfo
  legal = legal
  sales = sales
  cfo1 = cfo1
  cfo2 = cfo2
  legal1 = legal1
  sales1 = sales1
  k = k
  x = x
  y = y
  Proc <- MCProc
  Agent <- MCAgent
  Sender <- MCSender
  Call <- MCCall
  NoKey = NoKey
  NoCall = NoCall
  MaxQueueDepth = 1
  MaxMessage = 3
SPECIFICATION Spec
SYMMETRY MCSymmetry
INVARIANTS
  NoCycle
CHECK_DEADLOCK FALSE
