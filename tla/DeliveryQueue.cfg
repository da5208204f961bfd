\* Two processes, two messages queued for one recipient, one crash.
CONSTANTS
  alice = alice
  bob = bob
  cfo = cfo
  Free = Free
  Orphan = Orphan
  Proc <- MCProc
  Present <- MCProc
  Agent = {cfo}
  Message = {1, 2}
  Recipient <- MCRecipient
  CreatedAt <- MCCreatedAt
  Ending = {"completed"}
  Perishable = {1}
  Ask = {1}
  MaxRetryAttempts = 1
  MaxGeneration = 1
  Administered = {}
  MaxCrashes = 1
  MaxLate = 0
SPECIFICATION Spec
SYMMETRY ProcSymmetry
INVARIANTS
  DeliveryInvariant
  OneSenderPerThread
  OneTurnAtATime
  FifoOrder
\* Messages may all be finished.
CHECK_DEADLOCK FALSE
