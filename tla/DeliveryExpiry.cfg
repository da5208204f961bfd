\* Two processes and one asynchronous message.
CONSTANTS
  alice = alice
  bob = bob
  cfo = cfo
  Free = Free
  Orphan = Orphan
  Proc <- MCProc
  Present <- MCProc
  Agent = {cfo}
  Message = {1}
  Recipient <- MCRecipient
  CreatedAt <- MCCreatedAt
  Ending = {"completed", "silent", "failed", "exhausted"}
  Perishable = {1}
  Ask = {}
  MaxRetryAttempts = 1
  MaxGeneration = 1
  Administered = {}
  MaxCrashes = 1
  MaxLate = 0
SPECIFICATION Spec
SYMMETRY ProcSymmetry
PROPERTIES
  NoTurnAfterExpiry
\* Messages may all be finished.
CHECK_DEADLOCK FALSE
