\* Two processes and one asynchronous message, with fairness.
CONSTANTS
  alice = alice
  bob = bob
  cfo = cfo
  Free = Free
  Orphan = Orphan
  Proc <- MCProc
  Present <- MCProc
  Agent = {cfo}
  Message = {1}
  Recipient <- MCRecipient
  CreatedAt <- MCCreatedAt
  Ending = {"completed", "silent", "failed", "exhausted"}
  Perishable = {1}
  Ask = {}
  MaxRetryAttempts = 1
  MaxGeneration = 2
  Administered = {cfo}
  MaxCrashes = 1
  MaxLate = 0
SPECIFICATION FairSpec
PROPERTIES
  EveryMessageSettles
\* Messages may all be finished.
CHECK_DEADLOCK FALSE
