\* Two processes and one ask: crashes, late requests, replacement of the recipient.
CONSTANTS
  alice = alice
  bob = bob
  cfo = cfo
  Free = Free
  Orphan = Orphan
  Proc <- MCProc
  Present <- MCProc
  Agent = {cfo}
  Message = {1}
  Recipient <- MCRecipient
  CreatedAt <- MCCreatedAt
  Ending = {"completed", "silent"}
  Perishable = {1}
  Ask = {1}
  MaxRetryAttempts = 2
  MaxGeneration = 2
  Administered = {cfo}
  MaxCrashes = 1
  MaxLate = 1
SPECIFICATION Spec
SYMMETRY ProcSymmetry
INVARIANTS
  TypeOK
  DuplicateOnlyWhenLate
  CompletedByATurn
  EdgeClosed
  AttemptsBounded
PROPERTIES
  OutcomeIsFinal
  KeepsPromise
  TendedUntilDeath
\* Messages may all be finished.
CHECK_DEADLOCK FALSE
