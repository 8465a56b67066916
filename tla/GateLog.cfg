\* Every question a caller can put to the gate, one decision per behaviour.
SPECIFICATION LogSpec
CONSTANTS
  alice = alice
  Anonymous = Anonymous
  Threshold = 70
  WaiverFloor = 40
  RequireReview = TRUE
  DetectConflicts = TRUE
  HonorWaivers = TRUE
  CheckEntailment = TRUE
  Signers <- MCSigners
  Levels <- MCLevels
  MaxLogged = 1
INVARIANT VerdictIsEarned
\* The log is full after MaxLogged.
CHECK_DEADLOCK FALSE
