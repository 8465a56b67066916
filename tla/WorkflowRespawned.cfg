\* Slots spawned again: job nodes that share an id, a review task and edges.
\* Envelopes come twice, claims of the two slots contradict each other, and
\* reviews are given and changed at any time.
SPECIFICATION Spec
CONSTANTS
  claim1 = claim1
  claim2 = claim2
  concept = concept
  alice = alice
  bob = bob
  slotA = slotA
  slotB = slotB
  Anonymous = Anonymous
  Threshold = 70
  WaiverFloor = 40
  RequireReview = TRUE
  DetectConflicts = TRUE
  HonorWaivers = TRUE
  CheckEntailment = FALSE
  Slots = {slotA, slotB}
  Nodes = {claim1, claim2}
  Opposed <- MCOpposed
  AvgConf <- MCAvgConf
  Reviewers = {alice}
  RetryAllowed = FALSE
  MaxSpawns = 2
  MaxAdmits = 2
SYMMETRY SlotSymmetry
INVARIANTS
  HeldHasReview
  ApprovedIsBacked
  ConflictsRecorded
PROPERTIES
  UnlockIsClean
  LedgerSpec
\* Every envelope may have been put, and every job may have failed.
CHECK_DEADLOCK FALSE
