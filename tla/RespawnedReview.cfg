\* A slot spawned twice, admitted on the latest job and reviewed on the first.
SPECIFICATION Spec
CONSTANTS
  claim1 = claim1
  claim2 = claim2
  concept = concept
  alice = alice
  bob = bob
  slotA = slotA
  slotB = slotB
  Anonymous = Anonymous
  Threshold = 70
  WaiverFloor = 40
  RequireReview = TRUE
  DetectConflicts = TRUE
  HonorWaivers = TRUE
  CheckEntailment = FALSE
  Slots = {slotA}
  Nodes = {claim1, claim2, concept}
  Opposed <- MCOpposed
  AvgConf <- MCAvgConf
  Reviewers = {alice}
  RetryAllowed = FALSE
  MaxSpawns = 2
  MaxAdmits = 1
INVARIANTS
  LowConfidenceNeedsWaiver
\* Every envelope may have been put, and every job may have failed.
CHECK_DEADLOCK FALSE
