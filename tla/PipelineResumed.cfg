\* Two slots, three reports, a gate that holds only what is contested: runs,
\* failures and resumes of either slot in any order.
SPECIFICATION PipelineSpec
CONSTANTS
  claim1 = claim1
  claim2 = claim2
  alice = alice
  slotA = slotA
  slotB = slotB
  Anonymous = Anonymous
  Threshold = 50
  WaiverFloor = 40
  RequireReview = FALSE
  DetectConflicts = TRUE
  HonorWaivers = TRUE
  CheckEntailment = FALSE
  Slots = {slotA, slotB}
  Nodes = {claim1, claim2}
  Opposed <- MCOpposed
  AvgConf <- MCAvgConf
  Reviewers = {}
  RetryAllowed = FALSE
  MaxSpawns = 2
  MaxAdmits = 3
  MaxReports = 3
  DetectDivergence = TRUE
SYMMETRY SlotSymmetry
INVARIANTS
  LandedAsReported
  DisagreementsReported
  DiagnosisComplete
  DivergenceIsRefused
PROPERTIES
  VerdictForetells
  ContestedIsHeld
  PipelineAdditive
\* The number of reports has a bound.
CHECK_DEADLOCK FALSE
