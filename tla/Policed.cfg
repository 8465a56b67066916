\* Two slots, one free and one escalated, three decisions, two envelopes a slot.
SPECIFICATION PolicedSpec
CONSTANTS
  claim1 = claim1
  claim2 = claim2
  alice = alice
  slotA = slotA
  slotB = slotB
  Anonymous = Anonymous
  Threshold = 70
  WaiverFloor = 40
  RequireReview = TRUE
  DetectConflicts = TRUE
  HonorWaivers = TRUE
  CheckEntailment = FALSE
  Slots = {slotA, slotB}
  Nodes = {claim1, claim2}
  Opposed <- MCOpposed
  AvgConf <- MCAvgConf
  Reviewers = {alice}
  RetryAllowed = FALSE
  MaxSpawns = 1
  MaxAdmits = 2
  Rules <- MCRules
  OutcomeRules <- MCOutcomeRules
  MaxDecisions = 3
INVARIANTS
  RunsAsRuled
  ContentAsRuled
  JobsAccountedFor
PROPERTIES
  Additive
\* The list of decisions has a bound.
CHECK_DEADLOCK FALSE
