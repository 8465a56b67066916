\* One orchestrated paper, whose text may give up to two items for each of its
\* types, and another paper whose claims its own caller admits, with retries.
\* Each slot is spawned once and one envelope (after any retries) settles it.
SPECIFICATION OrchestratorSpec
CONSTANTS
  claim = claim
  concept = concept
  rival = rival
  alice = alice
  paper = paper
  claims = claims
  concepts = concepts
  others = others
  Anonymous = Anonymous
  NoPaper = NoPaper
  NoCap = NoCap
  Threshold = 70
  WaiverFloor = 40
  RequireReview = TRUE
  DetectConflicts = TRUE
  HonorWaivers = TRUE
  CheckEntailment = FALSE
  Slots = {claims, concepts, others}
  Nodes = {claim, concept, rival}
  Opposed <- MCOpposed
  AvgConf <- MCAvgConf
  Reviewers = {alice}
  RetryAllowed = TRUE
  MaxSpawns = 1
  MaxAdmits = 1
  Papers = {paper}
  FanOut <- MCFanOut
  TypeOf <- MCTypeOf
  Texts <- MCTexts
  Floors = {0, 50}
  Caps = {NoCap, 1}
INVARIANTS
  FailedOwnsNothing
  RefusedAsForeseen
  ReportIsTrue
  DriftExplained
PROPERTIES
  OrchestratorAdditive
\* Every envelope may have been put, and every job may have failed.
CHECK_DEADLOCK FALSE
