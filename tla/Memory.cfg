SPECIFICATION Spec
CONSTANTS
  job = job
  alice = alice
  bob = bob
  Subjects <- JobOnly
  Roles = {alice, bob}
  Verdicts = {"pass", "fail"}
  Disputes <- PassOrFail
  MaxRecords = 3
INVARIANTS
  QueriesAgree
  EdgesAreValid
  OneSideIsRight
PROPERTIES
  RetractionIsFinal
  RetractionDiscounts
CHECK_DEADLOCK FALSE
