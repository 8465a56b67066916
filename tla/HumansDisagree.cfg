SPECIFICATION Spec
CONSTANTS
  job = job
  alice = alice
  bob = bob
  Subjects <- JobOnly
  Roles = {alice, bob}
  Verdicts = {"accept", "reject"}
  Disputes <- AcceptOrReject
  MaxRecords = 2
INVARIANT OneSideIsRight
CHECK_DEADLOCK FALSE
