\* Two proposals, stale or not, four decisions and commits by any role.
SPECIFICATION Spec
CONSTANTS
  staffing = staffing
  revenue = revenue
  low = low
  high = high
  Unset = Unset
  Keys = {staffing, revenue}
  Values = {low, high}
  Payloads <- MCPayloads
  MaxProposals = 2
  MaxRecords = 4
INVARIANTS
  StateIsReplay
  NoLostUpdate
  CommitsAnswerable
\* The log of records has a bound.
CHECK_DEADLOCK FALSE
