\* Every relation over three tasks, two threads, a retry budget for each label
\* and one for failures without a label.
SPECIFICATION ConformSpec
CONSTANTS
  extract = extract
  conflictCheck = conflictCheck
  reviewerJudge = reviewerJudge
  transient = transient
  structural = structural
  NoClass = NoClass
  Tasks <- ThreeTasks
  MayDepend <- AnyEdge
  MaxWorkers = 2
  MaxRetries = 1
  Classes = {transient, structural}
  RetryPolicy <- RetryByClass
INVARIANTS
  NoEarlyStart
  SkippedIffUnreachable
  RetriesAsBudgeted
  ConformanceExact
PROPERTIES
  RunSpec
  RunEnds
\* A run that is refused or done has nothing left to do.
CHECK_DEADLOCK FALSE
