CONSTANTS
  Args <- MCArgs
  MaxReads = 3
SPECIFICATION TextSpec
INVARIANTS AcceptedIsCounted ReadBack TextReadsBack InputIsUnderstood RepliesAreFramed
CHECK_DEADLOCK FALSE
