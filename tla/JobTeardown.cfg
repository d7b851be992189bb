\* One frame and one error.
CONSTANTS
  MaxBuffers = 1
  MaxErrors = 1
SPECIFICATION JobFairSpec
INVARIANT TeardownFailureRecorded
CHECK_DEADLOCK FALSE
