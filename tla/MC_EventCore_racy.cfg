\* ++refCount and --refCount interleave on two processors.
SPECIFICATION CoreSpec
CONSTANTS
  Names = {n1}
  NUM_THREADS = 2
  MaxSessions = 1
  MaxSends = 2
  MaxRestarts = 0
INVARIANTS NotDeletedInHash
CHECK_DEADLOCK FALSE
