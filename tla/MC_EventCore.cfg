\* Two sessions of one name, a packet and one restart of the threads.
SPECIFICATION CoreFairSpec
CONSTANTS
  Names = {n1}
  NUM_THREADS = 2
  MaxSessions = 2
  MaxSends = 1
  MaxRestarts = 1
INVARIANTS RefsExact NoUseAfterFree SessionSerial
PROPERTIES SessionsFreed RestartEnds
CHECK_DEADLOCK FALSE
