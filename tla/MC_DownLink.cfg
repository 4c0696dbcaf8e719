\* Three numbers and four packets: the last one reuses the first one's number.
SPECIFICATION Spec
CONSTANTS
  SEQ_SPACE = 3
  MAX_SEND_ATTEMPTS = 1
  InitialSeq = 1
  MaxPackets = 4
INVARIANT AckedMeansProcessed
PROPERTIES Refines
CHECK_DEADLOCK FALSE
