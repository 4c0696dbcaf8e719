\* Files of no chunk to two chunks and a half, and every way the two users can
\* be reached.
SPECIFICATION TransferFairSpec
CONSTANTS
  FileSizes = {0, 1, 2, 3, 4, 5}
  CHUNK = 2
  Room = 3
INVARIANTS RolesAgree ReceiverTruth OnlyTailLost
PROPERTIES Ends
CHECK_DEADLOCK FALSE
