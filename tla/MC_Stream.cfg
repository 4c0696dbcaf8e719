\* Packets larger than what the kernel takes at once, a send buffer that two of
\* them overflow, both ways to poll, and every outcome of connecting.
SPECIFICATION StreamFairSpec
CONSTANTS
  Sizes = {1, 2}
  SENDBUF_SIZE = 6
  RECVBUF_SIZE = 4
  Wire = 3
  FdSets = {"poll", "select"}
  MaxPackets = 3
INVARIANTS Whole NoLostWakeup
PROPERTIES Drains
CHECK_DEADLOCK FALSE
