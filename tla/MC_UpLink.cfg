\* A window of three bits over seven numbers that wrap round after two packets;
\* timeouts of two ticks, so that acknowledgements race the timer.
SPECIFICATION FairSpec
CONSTANTS
  MAX_SEQ = 7
  SEQ_WIN_SIZE = 3
  MAX_SEND_ATTEMPTS = 2
  SEND_TIMEOUT = 2
  InitialSeq = 4
  MaxAge = 3
  KeepAlives = {4}
  MaxPackets = 5
INVARIANTS AtMostOnce AckedMeansProcessed
PROPERTIES Refines OutcomeReported
CHECK_DEADLOCK FALSE
