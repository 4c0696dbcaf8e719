\* Every kind of proxy; two calls of connect, two attempts for each packet.
SPECIFICATION ClientFairSpec
CONSTANTS
  Kinds = {"null", "socks", "http"}
  MAX_SEND_ATTEMPTS = 2
  MaxConnects = 2
INVARIANTS OnlineMeansAccepted TimersRun
PROPERTY LoginEnds
