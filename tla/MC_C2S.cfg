\* Two addresses, one of them with the same user, servers that come and go, and
\* time.
SPECIFICATION FairSpec
CONSTANTS
  Addrs = {a1, a2}
  SIDs = {i1}
  Users = {u1}
  Servers = {s1, s2}
  NoUser = NoUser
  NoServer = NoServer
  KA_TIMEOUT = 2
  SEND_TIMEOUT = 2
  MAX_SEND_ATTEMPTS = 1
  SEQ_SPACE = 2
  MaxQueue = 1
  Watched = {a1}
INVARIANTS QueuesAgree NothingOverdue AnnouncedExactly
PROPERTIES PacketsLeave DeadSessionEnds
CHECK_DEADLOCK FALSE
