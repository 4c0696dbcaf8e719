\* A name of another address, one that is cut to it, and one of our own address;
\* two links.
SPECIFICATION FairSpec
CONSTANTS
  Servers = {s1, s2}
  Names = {"b", "bb", "o"}
  Cut <- MC_Cut
  Address <- MC_Address
  Local = "ip_own"
  NoIP = "ip_none"
  SendBuf = 2
  AskBuf = 1
  MaxPackets = 2
  MaxAsked = 1
INVARIANTS InOrder OriginChecked AnswerComes
PROPERTY QueueMoves
