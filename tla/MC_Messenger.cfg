\* Two users log in, out and in again, and one of them gives a command of any kind.
SPECIFICATION MessengerSpec
CONSTANTS
  Users = {u1, u2}
  Nobody = Nobody
  Statuses = {"ONLINE", "INVIS"}
  Auths = {"ACCEPT"}
  Commands = {"CMD_ADD_CONTACT", "CMD_DEL_CONTACT", "CMD_CHANGE_STATUS",
              "CMD_GET_CONTACT_INFO", "AUTH_ACCEPT", "TEXT"}
  FETCH_LIMIT = 1
  MaxSessions = 2
  MaxCommands = 1
SYMMETRY Sym
ACTION_CONSTRAINTS SmFirst OneOvertakes
INVARIANTS ViewsAgree NotifiesSubscribers WatchedKnows
PROPERTY NoMessageVanishes
CHECK_DEADLOCK FALSE
