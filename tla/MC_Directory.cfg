\* Two users and two addresses: double logins, address reuse, and a stream
\* short enough to overflow.
SPECIFICATION Spec
CONSTANTS
  Users = {u1, u2}
  Addrs = {a1, a2}
  Capacity = 3
  MaxLogins = 4
  MaxReplies = 1
INVARIANTS DirectoriesAgree NoMisrouting
SYMMETRY Symmetry
CHECK_DEADLOCK FALSE
