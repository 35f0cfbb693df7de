SPECIFICATION AdminSpec
CONSTANTS
  u1 = u1
  u2 = u2
  u3 = u3
  u4 = u4
  h1 = h1
  h2 = h2
  h3 = h3
  h4 = h4
  r1 = r1
  r2 = r2
  r3 = r3
  Requests = {r1, r2, r3}
  Users = {u1, u2, u3, u4}
  Handles = {h1, h2, h3, h4}
  MaxSession = 4
  MaxDevices = 2
  None = None
  Roles = {"guest", "member", "admin"}
  Names = {"general", "random"}
  Name0 = "general"
  MaxInvite = 2
  MaxConversation = 3
  Channels0 = {1}
  MinInterval = 2
  ThrottleEntries = 1
  MaxTime = 3
  Handle0 <- MCHandle0
  Owner0 <- MCOwner0
  Role0 <- MCRole0
  Subjects <- MCSubjects
  Traffic <- MCTraffic
SYMMETRY Sym
INVARIANTS AdminTypeOK NoMutualRevocation AuthorityHeld NoDeadlock OneDm SignalsSpaced TrailIsHistory GroundsHeld
PROPERTIES NoOracle
CHECK_DEADLOCK FALSE
