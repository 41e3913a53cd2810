\* Two names, one request in flight, every sequence of four identities.
SPECIFICATION Spec
CONSTANTS
  User = {admin, bob}
  Admin = admin
  Password = {p1}
  Mounted = mounted
  MountedStrong = FALSE
  Role = {"admin", "viewer"}
  Request = {r1}
  None = None
  IdMax = 3
  RevMax = 3
  SessionMax = 2
INVARIANTS
  ProvenByCurrentPassword
PROPERTIES
  AdminNeverLost
  SessionsStayRevoked
  MountedPasswordRetires
