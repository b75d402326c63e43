\* One user, a role of its organization and one of another, one request in the middleware, one administrator.
SPECIFICATION FairSpec
CONSTANTS
  Users = {u1}
  Roles = {admin, guest}
  OwnRoles = {admin}
  SystemRoles = {admin}
  Perms = {edit}
  NoUser = NoUser
  NoRole = NoRole
  Readers = {r1}
  Admins = {a1}
  TTL = 1
  Deadline = 1
  Faults = TRUE
INVARIANTS TypeOK AccessBounded GrantsBounded StaleIsInFlight
PROPERTIES ShutOutInTheEnd
